----------------------------- MODULE PartsProofs -----------------------------
(***************************************************************************)
(* The parts that stand by themselves.  The two small queues of the system *)
(* are the queues they stand for: the register stage pipe_reg.v a lossless *)
(* two-place FIFO, for every set of data, and the driver's circ_queue.c    *)
(* the bounded message queue, for every number of places, any set of       *)
(* consumers and any number of messages.  And every instruction word of    *)
(* softmc.cpp is decoded as it was meant, for every bank, row, column,     *)
(* pattern, time and register value.                                       *)
(***************************************************************************)
EXTENDS PipeRegSpec, CircQueue, InstrCodec, SequenceTheorems, TLAPS

-----------------------------------------------------------------------------
(* The register stage.                                                     *)
\* One clock keeps the types and the order of the two registers.
LEMMA PipeRegClkInv ==
  ASSUME NEW p \in PipeRegs, PipeRegInv(p),
         NEW ready_in \in BOOLEAN, NEW in \in Slot
  PROVE  /\ PipeRegClk(p, ready_in, in) \in PipeRegs
         /\ PipeRegInv(PipeRegClk(p, ready_in, in))
  BY DEF PipeRegs, PipeRegInv, PipeRegClk, first_buf_ready

\* A reset clock leaves an empty stage, whatever r_ready becomes.
LEMMA PipeRegRstInv ==
  ASSUME NEW p \in PipeRegs, NEW ready_in \in BOOLEAN
  PROVE  /\ PipeRegRst(p, ready_in) \in PipeRegs
         /\ PipeRegInv(PipeRegRst(p, ready_in))
         /\ Content(PipeRegRst(p, ready_in)) = << >>
  BY DEF PipeRegs, PipeRegInv, PipeRegRst, first_buf_ready, Slot, Content, AsSeq

\* The registers of pipe_reg.v keep their types, and ready_out is low only over
\* a full output register.
THEOREM StageInvariant == RegSpec => []StageInv
<1>1. RegInit => StageInv
  BY DEF RegInit, StageInv, RegTypeOK, PipeRegInit, PipeRegs, PipeRegInv, Slot
<1>2. StageInv /\ [RegNext]_regVars => StageInv'
  <2> SUFFICES ASSUME StageInv, [RegNext]_regVars PROVE StageInv'
    OBVIOUS
  <2> USE DEF StageInv, RegTypeOK
  <2>1. ASSUME NEW ready_in \in BOOLEAN, NEW in \in Slot, RegClk(ready_in, in)
        PROVE  StageInv'
    <3>1. reg' \in PipeRegs /\ PipeRegInv(reg')
      BY <2>1, PipeRegClkInv DEF RegClk
    <3>2. took' \in Slot /\ gave' \in Slot
      BY <2>1 DEF RegClk, Accepted, Delivered, Slot, PipeRegs
    <3>3. QED BY <3>1, <3>2
  <2>2. ASSUME NEW ready_in \in BOOLEAN, RegRst(ready_in)
        PROVE  StageInv'
    BY <2>2, PipeRegRstInv DEF RegRst, Slot
  <2>3. CASE UNCHANGED regVars
    BY <2>3 DEF regVars
  <2>4. QED BY <2>1, <2>2, <2>3 DEF RegNext
<1>3. QED BY <1>1, <1>2, PTL DEF RegSpec

\* r_data2 is never read while ready_out is high, so clearing it there changes
\* no output of this clock and none of any later one.
THEOREM SettleSound ==
  ASSUME NEW p \in PipeRegs, NEW ready_in \in BOOLEAN, NEW in \in Slot
  PROVE  /\ Settle(PipeRegClk(Settle(p), ready_in, in)) = Settle(PipeRegClk(p, ready_in, in))
         /\ Accepted(Settle(p), in) = Accepted(p, in)
         /\ Delivered(Settle(p), ready_in) = Delivered(p, ready_in)
         /\ Content(Settle(p)) = Content(p)
         /\ Settle(p) \in PipeRegs
<1> USE DEF PipeRegs, Slot
<1>1. CASE ~p.ready
  BY <1>1 DEF Settle
<1>2. CASE p.ready
  <2>1. Settle(p) = [ready |-> TRUE, first |-> p.first, second |-> NoData]
    BY <1>2 DEF Settle
  <2>2. CASE first_buf_ready(p, ready_in)
    <3> DEFINE b == first_buf_ready(p, ready_in)
               q == PipeRegClk(p, ready_in, in)
               r == PipeRegClk(Settle(p), ready_in, in)
    <3>1. first_buf_ready(Settle(p), ready_in) = b
      BY <2>1 DEF first_buf_ready
    <3>2. q = [ready |-> b, first |-> in, second |-> p.second]
      BY <1>2, <2>2 DEF PipeRegClk
    <3>3. r = [ready |-> b, first |-> in, second |-> NoData]
      <4>1. Settle(p).ready /\ Settle(p).second = NoData
        BY <2>1
      <4>2. first_buf_ready(Settle(p), ready_in)
        BY <2>2, <3>1
      <4>3. QED BY <3>1, <4>1, <4>2 DEF PipeRegClk
    <3>4. Settle(r) = Settle(q)
      <4> HIDE DEF b, q, r
      <4>1. Settle(q) = [ready |-> b, first |-> in, second |-> NoData]
        BY <2>2, <3>2 DEF Settle, b
      <4>2. Settle(r) = [ready |-> b, first |-> in, second |-> NoData]
        BY <2>2, <3>3 DEF Settle, b
      <4>3. QED BY <4>1, <4>2
    <3>5. QED BY <1>2, <2>1, <3>4 DEF Accepted, Delivered, Content
  <2>3. CASE ~first_buf_ready(p, ready_in)
    <3>1. PipeRegClk(Settle(p), ready_in, in) = PipeRegClk(p, ready_in, in)
      BY <1>2, <2>1, <2>3 DEF PipeRegClk, first_buf_ready
    <3>2. QED BY <1>2, <2>1, <3>1 DEF Accepted, Delivered, Content
  <2>4. QED BY <2>2, <2>3
<1>3. QED BY <1>1, <1>2

\* The short sequences a stage can hold.
LEMMA ShortSequences ==
  ASSUME NEW a, NEW b
  PROVE  /\ Append(<< a >>, b) = << a, b >>
         /\ Tail(<< a, b >>) = << b >>
         /\ Head(<< a, b >>) = a
         /\ Len(<< a, b >>) = 2
         /\ << a, b >> # << >>
<1>1. Append(<< a >>, b) = << a, b >>
  <2> DEFINE S == {a, b}
             s == Append(<< a >>, b)
             t == << a, b >>
  <2>1. s \in Seq(S) /\ t \in Seq(S) /\ Len(s) = Len(t)
    OBVIOUS
  <2>2. \A i \in 1 .. Len(s) : s[i] = t[i]
    OBVIOUS
  <2>3. QED BY <2>1, <2>2, SeqEqual
<1>2. QED BY <1>1

\* What one clock does to the content: the datum delivered leaves the front, the
\* datum accepted joins the back, and there are never more than two.
LEMMA ContentStep ==
  ASSUME NEW p \in PipeRegs, PipeRegInv(p),
         NEW ready_in \in BOOLEAN, NEW in \in Slot
  PROVE  LET out   == Delivered(p, ready_in)
             acc   == Accepted(p, in)
             rest  == IF out = NoData THEN Content(p) ELSE Tail(Content(p))
             after == IF acc = NoData THEN rest ELSE Append(rest, acc)
         IN  /\ out # NoData => Content(p) # << >> /\ out = Head(Content(p))
             /\ Content(PipeRegClk(p, ready_in, in)) = after
             /\ Len(after) <= 2
<1> DEFINE q == PipeRegClk(p, ready_in, in)
<1> USE DEF PipeRegs, PipeRegInv, PipeRegClk, first_buf_ready, Delivered,
            Accepted, Content, AsSeq
<1>1. CASE p.ready /\ p.first = NoData
  BY <1>1
<1>2. CASE p.ready /\ p.first # NoData
  <2>1. CASE ready_in
    BY <1>2, <2>1
  <2>2. CASE ~ready_in
    <3>1. CASE in = NoData
      BY <1>2, <2>2, <3>1
    <3>2. CASE in # NoData
      <4>1. Content(q) = << p.first, in >> /\ Content(p) = << p.first >>
        BY <1>2, <2>2, <3>2
      <4>2. QED BY <1>2, <2>2, <3>2, <4>1, ShortSequences
    <3>3. QED BY <3>1, <3>2
  <2>3. QED BY <2>1, <2>2
<1>3. CASE ~p.ready /\ p.first = NoData
  BY <1>3
<1>4. CASE ~p.ready /\ p.first # NoData
  <2>1. CASE p.second = NoData
    BY <1>4, <2>1
  <2>2. CASE p.second # NoData
    <3>1. Content(p) = << p.first, p.second >>
      BY <1>4, <2>2
    <3>2. CASE ready_in
      <4>1. Content(q) = << p.second >>
        BY <1>4, <2>2, <3>2
      <4>2. QED BY <1>4, <2>2, <3>1, <3>2, <4>1, ShortSequences
    <3>3. CASE ~ready_in
      BY <1>4, <2>2, <3>1, <3>3, ShortSequences
    <3>4. QED BY <3>2, <3>3
  <2>3. QED BY <2>1, <2>2
<1>5. QED BY <1>1, <1>2, <1>3, <1>4

\* pipe_reg.v never loses, repeats or reorders an instruction: it implements
\* the two-place FIFO.
THEOREM StageImplementsFifo == RegSpec => ImplementsFifo
<1>1. RegInit => Fifo!Init
  BY DEF RegInit, Fifo!Init, PipeRegInit, Content, AsSeq
<1>2. StageInv /\ [RegNext]_regVars => [Fifo!Next]_<<Content(reg), took, gave>>
  <2> SUFFICES ASSUME StageInv, [RegNext]_regVars
               PROVE  [Fifo!Next]_<<Content(reg), took, gave>>
    OBVIOUS
  <2>1. ASSUME NEW ready_in \in BOOLEAN, NEW in \in Slot, RegClk(ready_in, in)
        PROVE  Fifo!Next
    <3>1. Fifo!Transfer(Accepted(reg, in), Delivered(reg, ready_in))
      BY <2>1, ContentStep DEF Fifo!Transfer, RegClk, StageInv, RegTypeOK
    <3>2. /\ Accepted(reg, in) \in Data \cup {NoData}
          /\ Delivered(reg, ready_in) \in Data \cup {NoData}
      BY DEF Accepted, Delivered, StageInv, RegTypeOK, PipeRegs, Slot
    <3>3. QED BY <3>1, <3>2 DEF Fifo!Next
  <2>2. ASSUME NEW ready_in \in BOOLEAN, RegRst(ready_in)
        PROVE  Fifo!Next
    BY <2>2, PipeRegRstInv DEF Fifo!Next, Fifo!Clear, RegRst, StageInv, RegTypeOK
  <2>3. CASE UNCHANGED regVars
    BY <2>3 DEF regVars, Content, AsSeq
  <2>4. QED BY <2>1, <2>2, <2>3 DEF RegNext
<1>3. QED BY <1>1, <1>2, StageInvariant, PTL DEF RegSpec, ImplementsFifo, Fifo!Spec

-----------------------------------------------------------------------------
(* The circular queue.  The induction rests on where a count's place is:   *)
(* CircInv says what the places between the two counters hold, and what a  *)
(* thread's local variables still mean if readIndex has not moved since it *)
(* read it.                                                                *)
PushPcs == {"idle", "check", "val1", "val2", "inc"}
PopPcs == {"idle", "retry", "check", "val1", "val2", "cas"}

TypeOK ==
  /\ writeIndex \in Nat
  /\ readIndex \in Nat
  /\ vals \in [Places -> Nat \X Nat]
  /\ push \in [pc : PushPcs, w : Nat]
  /\ pop \in [Consumers -> [pc : PopPcs, r : Nat, val1 : Nat, val2 : Nat]]
  /\ got \in [Consumers -> Nat \X Nat]

Bounded == readIndex <= writeIndex /\ writeIndex - readIndex <= QLen - 1

Stored == \A n \in Nat : readIndex <= n /\ n < writeIndex =>
            vals[queue_count_to_index(n)] = <<n + 1, n + 1>>

Producer ==
  /\ push.pc # "idle" => push.w = writeIndex
  /\ push.pc \in {"val1", "val2", "inc"} => writeIndex - readIndex < QLen - 1
  /\ push.pc \in {"val2", "inc"} => vals[queue_count_to_index(writeIndex)][1] = writeIndex + 1
  /\ push.pc = "inc" => vals[queue_count_to_index(writeIndex)][2] = writeIndex + 1

Consumer(c) ==
  /\ pop[c].pc \in {"check", "val1", "val2", "cas"} => pop[c].r <= readIndex
  /\ pop[c].pc \in {"val1", "val2", "cas"} /\ pop[c].r = readIndex => readIndex < writeIndex
  /\ pop[c].pc \in {"val2", "cas"} /\ pop[c].r = readIndex => pop[c].val1 = readIndex + 1
  /\ pop[c].pc = "cas" /\ pop[c].r = readIndex => pop[c].val2 = readIndex + 1

CircInv == TypeOK /\ Bounded /\ Stored /\ Producer /\ \A c \in Consumers : Consumer(c)

-----------------------------------------------------------------------------
(* Division.                                                               *)

\* Quotient and remainder put a count together again.
LEMMA Division ==
  ASSUME NEW a \in Nat, NEW q \in Nat \ {0}
  PROVE  /\ a % q \in 0 .. q - 1
         /\ a \div q \in Int
         /\ a = q * (a \div q) + (a % q)
<1>1. a % q \in 0 .. q - 1
  BY SMT
<1>2. a \div q \in Int
  BY SMT
<1>3. a = q * (a \div q) + (a % q)
  BY SMT
<1>4. QED
  BY <1>1, <1>2, <1>3

\* There is only one remainder.
LEMMA RemainderUnique ==
  ASSUME NEW q \in Nat \ {0}, NEW x \in Int, NEW y \in Int,
         NEW r \in 0 .. q - 1, NEW s \in 0 .. q - 1,
         q * x + r = q * y + s
  PROVE  r = s
<1>1. q * (x - y) = s - r
  BY SMT
<1>2. QED
  BY <1>1, SMT

\* Counts less than a round apart have different places (circ_queue.c's tests
\* for empty and full compare places, not counts).
LEMMA PlacesDiffer ==
  ASSUME NEW a \in Nat, NEW b \in Nat, NEW q \in Nat \ {0}, a < b, b - a < q
  PROVE  a % q # b % q
<1> SUFFICES ASSUME a % q = b % q PROVE FALSE
  OBVIOUS
<1> DEFINE x == a \div q
           y == b \div q
           r == a % q
<1>1. x \in Int /\ y \in Int /\ r \in Int /\ a = q * x + r /\ b = q * y + r
  BY Division
<1> HIDE DEF x, y, r
<1>2. b - a = q * (y - x)
  BY <1>1, SMT
<1>3. y - x > 0 \/ y - x <= 0
  BY <1>1, SMT
<1>4. QED
  BY <1>1, <1>2, <1>3, SMT

\* A count and the count a round later have the same place.
LEMMA RoundLater ==
  ASSUME NEW a \in Nat, NEW q \in Nat \ {0}
  PROVE  (a + q) % q = a % q
<1> DEFINE b == a + q
           x == a \div q
           y == b \div q
           r == a % q
           s == b % q
<1>1. b \in Nat
  BY SMT
<1>2. x \in Int /\ r \in 0 .. q - 1 /\ a = q * x + r
  BY Division
<1>3. y \in Int /\ s \in 0 .. q - 1 /\ b = q * y + s
  BY <1>1, Division
<1>4. b = a + q
  OBVIOUS
<1> SUFFICES s = r
  OBVIOUS
<1> HIDE DEF b, x, y, r, s
<1>5. q * (x + 1) = q * x + q
  BY <1>2, SMT
<1>6. q * (x + 1) + r = q * y + s
  BY <1>2, <1>3, <1>4, <1>5, SMT
<1>7. x + 1 \in Int
  BY <1>2, SMT
<1>8. QED
  BY <1>2, <1>3, <1>6, <1>7, RemainderUnique

\* Every count has a place.
LEMMA PlaceOf ==
  ASSUME NEW n \in Nat PROVE queue_count_to_index(n) \in Places
<1>1. QLen \in Nat \ {0}
  BY QueueAssumption
<1>2. QED
  BY <1>1, Division DEF queue_count_to_index, Places

-----------------------------------------------------------------------------
(* The inductive invariant.                                                *)

LEMMA CircInit == QueueInit => CircInv
<1> SUFFICES ASSUME QueueInit PROVE CircInv
  OBVIOUS
<1> USE QueueAssumption DEF QueueInit
<1>1. TypeOK
  BY DEF TypeOK, PushPcs, PopPcs, Places
<1>2. Bounded /\ Stored /\ Producer
  BY DEF Bounded, Stored, Producer
<1>3. \A c \in Consumers : Consumer(c)
  BY DEF Consumer
<1>4. QED BY <1>1, <1>2, <1>3 DEF CircInv

\* With room for one more, the places of the stored messages are not the one the
\* producer fills next.
LEMMA ElsewhereStored ==
  ASSUME CircInv, writeIndex - readIndex < QLen - 1,
         NEW n \in Nat, readIndex <= n, n < writeIndex
  PROVE  queue_count_to_index(n) # queue_count_to_index(writeIndex)
<1>1. QLen \in Nat \ {0} /\ writeIndex \in Nat /\ readIndex \in Nat
  BY QueueAssumption DEF CircInv, TypeOK
<1>2. writeIndex - n < QLen
  BY <1>1, SMT
<1>3. QED BY <1>1, <1>2, PlacesDiffer DEF queue_count_to_index

\* Filling a half of the producer's place keeps the invariant.
LEMMA StoreInv ==
  ASSUME CircInv, NEW f \in {1, 2}, NEW next \in PushPcs,
         \/ f = 1 /\ next = "val2" /\ push.pc = "val1"
         \/ f = 2 /\ next = "inc" /\ push.pc = "val2",
         Store(f, next)
  PROVE  CircInv'
<1> DEFINE i == queue_count_to_index(writeIndex)
<1>1. /\ push.w = writeIndex
      /\ writeIndex - readIndex < QLen - 1
      /\ writeIndex \in Nat /\ readIndex \in Nat
      /\ vals \in [Places -> Nat \X Nat]
      /\ push \in [pc : PushPcs, w : Nat]
  BY DEF CircInv, TypeOK, Producer
<1>2. i \in Places
  BY <1>1, PlaceOf
<1>3. vals' = [vals EXCEPT ![i] = [vals[i] EXCEPT ![f] = writeIndex + 1]]
  BY <1>1, <1>2 DEF Store
<1>4. UNCHANGED <<writeIndex, readIndex, pop, got>> /\ push' = [push EXCEPT !.pc = next]
  BY DEF Store
<1> HIDE DEF i
<1>5. [vals[i] EXCEPT ![f] = writeIndex + 1] \in Nat \X Nat
  <2>1. vals[i] \in Nat \X Nat
    BY <1>1, <1>2
  <2>2. f = 1 \/ f = 2
    OBVIOUS
  <2>3. QED BY <2>1, <2>2, <1>1
<1>6. TypeOK'
  BY <1>1, <1>2, <1>3, <1>4, <1>5 DEF CircInv, TypeOK, Places
<1>7. Bounded'
  BY <1>4 DEF CircInv, Bounded
<1>8. Stored'
  <2> SUFFICES ASSUME NEW n \in Nat, readIndex <= n, n < writeIndex
               PROVE  vals'[queue_count_to_index(n)] = <<n + 1, n + 1>>
    BY <1>4 DEF Stored, queue_count_to_index
  <2>1. queue_count_to_index(n) # i
    BY <1>1, ElsewhereStored DEF i
  <2>2. queue_count_to_index(n) \in Places
    BY PlaceOf
  <2>3. vals'[queue_count_to_index(n)] = vals[queue_count_to_index(n)]
    BY <1>1, <1>3, <2>1, <2>2
  <2>4. QED BY <2>3 DEF CircInv, Stored
<1>9. Producer'
  <2>1. vals'[i] = [vals[i] EXCEPT ![f] = writeIndex + 1]
    BY <1>1, <1>2, <1>3
  <2>2. vals[i] \in Nat \X Nat
    BY <1>1, <1>2
  <2>3. vals'[i][f] = writeIndex + 1
    BY <2>1, <2>2, <1>1
  <2>4. f = 2 => vals'[i][1] = writeIndex + 1
    <3> SUFFICES ASSUME f = 2 PROVE vals'[i][1] = writeIndex + 1
      OBVIOUS
    <3>1. vals[i][1] = writeIndex + 1
      BY DEF CircInv, Producer, i
    <3>2. QED BY <2>1, <2>2, <3>1
  <2>5. push'.w = writeIndex /\ push'.pc = next
    BY <1>1, <1>4
  <2>6. queue_count_to_index(writeIndex)' = i
    BY <1>4 DEF i, queue_count_to_index
  <2>7. QED BY <1>1, <1>4, <2>3, <2>4, <2>5, <2>6 DEF Producer
<1>10. ASSUME NEW c \in Consumers PROVE Consumer(c)'
  BY <1>4 DEF CircInv, Consumer
<1>11. QED BY <1>6, <1>7, <1>8, <1>9, <1>10 DEF CircInv

\* The producer's place test: if it passes, the queue has room for one more.
LEMMA NotFull ==
  ASSUME CircInv, push.pc = "check", ~Full(push.w, readIndex)
  PROVE  writeIndex - readIndex < QLen - 1
<1> SUFFICES ASSUME writeIndex - readIndex >= QLen - 1 PROVE FALSE
  BY QueueAssumption DEF CircInv, TypeOK
<1>1. QLen \in Nat \ {0} /\ writeIndex \in Nat /\ readIndex \in Nat /\ push.w = writeIndex
  BY QueueAssumption DEF CircInv, TypeOK, Producer
<1>2. writeIndex + 1 = readIndex + QLen
  BY <1>1 DEF CircInv, Bounded
<1>3. (readIndex + QLen) % QLen = readIndex % QLen
  BY <1>1, RoundLater
<1>4. QED BY <1>1, <1>2, <1>3 DEF Full, queue_count_to_index

\* If it fails, the queue is full.
LEMMA FullOnly ==
  ASSUME CircInv, push.pc = "check", Full(push.w, readIndex)
  PROVE  writeIndex - readIndex = QLen - 1
<1> SUFFICES ASSUME writeIndex - readIndex # QLen - 1 PROVE FALSE
  OBVIOUS
<1>1. QLen \in Nat \ {0} /\ writeIndex \in Nat /\ readIndex \in Nat /\ push.w = writeIndex
  BY QueueAssumption DEF CircInv, TypeOK, Producer
<1> DEFINE next == writeIndex + 1
<1>2. next \in Nat /\ readIndex < next /\ next - readIndex < QLen
  BY <1>1 DEF CircInv, Bounded
<1>3. readIndex % QLen # next % QLen
  <2> HIDE DEF next
  <2>1. QED BY <1>1, <1>2, PlacesDiffer
<1>4. QED BY <1>1, <1>3 DEF Full, queue_count_to_index

\* A consumer whose count is current and whose place test passes has a message.
LEMMA NotEmpty ==
  ASSUME CircInv, NEW r \in Nat, r = readIndex, ~Empty(r, writeIndex)
  PROVE  readIndex < writeIndex
<1>1. readIndex # writeIndex
  BY DEF Empty
<1>2. QED BY <1>1 DEF CircInv, TypeOK, Bounded

\* If it fails, there is none.
LEMMA EmptyOnly ==
  ASSUME CircInv, Empty(readIndex, writeIndex)
  PROVE  readIndex = writeIndex
<1> SUFFICES ASSUME readIndex # writeIndex PROVE FALSE
  OBVIOUS
<1>1. QLen \in Nat \ {0} /\ writeIndex \in Nat /\ readIndex \in Nat
  BY QueueAssumption DEF CircInv, TypeOK
<1>2. readIndex < writeIndex /\ writeIndex - readIndex < QLen
  BY <1>1 DEF CircInv, Bounded
<1>3. QED BY <1>1, <1>2, PlacesDiffer DEF Empty, queue_count_to_index

\* A consumer that moves no counter keeps the invariant if its own locals do.
LEMMA ConsumerStep ==
  ASSUME CircInv, NEW c \in Consumers, NEW p \in [pc : PopPcs, r : Nat, val1 : Nat, val2 : Nat],
         Step(c, p), UNCHANGED <<readIndex, got>>,
         p.pc \in {"check", "val1", "val2", "cas"} => p.r <= readIndex,
         p.pc \in {"val1", "val2", "cas"} /\ p.r = readIndex => readIndex < writeIndex,
         p.pc \in {"val2", "cas"} /\ p.r = readIndex => p.val1 = readIndex + 1,
         p.pc = "cas" /\ p.r = readIndex => p.val2 = readIndex + 1
  PROVE  CircInv'
<1>1. /\ pop' = [pop EXCEPT ![c] = p]
      /\ UNCHANGED <<writeIndex, vals, push, readIndex, got>>
  BY DEF Step
<1>2. TypeOK'
  BY <1>1 DEF CircInv, TypeOK
<1>3. Bounded' /\ Stored' /\ Producer'
  BY <1>1 DEF CircInv, Bounded, Stored, Producer, queue_count_to_index
<1>4. ASSUME NEW d \in Consumers PROVE Consumer(d)'
  <2>1. CASE d = c
    <3>1. pop'[d] = p
      BY <1>1, <2>1 DEF CircInv, TypeOK
    <3>2. QED BY <1>1, <3>1 DEF Consumer
  <2>2. CASE d # c
    <3>1. pop'[d] = pop[d]
      BY <1>1, <2>2 DEF CircInv, TypeOK
    <3>2. QED BY <1>1, <3>1 DEF CircInv, Consumer
  <2>3. QED BY <2>1, <2>2
<1>5. QED BY <1>2, <1>3, <1>4 DEF CircInv

\* What a consumer whose count is current finds in its place.
LEMMA PlaceHolds ==
  ASSUME CircInv, NEW c \in Consumers, pop[c].r = readIndex, readIndex < writeIndex
  PROVE  Place(c) = <<readIndex + 1, readIndex + 1>>
  BY DEF CircInv, TypeOK, Stored, Place

\* The message the producer has stored becomes visible.
LEMMA PushIncInv ==
  ASSUME CircInv, PushInc PROVE CircInv'
<1> DEFINE i == queue_count_to_index(writeIndex)
<1>1. /\ writeIndex \in Nat /\ readIndex \in Nat
      /\ vals \in [Places -> Nat \X Nat] /\ i \in Places
  BY PlaceOf DEF CircInv, TypeOK
<1>2. vals[i][1] = writeIndex + 1 /\ vals[i][2] = writeIndex + 1
  BY DEF CircInv, Producer, PushInc
<1>3. vals[i] = <<writeIndex + 1, writeIndex + 1>>
  <2>1. vals[i] \in Nat \X Nat
    BY <1>1
  <2> HIDE DEF i
  <2>2. QED BY <1>2, <2>1
<1>4. TypeOK'
  BY QueueAssumption DEF CircInv, TypeOK, PushInc, PushPcs
<1>5. Bounded'
  BY QueueAssumption DEF CircInv, TypeOK, Bounded, Producer, PushInc
<1>6. Stored'
  <2> SUFFICES ASSUME NEW n \in Nat, readIndex <= n, n < writeIndex + 1
               PROVE  vals[queue_count_to_index(n)] = <<n + 1, n + 1>>
    BY DEF Stored, PushInc, queue_count_to_index
  <2>1. CASE n = writeIndex
    BY <1>3, <2>1
  <2>2. CASE n # writeIndex
    <3>1. n < writeIndex
      BY <1>1, <2>2
    <3>2. QED BY <3>1 DEF CircInv, Stored
  <2>3. QED BY <2>1, <2>2
<1>7. Producer'
  BY DEF CircInv, TypeOK, Producer, PushInc
<1>8. ASSUME NEW c \in Consumers PROVE Consumer(c)'
  <2>1. Consumer(c)
    BY DEF CircInv
  <2>2. pop' = pop /\ readIndex' = readIndex /\ writeIndex' = writeIndex + 1
    BY DEF PushInc
  <2>3. readIndex < writeIndex => readIndex < writeIndex + 1
    BY <1>1
  <2>4. QED BY <2>1, <2>2, <2>3 DEF Consumer
<1>9. QED BY <1>4, <1>5, <1>6, <1>7, <1>8 DEF CircInv

\* The thread whose count is current takes its message.
LEMMA PopCasInv ==
  ASSUME CircInv, NEW c \in Consumers, PopCas(c) PROVE CircInv'
<1>1. /\ writeIndex \in Nat /\ readIndex \in Nat
      /\ pop \in [Consumers -> [pc : PopPcs, r : Nat, val1 : Nat, val2 : Nat]]
      /\ Consumer(c) /\ pop[c].pc = "cas"
  BY DEF CircInv, TypeOK, PopCas
<1>2. CASE readIndex # pop[c].r
  <2> DEFINE p == [pop[c] EXCEPT !.pc = "retry"]
  <2>1. Step(c, p) /\ UNCHANGED <<readIndex, got>>
    BY <1>2 DEF PopCas
  <2>2. p \in [pc : PopPcs, r : Nat, val1 : Nat, val2 : Nat] /\ p.pc = "retry"
    BY <1>1 DEF PopPcs
  <2> HIDE DEF p
  <2>3. QED BY <2>1, <2>2, ConsumerStep
<1>3. CASE readIndex = pop[c].r
  <2>1. /\ readIndex' = readIndex + 1
        /\ got' = [got EXCEPT ![c] = <<pop[c].val1, pop[c].val2>>]
        /\ pop' = [pop EXCEPT ![c] = [pop[c] EXCEPT !.pc = "idle"]]
        /\ UNCHANGED <<writeIndex, vals, push>>
    BY <1>3 DEF PopCas, Step
  <2>2. readIndex < writeIndex
    BY <1>1, <1>3 DEF Consumer
  <2>3. TypeOK'
    BY <1>1, <2>1 DEF CircInv, TypeOK, PopPcs
  <2>4. Bounded'
    BY <1>1, <2>1, <2>2, QueueAssumption DEF CircInv, Bounded
  <2>5. Stored'
    <3> SUFFICES ASSUME NEW n \in Nat, readIndex + 1 <= n, n < writeIndex
                 PROVE  vals[queue_count_to_index(n)] = <<n + 1, n + 1>>
      BY <2>1 DEF Stored, queue_count_to_index
    <3>1. readIndex <= n
      BY <1>1
    <3>2. QED BY <3>1 DEF CircInv, Stored
  <2>6. Producer'
    <3>1. writeIndex - readIndex < QLen - 1 => writeIndex - (readIndex + 1) < QLen - 1
      BY <1>1, QueueAssumption
    <3>2. QED BY <2>1, <3>1 DEF CircInv, Producer, queue_count_to_index
  <2>7. ASSUME NEW d \in Consumers PROVE Consumer(d)'
    <3>1. CASE d = c
      <4>1. pop'[d].pc = "idle"
        BY <1>1, <2>1, <3>1
      <4>2. QED BY <4>1 DEF Consumer
    <3>2. CASE d # c
      <4>1. pop'[d] = pop[d] /\ pop[d].r \in Nat
        BY <1>1, <2>1, <3>2
      <4>2. pop[d].r <= readIndex => pop[d].r <= readIndex + 1 /\ pop[d].r # readIndex + 1
        BY <1>1, <4>1
      <4>3. pop[d].pc \in {"check", "val1", "val2", "cas"} => pop[d].r <= readIndex
        BY DEF CircInv, Consumer
      <4>4. QED BY <2>1, <4>1, <4>2, <4>3 DEF Consumer
    <3>3. QED BY <3>1, <3>2
  <2>8. QED BY <2>3, <2>4, <2>5, <2>6, <2>7 DEF CircInv
<1>4. QED BY <1>2, <1>3

\* Every step keeps the invariant.
LEMMA CircStep == CircInv /\ [QueueNext]_queueVars => CircInv'
<1> SUFFICES ASSUME CircInv, [QueueNext]_queueVars PROVE CircInv'
  OBVIOUS
<1>1. CASE PushBegin
  <2>1. TypeOK'
    BY <1>1 DEF CircInv, TypeOK, PushBegin, PushPcs
  <2>2. Bounded' /\ Stored' /\ Producer'
    BY <1>1 DEF CircInv, Bounded, Stored, Producer, PushBegin, queue_count_to_index
  <2>3. ASSUME NEW c \in Consumers PROVE Consumer(c)'
    BY <1>1 DEF CircInv, Consumer, PushBegin
  <2>4. QED BY <2>1, <2>2, <2>3 DEF CircInv
<1>2. CASE PushCheck
  <2>1. TypeOK'
    BY <1>2 DEF CircInv, TypeOK, PushCheck, PushPcs
  <2>2. Bounded' /\ Stored'
    BY <1>2 DEF CircInv, Bounded, Stored, PushCheck, queue_count_to_index
  <2>3. Producer'
    <3>1. CASE Full(push.w, readIndex)
      <4>1. push'.pc = "idle"
        BY <1>2, <3>1 DEF CircInv, TypeOK, PushCheck
      <4>2. QED BY <4>1 DEF Producer
    <3>2. CASE ~Full(push.w, readIndex)
      <4>1. /\ push'.pc = "val1" /\ push'.w = push.w
            /\ UNCHANGED <<writeIndex, readIndex>>
        BY <1>2, <3>2 DEF CircInv, TypeOK, PushCheck
      <4>2. push.w = writeIndex /\ writeIndex - readIndex < QLen - 1
        BY <1>2, <3>2, NotFull DEF CircInv, Producer, PushCheck
      <4>3. QED BY <4>1, <4>2 DEF Producer
    <3>3. QED BY <3>1, <3>2
  <2>4. ASSUME NEW c \in Consumers PROVE Consumer(c)'
    BY <1>2 DEF CircInv, Consumer, PushCheck
  <2>5. QED BY <2>1, <2>2, <2>3, <2>4 DEF CircInv
<1>3. CASE PushVal1
  BY <1>3, StoreInv DEF PushVal1, PushPcs
<1>4. CASE PushVal2
  BY <1>4, StoreInv DEF PushVal2, PushPcs
<1>5. CASE PushInc
  BY <1>5, PushIncInv
<1>6. ASSUME NEW c \in Consumers, PopBegin(c) PROVE CircInv'
  <2> DEFINE p == [pop[c] EXCEPT !.pc = "check", !.r = readIndex]
  <2>1. Step(c, p) /\ UNCHANGED <<readIndex, got>>
    BY <1>6 DEF PopBegin
  <2>2. p \in [pc : PopPcs, r : Nat, val1 : Nat, val2 : Nat] /\ p.pc = "check" /\ p.r = readIndex
    BY DEF CircInv, TypeOK, PopPcs
  <2>3. p.r <= readIndex
    BY <2>2 DEF CircInv, TypeOK
  <2> HIDE DEF p
  <2>4. QED BY <2>1, <2>2, <2>3, ConsumerStep
<1>7. ASSUME NEW c \in Consumers, PopCheck(c) PROVE CircInv'
  <2> DEFINE next == IF Empty(pop[c].r, writeIndex) THEN "idle" ELSE "val1"
             p == [pop[c] EXCEPT !.pc = next]
  <2>1. Step(c, p) /\ UNCHANGED <<readIndex, got>> /\ pop[c].pc = "check"
    BY <1>7 DEF PopCheck
  <2>2. /\ p \in [pc : PopPcs, r : Nat, val1 : Nat, val2 : Nat]
        /\ p.pc = next /\ next \in {"idle", "val1"} /\ p.r = pop[c].r /\ pop[c].r \in Nat
    BY DEF CircInv, TypeOK, PopPcs
  <2>3. pop[c].r <= readIndex
    BY <2>1 DEF CircInv, Consumer
  <2>4. next = "val1" /\ pop[c].r = readIndex => readIndex < writeIndex
    BY <2>2, NotEmpty
  <2> HIDE DEF p, next
  <2>5. QED BY <2>1, <2>2, <2>3, <2>4, ConsumerStep
<1>8. ASSUME NEW c \in Consumers, PopVal1(c) PROVE CircInv'
  <2> DEFINE p == [pop[c] EXCEPT !.pc = "val2", !.val1 = Place(c)[1]]
  <2>1. Step(c, p) /\ UNCHANGED <<readIndex, got>> /\ pop[c].pc = "val1"
    BY <1>8 DEF PopVal1
  <2>2. Place(c) \in Nat \X Nat
    BY PlaceOf DEF CircInv, TypeOK, Place
  <2>3. /\ p \in [pc : PopPcs, r : Nat, val1 : Nat, val2 : Nat]
        /\ p.pc = "val2" /\ p.r = pop[c].r /\ p.val1 = Place(c)[1]
    BY <2>2 DEF CircInv, TypeOK, PopPcs
  <2>4. pop[c].r <= readIndex /\ (pop[c].r = readIndex => readIndex < writeIndex)
    BY <2>1 DEF CircInv, Consumer
  <2>5. pop[c].r = readIndex => Place(c)[1] = readIndex + 1
    BY <2>4, PlaceHolds
  <2> HIDE DEF p
  <2>6. QED BY <2>1, <2>3, <2>4, <2>5, ConsumerStep
<1>9. ASSUME NEW c \in Consumers, PopVal2(c) PROVE CircInv'
  <2> DEFINE p == [pop[c] EXCEPT !.pc = "cas", !.val2 = Place(c)[2]]
  <2>1. Step(c, p) /\ UNCHANGED <<readIndex, got>> /\ pop[c].pc = "val2"
    BY <1>9 DEF PopVal2
  <2>2. Place(c) \in Nat \X Nat
    BY PlaceOf DEF CircInv, TypeOK, Place
  <2>3. /\ p \in [pc : PopPcs, r : Nat, val1 : Nat, val2 : Nat]
        /\ p.pc = "cas" /\ p.r = pop[c].r /\ p.val1 = pop[c].val1 /\ p.val2 = Place(c)[2]
    BY <2>2 DEF CircInv, TypeOK, PopPcs
  <2>4. /\ pop[c].r <= readIndex
        /\ pop[c].r = readIndex => readIndex < writeIndex /\ pop[c].val1 = readIndex + 1
    BY <2>1 DEF CircInv, Consumer
  <2>5. pop[c].r = readIndex => Place(c)[2] = readIndex + 1
    BY <2>4, PlaceHolds
  <2> HIDE DEF p
  <2>6. QED BY <2>1, <2>3, <2>4, <2>5, ConsumerStep
<1>10. ASSUME NEW c \in Consumers, PopCas(c) PROVE CircInv'
  BY <1>10, PopCasInv
<1>11. CASE UNCHANGED queueVars
  BY <1>11 DEF queueVars, CircInv, TypeOK, Bounded, Stored, Producer, Consumer, queue_count_to_index
<1>12. QED
  BY <1>1, <1>2, <1>3, <1>4, <1>5, <1>6, <1>7, <1>8, <1>9, <1>10, <1>11 DEF QueueNext, Push, Pop

\* circ_queue.c keeps its types; the places between the two counters hold the
\* messages in order, never more than QLen - 1; and what a thread has read is
\* right as long as readIndex has not moved.
THEOREM CircInvariant == QueueSpec => []CircInv
<1>1. QED BY CircInit, CircStep, PTL DEF QueueSpec

-----------------------------------------------------------------------------
(* Refusals, and the abstract queue.                                       *)

\* A push is refused only by a full queue, and a pop only by an empty one or
\* after other threads have popped.
THEOREM RefusalsAreHonest == QueueSpec => RefusalsHonest
<1> DEFINE A == /\ push.pc = "check" /\ push'.pc = "idle" => writeIndex - readIndex = QLen - 1
                /\ \A c \in Consumers : pop[c].pc = "check" /\ pop'[c].pc = "idle" =>
                     readIndex = writeIndex \/ readIndex > pop[c].r
<1>1. CircInv /\ [QueueNext]_queueVars => [A]_queueVars
  <2> SUFFICES ASSUME CircInv, QueueNext PROVE A
    OBVIOUS
  <2>1. ASSUME push.pc = "check", push'.pc = "idle"
        PROVE  writeIndex - readIndex = QLen - 1
    <3>1. PushCheck
      BY <2>1 DEF QueueNext, Push, Pop, PushBegin, PushVal1, PushVal2, PushInc, PopBegin,
                  PopCheck, PopVal1, PopVal2, PopCas, Step
    <3>2. Full(push.w, readIndex)
      BY <2>1, <3>1 DEF PushCheck, CircInv, TypeOK
    <3>3. QED BY <2>1, <3>2, FullOnly
  <2>2. ASSUME NEW c \in Consumers, pop[c].pc = "check", pop'[c].pc = "idle"
        PROVE  readIndex = writeIndex \/ readIndex > pop[c].r
    <3>1. pop \in [Consumers -> [pc : PopPcs, r : Nat, val1 : Nat, val2 : Nat]]
      BY DEF CircInv, TypeOK
    <3>2. PICK d \in Consumers : Pop(d)
      BY <2>2 DEF QueueNext, Push, PushBegin, PushCheck, PushVal1, PushVal2, PushInc, Store
    <3>3. c = d
      BY <2>2, <3>1, <3>2 DEF Pop, PopBegin, PopCheck, PopVal1, PopVal2, PopCas, Step
    <3>4. PopCheck(c)
      BY <2>2, <3>2, <3>3 DEF Pop, PopBegin, PopVal1, PopVal2, PopCas
    <3>5. Empty(pop[c].r, writeIndex)
      BY <2>2, <3>1, <3>4 DEF PopCheck, Step
    <3>6. pop[c].r <= readIndex /\ pop[c].r \in Nat /\ readIndex \in Nat
      BY <2>2 DEF CircInv, Consumer, TypeOK
    <3>7. CASE pop[c].r = readIndex
      BY <3>5, <3>7, EmptyOnly
    <3>8. CASE pop[c].r # readIndex
      BY <3>6, <3>8
    <3>9. QED BY <3>7, <3>8
  <2>3. QED BY <2>1, <2>2
<1>2. QED BY <1>1, CircInvariant, PTL DEF QueueSpec, RefusalsHonest

\* The messages r + 1 to w, oldest first.
Messages(r, w) == [k \in 1 .. w - r |-> <<r + k, r + k>>]

LEMMA MessagesSeq ==
  ASSUME NEW r \in Nat, NEW w \in Nat, r <= w
  PROVE  /\ Messages(r, w) \in Seq(Nat \X Nat)
         /\ Len(Messages(r, w)) = w - r
<1>1. w - r \in Nat
  OBVIOUS
<1>2. \A k \in 1 .. w - r : <<r + k, r + k>> \in Nat \X Nat
  OBVIOUS
<1>3. QED BY <1>1, <1>2 DEF Messages

\* One more message joins the back.
LEMMA MessagesAppend ==
  ASSUME NEW r \in Nat, NEW w \in Nat, r <= w
  PROVE  Messages(r, w + 1) = Append(Messages(r, w), <<w + 1, w + 1>>)
<1> DEFINE s == Messages(r, w)
           t == Messages(r, w + 1)
           u == Append(s, <<w + 1, w + 1>>)
<1>1. s \in Seq(Nat \X Nat) /\ Len(s) = w - r
  BY MessagesSeq
<1>2. t \in Seq(Nat \X Nat) /\ Len(t) = w + 1 - r
  BY MessagesSeq
<1>3. <<w + 1, w + 1>> \in Nat \X Nat
  OBVIOUS
<1>4. u \in Seq(Nat \X Nat) /\ Len(u) = w + 1 - r
  BY <1>1, <1>3
<1>5. ASSUME NEW k \in 1 .. w + 1 - r PROVE t[k] = u[k]
  <2>1. t[k] = <<r + k, r + k>>
    BY <1>5 DEF Messages
  <2>2. CASE k = w + 1 - r
    <3>1. u[k] = <<w + 1, w + 1>>
      BY <1>1, <1>3, <2>2
    <3>2. r + k = w + 1
      BY <2>2
    <3>3. QED BY <2>1, <3>1, <3>2
  <2>3. CASE k # w + 1 - r
    <3>1. k \in 1 .. w - r
      BY <1>5, <2>3
    <3>2. u[k] = s[k]
      BY <1>1, <1>3, <3>1
    <3>3. s[k] = <<r + k, r + k>>
      BY <3>1 DEF Messages
    <3>4. QED BY <2>1, <3>2, <3>3
  <2>4. QED BY <2>2, <2>3
<1> HIDE DEF s, t, u
<1>6. t = u
  BY <1>2, <1>4, <1>5, SeqEqual
<1>7. QED BY <1>6 DEF s, t, u

\* The oldest message leaves the front.
LEMMA MessagesTail ==
  ASSUME NEW r \in Nat, NEW w \in Nat, r < w
  PROVE  /\ Messages(r, w) # << >>
         /\ Head(Messages(r, w)) = <<r + 1, r + 1>>
         /\ Tail(Messages(r, w)) = Messages(r + 1, w)
<1> DEFINE s == Messages(r, w)
           t == Messages(r + 1, w)
           u == Tail(s)
<1>1. s \in Seq(Nat \X Nat) /\ Len(s) = w - r
  BY MessagesSeq
<1>2. t \in Seq(Nat \X Nat) /\ Len(t) = w - (r + 1)
  BY MessagesSeq
<1>3. s # << >> /\ Head(s) = s[1]
  BY <1>1
<1>4. s[1] = <<r + 1, r + 1>>
  BY DEF Messages
<1>5. u \in Seq(Nat \X Nat) /\ Len(u) = w - (r + 1)
  BY <1>1, <1>3
<1>6. ASSUME NEW k \in 1 .. w - (r + 1) PROVE t[k] = u[k]
  <2>1. t[k] = <<r + 1 + k, r + 1 + k>>
    BY <1>6 DEF Messages
  <2>2. u[k] = s[k + 1]
    BY <1>1, <1>3, <1>6
  <2>3. k + 1 \in 1 .. w - r /\ r + (k + 1) = r + 1 + k
    BY <1>6
  <2>4. s[k + 1] = <<r + (k + 1), r + (k + 1)>>
    BY <2>3 DEF Messages
  <2>5. QED BY <2>1, <2>2, <2>3, <2>4
<1> HIDE DEF s, t, u
<1>7. t = u
  BY <1>2, <1>5, <1>6, SeqEqual
<1>8. QED BY <1>3, <1>4, <1>7 DEF s, t, u

\* Between the counters lie the messages pushed and not yet popped.
LEMMA ContentMessages ==
  CircInv => QueueContent = Messages(readIndex, writeIndex)
<1> SUFFICES ASSUME CircInv, NEW k \in 1 .. writeIndex - readIndex
             PROVE  vals[queue_count_to_index(readIndex + k - 1)] = <<readIndex + k, readIndex + k>>
  BY DEF QueueContent, Messages
<1> DEFINE n == readIndex + k - 1
<1>1. n \in Nat /\ readIndex <= n /\ n < writeIndex /\ n + 1 = readIndex + k
  BY DEF CircInv, TypeOK
<1> HIDE DEF n
<1>2. vals[queue_count_to_index(n)] = <<n + 1, n + 1>>
  BY <1>1 DEF CircInv, Stored
<1>3. QED BY <1>1, <1>2 DEF n

\* A lock-free push or pop takes effect in one step: circ_queue.c implements the
\* bounded queue, so no message is lost, torn, popped twice or out of order.
THEOREM CircImplementsQueue == QueueSpec => ImplementsQueue
<1>1. QueueInit => Queue!Init
  <2> SUFFICES ASSUME QueueInit PROVE Queue!Init
    OBVIOUS
  <2>1. QueueContent = Messages(0, 0)
    BY CircInit, ContentMessages DEF QueueInit
  <2>2. Messages(0, 0) = << >>
    BY MessagesSeq
  <2>3. QED BY <2>1, <2>2 DEF QueueInit, Queue!Init
<1> DEFINE J == QueueContent = Messages(readIndex, writeIndex)
<1>2. CircInv /\ J /\ J' /\ [QueueNext]_queueVars => [Queue!Next]_<<QueueContent, writeIndex, got>>
  <2> SUFFICES ASSUME CircInv, [QueueNext]_queueVars,
                      QueueContent = Messages(readIndex, writeIndex),
                      QueueContent' = Messages(readIndex', writeIndex')
               PROVE  [Queue!Next]_<<QueueContent, writeIndex, got>>
    OBVIOUS
  <2>1. /\ readIndex \in Nat /\ writeIndex \in Nat /\ readIndex <= writeIndex
        /\ QLen \in Nat
        /\ Len(QueueContent) = writeIndex - readIndex
    BY MessagesSeq, QueueAssumption DEF CircInv, TypeOK, Bounded
  <2>2. CASE PushInc
    <3>1. QueueContent' = Append(QueueContent, <<writeIndex + 1, writeIndex + 1>>)
      BY <2>1, <2>2, MessagesAppend DEF PushInc
    <3>2. Len(QueueContent) < QLen - 1
      BY <2>1, <2>2 DEF CircInv, Producer, PushInc
    <3>3. Queue!Push
      BY <2>2, <3>1, <3>2 DEF Queue!Push, PushInc
    <3>4. QED BY <3>3 DEF Queue!Next
  <2>3. ASSUME NEW c \in Consumers, PopCas(c), readIndex = pop[c].r
        PROVE  Queue!Next
    <3>1. readIndex < writeIndex /\ pop[c].val1 = readIndex + 1 /\ pop[c].val2 = readIndex + 1
      BY <2>3 DEF CircInv, Consumer, PopCas
    <3>2. /\ readIndex' = readIndex + 1 /\ writeIndex' = writeIndex
          /\ got' = [got EXCEPT ![c] = <<readIndex + 1, readIndex + 1>>]
      BY <2>3, <3>1 DEF PopCas, Step
    <3>3. /\ QueueContent # << >> /\ Head(QueueContent) = <<readIndex + 1, readIndex + 1>>
          /\ QueueContent' = Tail(QueueContent)
      BY <2>1, <3>1, <3>2, MessagesTail
    <3>4. Queue!Pop(c)
      BY <3>2, <3>3 DEF Queue!Pop
    <3>5. QED BY <2>3, <3>4 DEF Queue!Next
  <2>4. CASE UNCHANGED <<readIndex, writeIndex, got>>
    BY <2>4
  <2>5. UNCHANGED <<readIndex, writeIndex, got>> \/ PushInc
          \/ \E c \in Consumers : PopCas(c) /\ readIndex = pop[c].r
    BY DEF QueueNext, Push, Pop, queueVars, PushBegin, PushCheck, PushVal1, PushVal2, Store,
           PopBegin, PopCheck, PopVal1, PopVal2, PopCas, Step
  <2>6. QED BY <2>2, <2>3, <2>4, <2>5
<1>3. CircInv => J
  BY ContentMessages
<1> HIDE DEF J
<1>4. QED
  BY <1>1, <1>2, <1>3, CircInvariant, PTL
  DEF QueueSpec, ImplementsQueue, Queue!Spec
-----------------------------------------------------------------------------
(* Bits of shifted words and of fields.                                    *)

LEMMA ShlBit ==
  ASSUME NEW w \in SUBSET Int, NEW k \in Int
  PROVE  /\ Shl(w, k) \in SUBSET Int
         /\ \A b \in Int : b \in Shl(w, k) <=> b - k \in w
<1>1. Shl(w, k) \in SUBSET Int
  BY DEF Shl
<1>2. ASSUME NEW b \in Int, b \in Shl(w, k) PROVE b - k \in w
  <2>1. PICK j \in w : b = j + k
    BY <1>2 DEF Shl
  <2>2. b - k = j
    BY <2>1
  <2>3. QED BY <2>2
<1>3. ASSUME NEW b \in Int, b - k \in w PROVE b \in Shl(w, k)
  <2>1. b = (b - k) + k
    OBVIOUS
  <2>2. QED BY <1>3, <2>1 DEF Shl
<1>4. QED BY <1>1, <1>2, <1>3

LEMMA FieldBit ==
  ASSUME NEW w \in SUBSET Int, NEW low \in Int, NEW n \in Int
  PROVE  /\ Field(w, low, n) \in SUBSET Int
         /\ \A b \in Int : b \in Field(w, low, n) <=> b + low \in w /\ 0 <= b /\ b < n
<1>1. Field(w, low, n) \in SUBSET Int
  BY DEF Field
<1>2. ASSUME NEW b \in Int, b \in Field(w, low, n)
      PROVE  b + low \in w /\ 0 <= b /\ b < n
  <2>1. PICK j \in w \cap (low .. low + n - 1) : b = j - low
    BY <1>2 DEF Field
  <2>2. b + low = j
    BY <2>1
  <2>3. QED BY <2>1, <2>2
<1>3. ASSUME NEW b \in Int, b + low \in w, 0 <= b, b < n
      PROVE  b \in Field(w, low, n)
  <2>1. b = (b + low) - low /\ b + low \in low .. low + n - 1
    BY <1>3
  <2>2. QED BY <1>3, <2>1 DEF Field
<1>4. QED BY <1>1, <1>2, <1>3

LEMMA SameBits ==
  ASSUME NEW v \in SUBSET Int, NEW w \in SUBSET Int, \A b \in Int : b \in v <=> b \in w
  PROVE  v = w
  OBVIOUS

-----------------------------------------------------------------------------
(* The bits of each word.                                                  *)

LEMMA SignalBits ==
  ASSUME NEW cmd \in SUBSET Int
  PROVE  /\ Signals(cmd) \in SUBSET Int
         /\ \A b \in Int : b \in Signals(cmd) <=> b = 12 \/ b \in cmd
<1>1. Shl(DDR, 9) \in SUBSET Int /\ \A b \in Int : b \in Shl(DDR, 9) <=> b - 9 \in DDR
  BY ShlBit DEF DDR
<1>2. Signals(cmd) = Shl(DDR, 9) \cup cmd
  BY DEF Signals, CMD_OFFSET, BANK_OFFSET, ROW_OFFSET
<1>3. \A b \in Int : b - 9 \in DDR <=> b = 12
  BY DEF DDR
<1>4. QED BY <1>1, <1>2, <1>3

LEMMA ActBits ==
  ASSUME NEW bank \in Bits(3), NEW row \in Bits(15)
  PROVE  /\ genACT(bank, row) \in SUBSET Int
         /\ \A b \in Int : b \in genACT(bank, row) <=>
              b \in {19, 20, 24, 31} \/ b - 16 \in bank \/ b \in row
<1> DEFINE s == Signals({0, 1, 5})
           t == Shl(s, 3)
           u == Shl(t \cup bank, 16)
<1>1. bank \in SUBSET Int /\ row \in SUBSET Int
  BY DEF Bits
<1>2. s \in SUBSET Int /\ \A b \in Int : b \in s <=> b = 12 \/ b \in {0, 1, 5}
  BY SignalBits
<1>3. genACT(bank, row) = u \cup row
  BY DEF genACT, BANK_OFFSET, ROW_OFFSET
<1> HIDE DEF s
<1>4. t \in SUBSET Int /\ \A b \in Int : b \in t <=> b - 3 \in s
  BY <1>2, ShlBit
<1> HIDE DEF t
<1>5. u \in SUBSET Int /\ \A b \in Int : b \in u <=> b - 16 \in t \cup bank
  BY <1>1, <1>4, ShlBit
<1> HIDE DEF u
<1>6. ASSUME NEW b \in Int
      PROVE  b \in u <=> b \in {19, 20, 24, 31} \/ b - 16 \in bank
  <2>1. b - 16 \in Int /\ (b - 16) - 3 \in Int /\ (b - 16) - 3 = b - 19
    OBVIOUS
  <2>2. b - 16 \in t <=> b - 19 = 12 \/ b - 19 \in {0, 1, 5}
    BY <1>2, <1>4, <2>1
  <2>3. QED BY <1>5, <2>2
<1>7. QED BY <1>1, <1>3, <1>5, <1>6

LEMMA PreBits ==
  ASSUME NEW bank \in Bits(3), NEW all \in BOOLEAN
  PROVE  /\ genPRE(bank, all) \in SUBSET Int
         /\ \A b \in Int : b \in genPRE(bank, all) <=>
              \/ b \in {20, 24, 31}
              \/ all /\ b = 10
              \/ ~all /\ b - 16 \in bank
<1> DEFINE s == Signals({1, 5})
           t == Shl(s, 9)
           u == Shl(t \cup {0}, 10)
           v == Shl(s, 3)
           x == Shl(v \cup bank, 16)
<1>1. bank \in SUBSET Int
  BY DEF Bits
<1>2. s \in SUBSET Int /\ \A b \in Int : b \in s <=> b = 12 \/ b \in {1, 5}
  BY SignalBits
<1>3. genPRE(bank, all) = IF all THEN u ELSE x
  BY DEF genPRE, BANK_OFFSET, ROW_OFFSET, COL_OFFSET
<1> HIDE DEF s
<1>4. /\ t \in SUBSET Int /\ \A b \in Int : b \in t <=> b - 9 \in s
      /\ v \in SUBSET Int /\ \A b \in Int : b \in v <=> b - 3 \in s
  BY <1>2, ShlBit
<1> HIDE DEF t, v
<1>5. /\ u \in SUBSET Int /\ \A b \in Int : b \in u <=> b - 10 \in t \cup {0}
      /\ x \in SUBSET Int /\ \A b \in Int : b \in x <=> b - 16 \in v \cup bank
  BY <1>1, <1>4, ShlBit
<1> HIDE DEF u, x
<1>6. ASSUME NEW b \in Int
      PROVE  /\ b \in u <=> b \in {20, 24, 31} \/ b = 10
             /\ b \in x <=> b \in {20, 24, 31} \/ b - 16 \in bank
  <2>1. /\ b - 16 \in Int /\ (b - 16) - 3 \in Int /\ (b - 16) - 3 = b - 19
        /\ b - 10 \in Int /\ (b - 10) - 9 \in Int /\ (b - 10) - 9 = b - 19
    OBVIOUS
  <2>2. b - 16 \in v <=> b - 19 = 12 \/ b - 19 \in {1, 5}
    BY <1>2, <1>4, <2>1
  <2>3. b - 10 \in t <=> b - 19 = 12 \/ b - 19 \in {1, 5}
    BY <1>2, <1>4, <2>1
  <2>4. QED BY <1>5, <2>2, <2>3
<1>7. QED BY <1>3, <1>5, <1>6

LEMMA FlagBit ==
  ASSUME NEW set \in BOOLEAN
  PROVE  Flag(set) \in SUBSET Int /\ \A b \in Int : b \in Flag(set) <=> set /\ b = 0
  BY DEF Flag

\* The byte of a write is cut in two: its six upper bits lie over the command.
LEMMA WrBits ==
  ASSUME NEW bank \in Bits(3), NEW col \in Bits(10), NEW pattern \in Bits(8),
         NEW ap \in BOOLEAN, NEW bl \in BOOLEAN
  PROVE  /\ genWR(bank, col, pattern, ap, bl) \in SUBSET Int
         /\ \A b \in Int : b \in genWR(bank, col, pattern, ap, bl) <=>
              \/ b \in {21, 24, 31}
              \/ b - 23 \in pattern /\ 25 <= b /\ b < 31
              \/ b - 14 \in pattern /\ 14 <= b /\ b < 16
              \/ b - 16 \in bank
              \/ bl /\ b = 12
              \/ ap /\ b = 10
              \/ b \in col
<1> DEFINE type == Shl(DDR, 3)
           high == Shl(type \cup Field(pattern, 2, 6), 6)
           cmd  == Shl(high \cup {2, 5}, 3)
           mid  == Shl(cmd \cup bank, 2)
           low  == Shl(mid \cup Field(pattern, 0, 2), 2)
           len  == Shl(low \cup Flag(bl), 2)
           all  == Shl(len \cup Flag(ap), 10)
<1>1. bank \in SUBSET Int /\ col \in SUBSET Int /\ pattern \in SUBSET Int
  BY DEF Bits
<1>2. genWR(bank, col, pattern, ap, bl) = all \cup col
  BY DEF genWR, BANK_OFFSET, ROW_OFFSET, CMD_OFFSET, COL_OFFSET, SIGNAL_OFFSET
<1>3. /\ Flag(bl) \in SUBSET Int /\ \A b \in Int : b \in Flag(bl) <=> bl /\ b = 0
      /\ Flag(ap) \in SUBSET Int /\ \A b \in Int : b \in Flag(ap) <=> ap /\ b = 0
  BY FlagBit
<1>4. /\ Field(pattern, 2, 6) \in SUBSET Int
      /\ \A b \in Int : b \in Field(pattern, 2, 6) <=> b + 2 \in pattern /\ 0 <= b /\ b < 6
      /\ Field(pattern, 0, 2) \in SUBSET Int
      /\ \A b \in Int : b \in Field(pattern, 0, 2) <=> b + 0 \in pattern /\ 0 <= b /\ b < 2
  BY <1>1, FieldBit
<1>5. type \in SUBSET Int /\ \A b \in Int : b \in type <=> b = 6
  <2>1. type \in SUBSET Int /\ \A b \in Int : b \in type <=> b - 3 \in DDR
    BY ShlBit DEF DDR
  <2>2. QED BY <2>1 DEF DDR
<1> HIDE DEF type
<1>6. high \in SUBSET Int /\ \A b \in Int : b \in high <=> b - 6 \in type \cup Field(pattern, 2, 6)
  BY <1>4, <1>5, ShlBit
<1> HIDE DEF high
<1>7. cmd \in SUBSET Int /\ \A b \in Int : b \in cmd <=> b - 3 \in high \cup {2, 5}
  BY <1>6, ShlBit
<1> HIDE DEF cmd
<1>8. mid \in SUBSET Int /\ \A b \in Int : b \in mid <=> b - 2 \in cmd \cup bank
  BY <1>1, <1>7, ShlBit
<1> HIDE DEF mid
<1>9. low \in SUBSET Int /\ \A b \in Int : b \in low <=> b - 2 \in mid \cup Field(pattern, 0, 2)
  BY <1>4, <1>8, ShlBit
<1> HIDE DEF low
<1>10. len \in SUBSET Int /\ \A b \in Int : b \in len <=> b - 2 \in low \cup Flag(bl)
  BY <1>3, <1>9, ShlBit
<1> HIDE DEF len
<1>11. all \in SUBSET Int /\ \A b \in Int : b \in all <=> b - 10 \in len \cup Flag(ap)
  BY <1>3, <1>10, ShlBit
<1> HIDE DEF all
<1>12. ASSUME NEW b \in Int
       PROVE  b \in cmd <=> b \in {5, 8, 15} \/ (b - 7 \in pattern /\ 9 <= b /\ b < 15)
  <2>1. b - 3 \in Int /\ b - 9 \in Int /\ (b - 3) - 6 = b - 9 /\ (b - 9) + 2 = b - 7
    OBVIOUS
  <2>2. b - 3 \in high <=> b - 9 = 6 \/ (b - 7 \in pattern /\ 0 <= b - 9 /\ b - 9 < 6)
    BY <1>4, <1>5, <1>6, <2>1
  <2>3. QED BY <1>7, <2>2
<1>13. ASSUME NEW b \in Int
       PROVE  b \in low <=> \/ b - 4 \in cmd \cup bank
                            \/ b - 2 \in pattern /\ 2 <= b /\ b < 4
  <2>1. b - 2 \in Int /\ (b - 2) - 2 = b - 4 /\ (b - 2) + 0 = b - 2
    OBVIOUS
  <2>2. QED BY <1>4, <1>8, <1>9, <2>1
<1>14. ASSUME NEW b \in Int
       PROVE  b \in all <=> \/ b - 12 \in low
                            \/ bl /\ b = 12
                            \/ ap /\ b = 10
  <2>1. b - 10 \in Int /\ b - 12 \in Int /\ (b - 10) - 2 = b - 12
    OBVIOUS
  <2>2. b - 10 \in len <=> b - 12 \in low \/ (bl /\ b - 12 = 0)
    BY <1>3, <1>10, <2>1
  <2>3. b - 10 \in Flag(ap) <=> ap /\ b - 10 = 0
    BY <1>3, <2>1
  <2>4. QED BY <1>11, <2>2, <2>3
<1>15. ASSUME NEW b \in Int
       PROVE  b \in all <=> \/ b \in {21, 24, 31}
                            \/ b - 23 \in pattern /\ 25 <= b /\ b < 31
                            \/ b - 14 \in pattern /\ 14 <= b /\ b < 16
                            \/ b - 16 \in bank
                            \/ bl /\ b = 12
                            \/ ap /\ b = 10
  <2>1. /\ b - 12 \in Int /\ b - 16 \in Int
        /\ (b - 12) - 4 = b - 16 /\ (b - 12) - 2 = b - 14 /\ (b - 16) - 7 = b - 23
    OBVIOUS
  <2>2. b - 16 \in cmd <=> b - 16 \in {5, 8, 15} \/ (b - 23 \in pattern /\ 9 <= b - 16 /\ b - 16 < 15)
    BY <1>12, <2>1
  <2>3. b - 12 \in low <=> \/ b - 16 \in cmd \cup bank
                           \/ b - 14 \in pattern /\ 2 <= b - 12 /\ b - 12 < 4
    BY <1>13, <2>1
  <2>4. QED BY <1>14, <2>2, <2>3
<1>16. QED BY <1>1, <1>2, <1>11, <1>15

LEMMA RdBits ==
  ASSUME NEW bank \in Bits(3), NEW col \in Bits(10), NEW ap \in BOOLEAN, NEW bl \in BOOLEAN
  PROVE  /\ genRD(bank, col, ap, bl) \in SUBSET Int
         /\ \A b \in Int : b \in genRD(bank, col, ap, bl) <=>
              \/ b \in {19, 21, 24, 31}
              \/ b - 16 \in bank
              \/ bl /\ b = 12
              \/ ap /\ b = 10
              \/ b \in col
<1> DEFINE cmd == Shl({0, 2, 5}, 3)
           mid == Shl(cmd \cup bank, 4)
           len == Shl(mid \cup Flag(bl), 2)
           all == Shl(len \cup Flag(ap), 10)
           ddr == Shl(DDR, 28)
<1>1. bank \in SUBSET Int /\ col \in SUBSET Int
  BY DEF Bits
<1>2. genRD(bank, col, ap, bl) = ddr \cup all \cup col
  BY DEF genRD, BANK_OFFSET, COL_OFFSET
<1>3. /\ Flag(bl) \in SUBSET Int /\ \A b \in Int : b \in Flag(bl) <=> bl /\ b = 0
      /\ Flag(ap) \in SUBSET Int /\ \A b \in Int : b \in Flag(ap) <=> ap /\ b = 0
  BY FlagBit
<1>4. ddr \in SUBSET Int /\ \A b \in Int : b \in ddr <=> b = 31
  <2>1. ddr \in SUBSET Int /\ \A b \in Int : b \in ddr <=> b - 28 \in DDR
    BY ShlBit DEF DDR
  <2>2. QED BY <2>1 DEF DDR
<1>5. cmd \in SUBSET Int /\ \A b \in Int : b \in cmd <=> b - 3 \in {0, 2, 5}
  BY ShlBit
<1> HIDE DEF cmd, ddr
<1>6. mid \in SUBSET Int /\ \A b \in Int : b \in mid <=> b - 4 \in cmd \cup bank
  BY <1>1, <1>5, ShlBit
<1> HIDE DEF mid
<1>7. len \in SUBSET Int /\ \A b \in Int : b \in len <=> b - 2 \in mid \cup Flag(bl)
  BY <1>3, <1>6, ShlBit
<1> HIDE DEF len
<1>8. all \in SUBSET Int /\ \A b \in Int : b \in all <=> b - 10 \in len \cup Flag(ap)
  BY <1>3, <1>7, ShlBit
<1> HIDE DEF all
<1>9. ASSUME NEW b \in Int
      PROVE  b \in all <=> \/ b \in {19, 21, 24}
                           \/ b - 16 \in bank
                           \/ bl /\ b = 12
                           \/ ap /\ b = 10
  <2>1. /\ b - 10 \in Int /\ b - 12 \in Int /\ b - 16 \in Int
        /\ (b - 10) - 2 = b - 12 /\ (b - 12) - 4 = b - 16
    OBVIOUS
  <2>2. b - 16 \in cmd <=> b \in {19, 21, 24}
    BY <1>5, <2>1
  <2>3. b - 12 \in mid <=> b - 16 \in cmd \cup bank
    BY <1>6, <2>1
  <2>4. b - 10 \in len <=> b - 12 \in mid \/ (bl /\ b - 12 = 0)
    BY <1>3, <1>7, <2>1
  <2>5. b - 10 \in Flag(ap) <=> ap /\ b - 10 = 0
    BY <1>3, <2>1
  <2>6. QED BY <1>8, <2>2, <2>3, <2>4, <2>5
<1>10. QED BY <1>1, <1>2, <1>4, <1>8, <1>9

\* The words without operands, and the ones with a single one in the low bits.
LEMMA PlainBits ==
  /\ genZQ \in SUBSET Int /\ \A b \in Int : b \in genZQ <=> b \in {20, 21, 24, 31}
  /\ genREF \in SUBSET Int /\ \A b \in Int : b \in genREF <=> b \in {19, 24, 31}
<1> DEFINE s == Signals({1, 2, 5})
           t == Signals({0, 5})
<1>1. /\ s \in SUBSET Int /\ \A b \in Int : b \in s <=> b = 12 \/ b \in {1, 2, 5}
      /\ t \in SUBSET Int /\ \A b \in Int : b \in t <=> b = 12 \/ b \in {0, 5}
  BY SignalBits
<1>2. genZQ = Shl(s, 19) /\ genREF = Shl(t, 19)
  BY DEF genZQ, genREF, BANK_OFFSET, ROW_OFFSET
<1> HIDE DEF s, t
<1>3. /\ Shl(s, 19) \in SUBSET Int /\ \A b \in Int : b \in Shl(s, 19) <=> b - 19 \in s
      /\ Shl(t, 19) \in SUBSET Int /\ \A b \in Int : b \in Shl(t, 19) <=> b - 19 \in t
  BY <1>1, ShlBit
<1>4. ASSUME NEW b \in Int
      PROVE  (b - 19 \in s <=> b \in {20, 21, 24, 31}) /\ (b - 19 \in t <=> b \in {19, 24, 31})
  <2>1. b - 19 \in Int
    OBVIOUS
  <2>2. QED BY <1>1, <2>1
<1>5. QED BY <1>2, <1>3, <1>4

-----------------------------------------------------------------------------
(* Decoding.                                                               *)

\* What the hardware makes of a word whose top bit is set.
LEMMA DecodeDDR ==
  ASSUME NEW w \in SUBSET Int, 31 \in w
  PROVE  /\ Decode(w).op = "DDR"
         /\ Decode(w).low = Lines(w)
         /\ Decode(w).cke <=> 24 \in w
         /\ Decode(w).bank = Field(w, 16, 3)
         /\ Decode(w).address = Field(w, 0, 15)
         /\ Decode(w).byte = Shl(Field(w, 25, 6), 2) \cup Field(w, 14, 2)
<1>1. 3 \in Field(w, 28, 4)
  BY FieldBit
<1>2. Opcode(w) = "DDR"
  BY <1>1 DEF Opcode
<1> DEFINE bank == Field(w, 16, 3)
           address == Field(w, 0, 15)
           byte == Shl(Field(w, 25, 6), 2) \cup Field(w, 14, 2)
           cke == 24 \in w
           low == Lines(w)
<1>3. Decode(w) = [op |-> "DDR", low |-> low, cke |-> cke,
                   bank |-> bank, address |-> address, byte |-> byte]
  BY <1>2 DEF Decode
<1> HIDE DEF bank, address, byte, cke, low
<1>4. /\ Decode(w).op = "DDR" /\ Decode(w).low = low
      /\ Decode(w).bank = bank /\ Decode(w).address = address /\ Decode(w).byte = byte
  BY <1>3
<1>5. Decode(w).cke <=> cke
  BY <1>3
<1>6. QED BY <1>4, <1>5 DEF bank, address, byte, cke, low

\* A command drives exactly the lines whose bits are clear.
LEMMA LinesDriven ==
  ASSUME NEW w
  PROVE  \A l : l \in Lines(w) <=> \/ l = "cs" /\ 22 \notin w
                                   \/ l = "ras" /\ 21 \notin w
                                   \/ l = "cas" /\ 20 \notin w
                                   \/ l = "we" /\ 19 \notin w
<1> DEFINE bit(l) == CASE l = "cs" -> 22 [] l = "ras" -> 21 [] l = "cas" -> 20 [] l = "we" -> 19
<1>1. bit("cs") = 22 /\ bit("ras") = 21 /\ bit("cas") = 20 /\ bit("we") = 19
  OBVIOUS
<1>2. Lines(w) = { l \in {"cs", "ras", "cas", "we"} : bit(l) \notin w }
  BY DEF Lines
<1> HIDE DEF bit
<1>3. QED BY <1>1, <1>2

\* A word of an opcode with its top bit clear and an operand.
OperandWord(w, code, operand) ==
  /\ w \in SUBSET Int /\ code \in SUBSET (0 .. 2) /\ operand \in SUBSET (0 .. 27)
  /\ \A b \in Int : b \in w <=> b - 28 \in code \/ b \in operand

LEMMA DecodeOperand ==
  ASSUME NEW w, NEW code, NEW operand, OperandWord(w, code, operand)
  PROVE  /\ code = {} => Opcode(w) = "END"
         /\ code = {0} => Opcode(w) = "SET_BUSDIR"
         /\ code = {1} => Opcode(w) = "SET_TREFI"
         /\ code = {0, 1} => Opcode(w) = "SET_TRFC"
         /\ code = {2} => Opcode(w) = "WAIT"
         /\ \A n \in 0 .. 28 : operand \subseteq 0 .. n - 1 => Field(w, 0, n) = operand
<1> USE DEF OperandWord
<1>1. Field(w, 28, 4) = code
  <2>1. /\ Field(w, 28, 4) \in SUBSET Int
        /\ \A b \in Int : b \in Field(w, 28, 4) <=> b + 28 \in w /\ 0 <= b /\ b < 4
    BY FieldBit
  <2>2. ASSUME NEW b \in Int PROVE b \in Field(w, 28, 4) <=> b \in code
    <3>1. b + 28 \in Int /\ (b + 28) - 28 = b
      OBVIOUS
    <3>2. b + 28 \in w <=> b \in code \/ b + 28 \in operand
      BY <3>1
    <3>3. QED BY <2>1, <3>2
  <2>3. code \in SUBSET Int
    OBVIOUS
  <2>4. QED BY <2>1, <2>2, <2>3, SameBits
<1>2. 3 \notin code
  OBVIOUS
<1>3. {0} # {} /\ {1} # {} /\ {2} # {} /\ {0, 1} # {}
      /\ {0} # {1} /\ {0} # {2} /\ {1} # {2}
      /\ {0, 1} # {0} /\ {0, 1} # {1} /\ {0, 1} # {2}
  <2>1. /\ 0 \in {0} /\ 1 \in {1} /\ 2 \in {2} /\ 0 \in {0, 1} /\ 1 \in {0, 1}
        /\ 0 \notin {1} /\ 0 \notin {2} /\ 1 \notin {2} /\ 1 \notin {0}
    OBVIOUS
  <2>2. QED BY <2>1, Zenon
<1>4. ASSUME NEW n \in 0 .. 28, operand \subseteq 0 .. n - 1
      PROVE  Field(w, 0, n) = operand
  <2>1. /\ Field(w, 0, n) \in SUBSET Int
        /\ \A b \in Int : b \in Field(w, 0, n) <=> b + 0 \in w /\ 0 <= b /\ b < n
    BY FieldBit
  <2>2. ASSUME NEW b \in Int PROVE b \in Field(w, 0, n) <=> b \in operand
    <3>1. b + 0 = b
      OBVIOUS
    <3>2. b < n => b - 28 \notin code
      OBVIOUS
    <3>3. QED BY <1>4, <2>1, <3>1, <3>2
  <2>3. operand \in SUBSET Int
    OBVIOUS
  <2>4. QED BY <2>1, <2>2, <2>3, SameBits
<1>5. Opcode(w) = CASE 3 \in code -> "DDR"
                    [] code = {} -> "END"
                    [] code = {0} -> "SET_BUSDIR"
                    [] code = {1} -> "SET_TREFI"
                    [] code = {0, 1} -> "SET_TRFC"
                    [] code = {2} -> "WAIT"
                    [] OTHER -> "UNKNOWN"
  BY <1>1 DEF Opcode
<1>6. CASE code = {}
  BY <1>2, <1>3, <1>4, <1>5, <1>6
<1>7. CASE code = {0}
  BY <1>2, <1>3, <1>4, <1>5, <1>7
<1>8. CASE code = {1}
  BY <1>2, <1>3, <1>4, <1>5, <1>8
<1>9. CASE code = {0, 1}
  BY <1>2, <1>3, <1>4, <1>5, <1>9
<1>10. CASE code = {2}
  BY <1>2, <1>3, <1>4, <1>5, <1>10
<1>11. QED BY <1>4, <1>6, <1>7, <1>8, <1>9, <1>10

-----------------------------------------------------------------------------
(* The calls.                                                              *)
CodecTypeOK == call \in Calls \cup {NoCall}

LEMMA CodecTypes == CodecSpec => []CodecTypeOK
<1>1. CodecInit => CodecTypeOK
  BY DEF CodecInit, CodecTypeOK
<1>2. CodecTypeOK /\ [CodecNext]_call => CodecTypeOK'
  BY DEF CodecTypeOK, CodecNext
<1>3. QED BY <1>1, <1>2, PTL DEF CodecSpec

LEMMA ActDecodes ==
  ASSUME NEW b \in Banks, NEW r \in Rows, call = Call("ACT", b, r, {}, FALSE, FALSE)
  PROVE  DecodesAsWritten
<1> DEFINE w == genACT(b, r)
<1>1. b \in Bits(3) /\ r \in Bits(15)
  BY OperandAssumption
<1>2. /\ w \in SUBSET Int
      /\ \A j \in Int : j \in w <=> j \in {19, 20, 24, 31} \/ j - 16 \in b \/ j \in r
  BY <1>1, ActBits
<1>3. Gen(call) = w
  BY DEF Gen, Call
<1> HIDE DEF w
<1>4. \A j \in Int : (j \in b => 0 <= j /\ j < 3) /\ (j \in r => 0 <= j /\ j < 15)
  BY <1>1 DEF Bits
<1>5. 31 \in w /\ 24 \in w /\ 22 \notin w /\ 21 \notin w /\ 20 \in w /\ 19 \in w
  BY <1>2, <1>4
<1>6. Lines(w) = {"cs", "ras"}
  BY <1>5, LinesDriven
<1>7. b \in SUBSET Int /\ r \in SUBSET Int
  BY <1>1 DEF Bits
<1>8. Field(w, 16, 3) = b
  <2>1. /\ Field(w, 16, 3) \in SUBSET Int
        /\ \A j \in Int : j \in Field(w, 16, 3) <=> j + 16 \in w /\ 0 <= j /\ j < 3
    BY <1>2, <1>4, <1>7, FieldBit
  <2>2. ASSUME NEW j \in Int PROVE j \in Field(w, 16, 3) <=> j \in b
    <3>1. j + 16 \in Int /\ (j + 16) - 16 = j
      OBVIOUS
    <3>2. QED BY <1>2, <1>4, <1>7, <2>1, <3>1
  <2>3. QED BY <1>2, <1>4, <1>7, <2>1, <2>2, SameBits
<1>9. Field(w, 0, 15) = r
  <2>1. /\ Field(w, 0, 15) \in SUBSET Int
        /\ \A j \in Int : j \in Field(w, 0, 15) <=> j + 0 \in w /\ 0 <= j /\ j < 15
    BY <1>2, <1>4, <1>7, FieldBit
  <2>2. ASSUME NEW j \in Int PROVE j \in Field(w, 0, 15) <=> j \in r
    <3>1. j + 0 \in Int /\ (j + 0) - 0 = j
      OBVIOUS
    <3>2. QED BY <1>2, <1>4, <1>7, <2>1, <3>1
  <2>3. QED BY <1>2, <1>4, <1>7, <2>1, <2>2, SameBits
<1>10. /\ Decode(w).op = "DDR" /\ Decode(w).cke /\ Decode(w).low = {"cs", "ras"}
       /\ Decode(w).bank = b /\ Decode(w).address = r
  BY <1>2, <1>5, <1>6, <1>8, <1>9, DecodeDDR
<1>11. /\ call.fn = "ACT" /\ call.bank = b /\ call.addr = r
       /\ DDR3["ACT"] = {"cs", "ras"} /\ "ACT" \in DOMAIN DDR3
  BY DEF Call, DDR3
<1>12. QED BY <1>3, <1>10, <1>11 DEF DecodesAsWritten

LEMMA PreDecodes ==
  ASSUME NEW b \in Banks, NEW all \in BOOLEAN, call = Call("PRE", b, {}, {}, all, FALSE)
  PROVE  DecodesAsWritten
<1> DEFINE w == genPRE(b, all)
           address == Field(w, 0, 15)
<1>1. b \in Bits(3) /\ b \in SUBSET Int /\ \A j \in Int : j \in b => 0 <= j /\ j < 3
  BY OperandAssumption DEF Bits
<1>2. /\ w \in SUBSET Int
      /\ \A j \in Int : j \in w <=> \/ j \in {20, 24, 31}
                                    \/ all /\ j = 10
                                    \/ ~all /\ j - 16 \in b
  BY <1>1, PreBits
<1>3. Gen(call) = w
  BY DEF Gen, Call
<1> HIDE DEF w
<1>4. 31 \in w /\ 24 \in w /\ 22 \notin w /\ 21 \notin w /\ 20 \in w /\ 19 \notin w
  BY <1>1, <1>2
<1>5. Lines(w) = {"cs", "ras", "we"}
  BY <1>4, LinesDriven
<1>6. ASSUME ~all PROVE Field(w, 16, 3) = b
  <2>1. /\ Field(w, 16, 3) \in SUBSET Int
        /\ \A j \in Int : j \in Field(w, 16, 3) <=> j + 16 \in w /\ 0 <= j /\ j < 3
    BY <1>1, <1>2, <1>6, FieldBit
  <2>2. ASSUME NEW j \in Int PROVE j \in Field(w, 16, 3) <=> j \in b
    <3>1. j + 16 \in Int /\ (j + 16) - 16 = j
      OBVIOUS
    <3>2. QED BY <1>1, <1>2, <1>6, <2>1, <3>1
  <2>3. QED BY <1>1, <1>2, <1>6, <2>1, <2>2, SameBits
<1>7. 10 \in address <=> all
  <2>1. 10 \in address <=> 10 + 0 \in w
    BY <1>2, FieldBit
  <2>2. QED BY <1>1, <1>2, <2>1
<1>8. /\ Decode(w).op = "DDR" /\ Decode(w).cke /\ Decode(w).low = {"cs", "ras", "we"}
      /\ Decode(w).bank = Field(w, 16, 3) /\ Decode(w).address = address
  BY <1>2, <1>4, <1>5, DecodeDDR
<1> DEFINE d == Decode(w)
<1>9. /\ d.op = "DDR" /\ d.cke /\ d.low = {"cs", "ras", "we"}
      /\ ~all => d.bank = b
      /\ 10 \in d.address <=> all
  BY <1>6, <1>7, <1>8
<1>10. d = Decode(Gen(call))
  BY <1>3
<1> HIDE DEF address, d
<1>11. /\ call.fn = "PRE" /\ call.bank = b /\ call.ap = all
       /\ DDR3["PRE"] = {"cs", "ras", "we"} /\ "PRE" \in DOMAIN DDR3
  BY DEF Call, DDR3
<1>12. QED BY <1>9, <1>10, <1>11 DEF DecodesAsWritten

\* What a read and a write have in common.
LEMMA ColumnDecodes ==
  ASSUME NEW w \in SUBSET Int, NEW b \in Bits(3), NEW c \in Bits(10),
         NEW ap \in BOOLEAN, NEW bl \in BOOLEAN,
         \A j \in Int : j < 14 => (j \in w <=> \/ bl /\ j = 12
                                               \/ ap /\ j = 10
                                               \/ j \in c),
         \A j \in Int : 16 <= j /\ j < 19 => (j \in w <=> j - 16 \in b)
  PROVE  /\ Field(w, 16, 3) = b
         /\ Field(Field(w, 0, 15), 0, 10) = c
         /\ 12 \in Field(w, 0, 15) <=> bl
         /\ 10 \in Field(w, 0, 15) <=> ap
<1> DEFINE address == Field(w, 0, 15)
<1>1. /\ b \in SUBSET Int /\ \A j \in Int : j \in b => 0 <= j /\ j < 3
      /\ c \in SUBSET Int /\ \A j \in Int : j \in c => 0 <= j /\ j < 10
  BY DEF Bits
<1>2. Field(w, 16, 3) = b
  <2>1. /\ Field(w, 16, 3) \in SUBSET Int
        /\ \A j \in Int : j \in Field(w, 16, 3) <=> j + 16 \in w /\ 0 <= j /\ j < 3
    BY <1>1, FieldBit
  <2>2. ASSUME NEW j \in Int PROVE j \in Field(w, 16, 3) <=> j \in b
    <3>1. j + 16 \in Int /\ (j + 16) - 16 = j
      OBVIOUS
    <3>2. QED BY <1>1, <2>1, <3>1
  <2>3. QED BY <1>1, <2>1, <2>2, SameBits
<1>3. /\ address \in SUBSET Int
      /\ \A j \in Int : j \in address <=> j + 0 \in w /\ 0 <= j /\ j < 15
  BY FieldBit
<1> HIDE DEF address
<1>4. 12 \in address <=> bl
  BY <1>1, <1>3
<1>5. 10 \in address <=> ap
  BY <1>1, <1>3
<1>6. Field(address, 0, 10) = c
  <2>1. /\ Field(address, 0, 10) \in SUBSET Int
        /\ \A j \in Int : j \in Field(address, 0, 10) <=> j + 0 \in address /\ 0 <= j /\ j < 10
    BY <1>1, <1>3, FieldBit
  <2>2. ASSUME NEW j \in Int PROVE j \in Field(address, 0, 10) <=> j \in c
    <3>1. j + 0 \in Int /\ (j + 0) - 0 = j
      OBVIOUS
    <3>2. QED BY <1>1, <1>3, <2>1, <3>1
  <2>3. QED BY <1>1, <1>3, <2>1, <2>2, SameBits
<1>7. QED BY <1>2, <1>4, <1>5, <1>6 DEF address

LEMMA RdDecodes ==
  ASSUME NEW b \in Banks, NEW c \in Cols, NEW ap \in BOOLEAN, NEW bl \in BOOLEAN,
         call = Call("RD", b, c, {}, ap, bl)
  PROVE  DecodesAsWritten
<1> DEFINE w == genRD(b, c, ap, bl)
<1>1. /\ b \in Bits(3) /\ \A j \in Int : j \in b => 0 <= j /\ j < 3
      /\ c \in Bits(10) /\ \A j \in Int : j \in c => 0 <= j /\ j < 10
  BY OperandAssumption DEF Bits
<1>2. /\ w \in SUBSET Int
      /\ \A j \in Int : j \in w <=> \/ j \in {19, 21, 24, 31}
                                    \/ j - 16 \in b
                                    \/ bl /\ j = 12
                                    \/ ap /\ j = 10
                                    \/ j \in c
  BY <1>1, RdBits
<1>3. Gen(call) = w
  BY DEF Gen, Call
<1> HIDE DEF w
<1>4. 31 \in w /\ 24 \in w /\ 22 \notin w /\ 21 \in w /\ 20 \notin w /\ 19 \in w
  BY <1>1, <1>2
<1>5. Lines(w) = {"cs", "cas"}
  BY <1>4, LinesDriven
<1>6. \A j \in Int : j < 14 => (j \in w <=> \/ bl /\ j = 12
                                            \/ ap /\ j = 10
                                            \/ j \in c)
  BY <1>1, <1>2
<1>7. \A j \in Int : 16 <= j /\ j < 19 => (j \in w <=> j - 16 \in b)
  BY <1>1, <1>2
<1>8. /\ Field(w, 16, 3) = b
      /\ Field(Field(w, 0, 15), 0, 10) = c
      /\ 12 \in Field(w, 0, 15) <=> bl
      /\ 10 \in Field(w, 0, 15) <=> ap
  <2>1. w \in SUBSET Int /\ b \in Bits(3) /\ c \in Bits(10)
    BY <1>1, <1>2
  <2>2. QED BY <1>6, <1>7, <2>1, ColumnDecodes
<1> DEFINE address == Field(w, 0, 15)
<1> HIDE DEF address
<1>9. /\ Decode(w).op = "DDR" /\ Decode(w).cke /\ Decode(w).low = {"cs", "cas"}
      /\ Decode(w).bank = b /\ Decode(w).address = address
  BY <1>2, <1>4, <1>5, <1>8, DecodeDDR DEF address
<1>10. /\ Field(address, 0, 10) = c
       /\ 12 \in address <=> bl
       /\ 10 \in address <=> ap
  BY <1>8 DEF address
<1>11. /\ call.fn = "RD" /\ call.bank = b /\ call.addr = c /\ call.ap = ap /\ call.bl = bl
       /\ DDR3["RD"] = {"cs", "cas"} /\ "RD" \in DOMAIN DDR3
  BY DEF Call, DDR3
<1>12. QED BY <1>3, <1>9, <1>10, <1>11 DEF DecodesAsWritten

LEMMA WrDecodes ==
  ASSUME NEW b \in Banks, NEW c \in Cols, NEW p \in Patterns,
         NEW ap \in BOOLEAN, NEW bl \in BOOLEAN, call = Call("WR", b, c, p, ap, bl)
  PROVE  DecodesAsWritten
<1> DEFINE w == genWR(b, c, p, ap, bl)
<1>1. /\ b \in Bits(3) /\ \A j \in Int : j \in b => 0 <= j /\ j < 3
      /\ c \in Bits(10) /\ \A j \in Int : j \in c => 0 <= j /\ j < 10
      /\ p \in Bits(8) /\ p \in SUBSET Int /\ \A j \in Int : j \in p => 0 <= j /\ j < 8
  BY OperandAssumption DEF Bits
<1>2. /\ w \in SUBSET Int
      /\ \A j \in Int : j \in w <=> \/ j \in {21, 24, 31}
                                    \/ j - 23 \in p /\ 25 <= j /\ j < 31
                                    \/ j - 14 \in p /\ 14 <= j /\ j < 16
                                    \/ j - 16 \in b
                                    \/ bl /\ j = 12
                                    \/ ap /\ j = 10
                                    \/ j \in c
  BY <1>1, WrBits
<1>3. Gen(call) = w
  BY DEF Gen, Call
<1> HIDE DEF w
<1>4. 31 \in w /\ 24 \in w /\ 22 \notin w /\ 21 \in w /\ 20 \notin w /\ 19 \notin w
  BY <1>1, <1>2
<1>5. Lines(w) = {"cs", "cas", "we"}
  BY <1>4, LinesDriven
<1>6. \A j \in Int : j < 14 => (j \in w <=> \/ bl /\ j = 12
                                            \/ ap /\ j = 10
                                            \/ j \in c)
  BY <1>1, <1>2
<1>7. \A j \in Int : 16 <= j /\ j < 19 => (j \in w <=> j - 16 \in b)
  BY <1>1, <1>2
<1>8. /\ Field(w, 16, 3) = b
      /\ Field(Field(w, 0, 15), 0, 10) = c
      /\ 12 \in Field(w, 0, 15) <=> bl
      /\ 10 \in Field(w, 0, 15) <=> ap
  <2>1. w \in SUBSET Int /\ b \in Bits(3) /\ c \in Bits(10)
    BY <1>1, <1>2
  <2>2. QED BY <1>6, <1>7, <2>1, ColumnDecodes
<1> DEFINE upper == Field(w, 25, 6)
           lower == Field(w, 14, 2)
<1>9. Shl(upper, 2) \cup lower = p
  <2>1. /\ upper \in SUBSET Int
        /\ \A j \in Int : j \in upper <=> j + 25 \in w /\ 0 <= j /\ j < 6
        /\ lower \in SUBSET Int
        /\ \A j \in Int : j \in lower <=> j + 14 \in w /\ 0 <= j /\ j < 2
    BY <1>2, FieldBit
  <2> HIDE DEF upper, lower
  <2>2. Shl(upper, 2) \in SUBSET Int /\ \A j \in Int : j \in Shl(upper, 2) <=> j - 2 \in upper
    BY <2>1, ShlBit
  <2>3. ASSUME NEW j \in Int PROVE j \in Shl(upper, 2) <=> j \in p /\ 2 <= j
    <3>1. j - 2 \in Int /\ (j - 2) + 25 = j + 23 /\ j + 23 \in Int /\ (j + 23) - 23 = j
      OBVIOUS
    <3>2. 0 <= j - 2 /\ j - 2 < 6 => (j + 23 \in w <=> j \in p)
      <4> SUFFICES ASSUME 0 <= j - 2, j - 2 < 6 PROVE j + 23 \in w <=> j \in p
        OBVIOUS
      <4>1. /\ (j + 23) - 16 \notin b /\ j + 23 \notin c /\ j + 23 \notin {21, 24, 31}
            /\ 25 <= j + 23 /\ j + 23 < 31
        BY <1>1
      <4>2. QED BY <1>2, <3>1, <4>1
    <3>3. QED BY <1>1, <2>1, <2>2, <3>1, <3>2
  <2>4. ASSUME NEW j \in Int PROVE j \in lower <=> j \in p /\ j < 2
    <3>1. j + 14 \in Int /\ (j + 14) - 14 = j
      OBVIOUS
    <3>2. 0 <= j /\ j < 2 => (j + 14 \in w <=> j \in p)
      <4> SUFFICES ASSUME 0 <= j, j < 2 PROVE j + 14 \in w <=> j \in p
        OBVIOUS
      <4>1. /\ (j + 14) - 16 \notin b /\ j + 14 \notin c /\ j + 14 \notin {21, 24, 31}
            /\ 14 <= j + 14 /\ j + 14 < 16
        BY <1>1
      <4>2. QED BY <1>2, <3>1, <4>1
    <3>3. QED BY <1>1, <2>1, <3>1, <3>2
  <2>5. \A j \in Int : j \in Shl(upper, 2) \cup lower <=> j \in p
    BY <2>3, <2>4
  <2>6. QED BY <1>1, <2>1, <2>2, <2>5, SameBits
<1> DEFINE address == Field(w, 0, 15)
           byte == Shl(upper, 2) \cup lower
<1>10. /\ Decode(w).op = "DDR" /\ Decode(w).low = {"cs", "cas", "we"}
       /\ Decode(w).bank = b /\ Decode(w).address = address /\ Decode(w).byte = byte
  BY <1>2, <1>4, <1>5, <1>8, DecodeDDR
<1>11. Decode(w).cke
  BY <1>2, <1>4, DecodeDDR
<1>12. byte = p
  BY <1>9
<1> HIDE DEF address, byte
<1>13. /\ Field(address, 0, 10) = c
       /\ 12 \in address <=> bl
       /\ 10 \in address <=> ap
  BY <1>8 DEF address
<1>14. /\ call.fn = "WR" /\ call.bank = b /\ call.addr = c /\ call.byte = p
       /\ call.ap = ap /\ call.bl = bl
       /\ DDR3["WR"] = {"cs", "cas", "we"} /\ "WR" \in DOMAIN DDR3
  BY DEF Call, DDR3
<1>15. QED BY <1>3, <1>10, <1>11, <1>12, <1>13, <1>14 DEF DecodesAsWritten

LEMMA PlainDecodes ==
  ASSUME NEW fn \in {"ZQ", "REF", "END"}, call = Call(fn, {}, {}, {}, FALSE, FALSE)
  PROVE  DecodesAsWritten
<1>1. call.fn = fn /\ call.addr = {} /\ call.ap = FALSE
  BY DEF Call
<1>2. CASE fn = "ZQ"
  <2> DEFINE w == genZQ
             address == Field(w, 0, 15)
             d == Decode(w)
  <2>1. w \in SUBSET Int /\ \A j \in Int : j \in w <=> j \in {20, 21, 24, 31}
    BY PlainBits
  <2>2. Gen(call) = w
    BY <1>1, <1>2 DEF Gen
  <2> HIDE DEF w
  <2>3. 31 \in w /\ 24 \in w /\ 22 \notin w /\ 21 \in w /\ 20 \in w /\ 19 \notin w
    BY <2>1
  <2>4. Lines(w) = {"cs", "we"}
    BY <2>3, LinesDriven
  <2>5. 10 \notin address
    BY <2>1, FieldBit
  <2>6. d.op = "DDR" /\ d.cke /\ d.low = {"cs", "we"} /\ d.address = address
    BY <2>1, <2>3, <2>4, DecodeDDR
  <2>7. d = Decode(Gen(call))
    BY <2>2
  <2> HIDE DEF address, d
  <2>8. DDR3["ZQ"] = {"cs", "we"} /\ "ZQ" \in DOMAIN DDR3
    BY DEF DDR3
  <2>9. QED BY <1>1, <1>2, <2>5, <2>6, <2>7, <2>8 DEF DecodesAsWritten
<1>3. CASE fn = "REF"
  <2> DEFINE w == genREF
             address == Field(w, 0, 15)
             d == Decode(w)
  <2>1. w \in SUBSET Int /\ \A j \in Int : j \in w <=> j \in {19, 24, 31}
    BY PlainBits
  <2>2. Gen(call) = w
    BY <1>1, <1>3 DEF Gen
  <2> HIDE DEF w
  <2>3. 31 \in w /\ 24 \in w /\ 22 \notin w /\ 21 \notin w /\ 20 \notin w /\ 19 \in w
    BY <2>1
  <2>4. Lines(w) = {"cs", "ras", "cas"}
    BY <2>3, LinesDriven
  <2>5. 10 \notin address
    BY <2>1, FieldBit
  <2>6. d.op = "DDR" /\ d.cke /\ d.low = {"cs", "ras", "cas"} /\ d.address = address
    BY <2>1, <2>3, <2>4, DecodeDDR
  <2>7. d = Decode(Gen(call))
    BY <2>2
  <2> HIDE DEF address, d
  <2>8. DDR3["REF"] = {"cs", "ras", "cas"} /\ "REF" \in DOMAIN DDR3
    BY DEF DDR3
  <2>9. QED BY <1>1, <1>3, <2>5, <2>6, <2>7, <2>8 DEF DecodesAsWritten
<1>4. CASE fn = "END"
  <2>1. Gen(call) = {}
    BY <1>1, <1>4 DEF Gen, genEND
  <2>2. Opcode({}) = "END" /\ Field({}, 0, 28) = {}
    <3>1. OperandWord({}, {}, {})
      BY DEF OperandWord
    <3>2. 28 \in 0 .. 28 /\ {} \subseteq 0 .. 28 - 1
      OBVIOUS
    <3>3. QED BY <3>1, <3>2, DecodeOperand
  <2>3. Decode({}) = [op |-> "END", arg |-> {}]
    BY <2>2 DEF Decode
  <2>4. "END" \notin DOMAIN DDR3
    BY DEF DDR3
  <2>5. QED BY <1>1, <1>4, <2>1, <2>3, <2>4 DEF DecodesAsWritten
<1>5. QED BY <1>2, <1>3, <1>4

\* A call of a word with an opcode and one operand of n bits.
OperandCall(fn, code, n, operand) ==
  /\ n \in 0 .. 28 /\ operand \in Bits(n)
  /\ call = Call(fn, {}, operand, {}, FALSE, FALSE)
  /\ Gen(call) = Shl(code, 28) \cup operand
  /\ \/ fn = "WAIT" /\ code = {2} /\ n = 10
     \/ fn = "SET_BUSDIR" /\ code = {0} /\ n = 2
     \/ fn = "SET_TREFI" /\ code = {1} /\ n = 28
     \/ fn = "SET_TRFC" /\ code = {0, 1} /\ n = 28

LEMMA OperandDecodes ==
  ASSUME NEW fn, NEW code, NEW n, NEW operand, OperandCall(fn, code, n, operand)
  PROVE  DecodesAsWritten
<1> DEFINE w == Shl(code, 28) \cup operand
<1>1. /\ operand \in SUBSET (0 .. 27) /\ operand \subseteq 0 .. n - 1 /\ n \in 0 .. 28
      /\ operand \in SUBSET Int
  BY DEF Bits, OperandCall
<1>2. code \in SUBSET (0 .. 2) /\ code \in SUBSET Int
  BY DEF OperandCall
<1>3. Shl(code, 28) \in SUBSET Int /\ \A b \in Int : b \in Shl(code, 28) <=> b - 28 \in code
  BY <1>2, ShlBit
<1>4. OperandWord(w, code, operand)
  BY <1>1, <1>2, <1>3 DEF OperandWord
<1>5. Gen(call) = w /\ call.fn = fn /\ call.addr = operand
  BY DEF OperandCall, Call
<1> HIDE DEF w
<1>6. Field(w, 0, n) = operand
  BY <1>1, <1>4, DecodeOperand
<1>7. /\ fn = "WAIT" => Opcode(w) = "WAIT" /\ n = 10
      /\ fn = "SET_BUSDIR" => Opcode(w) = "SET_BUSDIR" /\ n = 2
      /\ fn = "SET_TREFI" => Opcode(w) = "SET_TREFI" /\ n = 28
      /\ fn = "SET_TRFC" => Opcode(w) = "SET_TRFC" /\ n = 28
      /\ fn = "WAIT" \/ fn = "SET_BUSDIR" \/ fn = "SET_TREFI" \/ fn = "SET_TRFC"
  BY <1>4, DecodeOperand DEF OperandCall
<1>8. Decode(w) = [op |-> fn, arg |-> Field(w, 0, n)]
  BY <1>7 DEF Decode
<1>9. fn \notin DOMAIN DDR3
  BY <1>7 DEF DDR3
<1>10. QED BY <1>5, <1>6, <1>8, <1>9 DEF DecodesAsWritten

\* softmc.cpp builds each instruction so that the hardware decodes what was meant,
\* for all banks, rows, columns, patterns, times and register values that fit their
\* fields, not only for the operands a run tries.
THEOREM CodecAgrees == CodecSpec => []DecodesAsWritten
<1>1. CodecTypeOK => DecodesAsWritten
  <2> SUFFICES ASSUME CodecTypeOK PROVE DecodesAsWritten
    OBVIOUS
  <2>1. CASE call = NoCall
    BY <2>1 DEF DecodesAsWritten
  <2>2. CASE call \in { Call("ACT", b, r, {}, FALSE, FALSE) : b \in Banks, r \in Rows }
    <3>1. PICK b \in Banks, r \in Rows : call = Call("ACT", b, r, {}, FALSE, FALSE)
      BY <2>2 DEF Call
    <3>2. QED BY <3>1, ActDecodes
  <2>3. CASE call \in { Call("PRE", b, {}, {}, all, FALSE) : b \in Banks, all \in BOOLEAN }
    <3>1. PICK b \in Banks, all \in BOOLEAN : call = Call("PRE", b, {}, {}, all, FALSE)
      BY <2>3 DEF Call
    <3>2. QED BY <3>1, PreDecodes
  <2>4. CASE call \in { Call("WR", b, c, p, ap, bl) :
                          b \in Banks, c \in Cols, p \in Patterns,
                          ap \in BOOLEAN, bl \in BOOLEAN }
    BY <2>4, WrDecodes
  <2>5. CASE call \in { Call("RD", b, c, {}, ap, bl) :
                          b \in Banks, c \in Cols, ap \in BOOLEAN, bl \in BOOLEAN }
    BY <2>5, RdDecodes
  <2>6. CASE call \in { Call(fn, {}, {}, {}, FALSE, FALSE) : fn \in {"ZQ", "REF", "END"} }
    BY <2>6, PlainDecodes
  <2>7. CASE call \in { Call("WAIT", {}, n, {}, FALSE, FALSE) : n \in Cycles \ {{}} }
    <3>1. PICK n \in Cycles : call = Call("WAIT", {}, n, {}, FALSE, FALSE)
      BY <2>7
    <3>2. n \in Bits(10)
      BY OperandAssumption
    <3>3. Gen(call) = Shl({2}, 28) \cup n
      BY <3>1 DEF Gen, Call, genWAIT, WAIT
    <3>4. OperandCall("WAIT", {2}, 10, n)
      <4>1. 10 \in 0 .. 28
        OBVIOUS
      <4>2. QED BY <3>1, <3>2, <3>3, <4>1, Zenon DEF OperandCall
    <3>5. QED BY <3>4, OperandDecodes
  <2>8. CASE call \in { Call("SET_BUSDIR", {}, d, {}, FALSE, FALSE) : d \in {{}, {1}} }
    <3>1. PICK d \in {{}, {1}} : call = Call("SET_BUSDIR", {}, d, {}, FALSE, FALSE)
      BY <2>8
    <3>2. d \in Bits(2)
      BY DEF Bits
    <3>3. Gen(call) = Shl({0}, 28) \cup d
      BY <3>1 DEF Gen, Call, genBUSDIR, SET_BUS_DIR
    <3>4. OperandCall("SET_BUSDIR", {0}, 2, d)
      <4>1. 2 \in 0 .. 28
        OBVIOUS
      <4>2. QED BY <3>1, <3>2, <3>3, <4>1, Zenon DEF OperandCall
    <3>5. QED BY <3>4, OperandDecodes
  <2>9. CASE call \in { Call(fn, {}, v, {}, FALSE, FALSE) :
                          fn \in {"SET_TREFI", "SET_TRFC"}, v \in Vals }
    <3>1. PICK fn \in {"SET_TREFI", "SET_TRFC"}, v \in Vals :
                 call = Call(fn, {}, v, {}, FALSE, FALSE)
      BY <2>9 DEF Call
    <3>2. v \in Bits(28)
      BY OperandAssumption
    <3>3. 28 \in 0 .. 28
      OBVIOUS
    <3>4. CASE fn = "SET_TREFI"
      <4>1. Gen(call) = Shl({1}, 28) \cup v
        BY <3>1, <3>4 DEF Gen, Call, genREF_CONFIG, TREFI
      <4>2. OperandCall(fn, {1}, 28, v)
        BY <3>1, <3>2, <3>3, <3>4, <4>1, Zenon DEF OperandCall
      <4>3. QED BY <4>2, OperandDecodes
    <3>5. CASE fn = "SET_TRFC"
      <4>1. Gen(call) = Shl({0, 1}, 28) \cup v
        BY <3>1, <3>5 DEF Gen, Call, genREF_CONFIG, TRFC
      <4>2. OperandCall(fn, {0, 1}, 28, v)
        BY <3>1, <3>2, <3>3, <3>5, <4>1, Zenon DEF OperandCall
      <4>3. QED BY <4>2, OperandDecodes
    <3>6. QED BY <3>4, <3>5
  <2>10. QED BY <2>1, <2>2, <2>3, <2>4, <2>5, <2>6, <2>7, <2>8, <2>9
             DEF CodecTypeOK, Calls, Call
<1>2. QED BY <1>1, CodecTypes, PTL
=============================================================================
