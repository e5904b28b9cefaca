------------------------- MODULE RiffaChannelProofs -------------------------
(***************************************************************************)
(* What a transfer of the RIFFA Linux driver keeps between the FPGA, the   *)
(* interrupt handler and the thread.  The events of a direction reach the  *)
(* thread in the order of their ranks, wherever they are on their way, and *)
(* at most one of each rank is: that bounds the queues, and says which     *)
(* list, and which transaction, an event is about.                         *)
(***************************************************************************)
EXTENDS RiffaChannel, SequenceTheorems, FiniteSetTheorems, TLAPS

-----------------------------------------------------------------------------
(* The events of a direction, by rank: a list was fetched (1), the         *)
(* transaction is over (2), the next one's last flag (3) and length (4).   *)
Ranks == 1 .. 4
Type(r) == IF r = 1 THEN "SG_BUF_READ" ELSE IF r = 2 THEN "TXN_DONE"
           ELSE IF r = 3 THEN "TXN_OFFLAST" ELSE "TXN_LEN"
Event(d, r) == IF d = "recv"
               THEN IF r = 1 THEN "recv sg" ELSE IF r = 2 THEN "recv done"
                    ELSE IF r = 3 THEN "recv txn" ELSE "recv len"
               ELSE IF r = 1 THEN "send sg" ELSE IF r = 2 THEN "send done" ELSE "none"
Events == {"recv sg", "recv done", "recv txn", "recv len", "send sg", "send done"}

\* Where an event is: with the thread, in the queue, with the handler, in the
\* interrupt controller.
Holding == t.pc = "message" \/ (t.pc = "finish wait" /\ ~t.nomsg)
InT(d, r) == Holding /\ t.dir = d /\ t.msg.type = Type(r)
InQ(d, r) == \E k \in 1 .. Len(dir[d].msgs) : dir[d].msgs[k].type = Type(r)
InH(d, r) == Event(d, r) \in h.vect
InI(d, r) == Event(d, r) \in irq.vect
Out(d, r) == InT(d, r) \/ InQ(d, r) \/ InH(d, r) \/ InI(d, r)

InOrder(d) ==
  /\ \A r, s \in Ranks :
       /\ InT(d, r) /\ (InQ(d, s) \/ InH(d, s) \/ InI(d, s)) => r < s
       /\ InQ(d, r) /\ (InH(d, s) \/ InI(d, s)) => r < s
       /\ InH(d, r) /\ InI(d, s) => r < s
  /\ \A j, k \in 1 .. Len(dir[d].msgs) : \A r, s \in Ranks :
       j < k /\ dir[d].msgs[j].type = Type(r) /\ dir[d].msgs[k].type = Type(s) => r < s
  /\ d = "send" => ~Out(d, 3) /\ ~Out(d, 4)

-----------------------------------------------------------------------------
(* A call has given the FPGA lists of its transaction; page k of that goes *)
(* to, or comes from, page k of the buffer while that has room.            *)
Serving(d) == t.dir = d /\ (d = "send" \/ t.lists > 0)
Given(d) == port[d].moved + Len(port[d].sg) + port[d].request
Room(d) == Lower(port[d].len, t.cap)
PageAt(d, k) == IF k <= Room(d) THEN k ELSE Spill

\* A port without a list.
Quiet(d) ==
  /\ port[d].sg = << >> /\ port[d].request = 0
  /\ \/ port[d].st = "idle"
     \/ d = "recv" /\ port[d].st \in {"new", "write"} /\ port[d].moved = 0 /\ port[d].len > 0

Listing(d) ==
  /\ \/ port[d].st = "write" /\ port[d].moved < port[d].len
     \/ port[d].st = "moved" /\ port[d].moved = port[d].len
  /\ Given(d) + t.length + t.overflow = port[d].len
  /\ t.next - 1 + t.length = Room(d)
  /\ t.overflow <= port[d].len - Room(d)
  /\ t.length > 0 => Given(d) = t.next - 1
  /\ d = "send" => port[d].len = t.cap
  /\ Out(d, 1) => port[d].request = 0 /\ Given(d) > 0
  /\ ~Out(d, 3) /\ ~Out(d, 4)
  /\ \A j \in 1 .. Len(port[d].sg) : port[d].sg[j] = PageAt(d, port[d].moved + j)
  /\ \A j \in 1 .. port[d].request :
       dir[d].buf[j] = PageAt(d, port[d].moved + Len(port[d].sg) + j)

\* What has been moved, of a transaction under way or just over.
MovedRight(d, n) ==
  IF d = "recv" THEN \A k \in 1 .. Lower(n, t.cap) : mem[k] = <<due, k>>
  ELSE took = [k \in 1 .. n |-> k]

Transfer(d) ==
  /\ Serving(d) /\ ~Out(d, 2) => Listing(d) /\ MovedRight(d, port[d].moved)
  /\ Serving(d) /\ Out(d, 2) =>
       /\ t.length = 0 /\ t.overflow = 0
       /\ d = "send" => port[d].doneLen = t.cap
       /\ MovedRight(d, port[d].doneLen)
  /\ ~Serving(d) => ~Out(d, 1) /\ ~Out(d, 2)
  /\ ~Serving(d) \/ Out(d, 2) => Quiet(d)

\* The lengths on their way to the thread are those the port still shows.
ValueRight(d, m) ==
  /\ m.type = "TXN_DONE" => m.val = port[d].doneLen
  /\ m.type = "TXN_LEN" => m.val = port[d].len
Told(d) == /\ \A k \in 1 .. Len(dir[d].msgs) : ValueRight(d, dir[d].msgs[k])
           /\ Holding /\ t.dir = d => ValueRight(d, t.msg)

\* A new transaction is announced to the call that takes its length; which one
\* the next call, or the present one, should return.
Announced ==
  /\ Out("recv", 3) => port["recv"].st \in {"new", "write"}
  /\ Out("recv", 4) => port["recv"].st = "write"
  /\ "recv len" \in h.vect => h.len = port["recv"].len /\ "recv txn" \notin h.vect
  /\ Out("recv", 4) /\ ~Out("recv", 3) => t.dir = "recv" /\ t.last # -1 /\ t.lists = 0
  /\ Serving("recv") => t.last # -1
DueRight ==
  due = tag <=> ((port["recv"].st # "idle") # (Serving("recv") /\ Out("recv", 2)))

-----------------------------------------------------------------------------
Pcs == {"idle", "fill", "pop", "prepare", "pop again", "asleep", "finish wait", "message",
        "reset fpga", "reset queues", "reset end"}
Messages == [type : {"SG_BUF_READ", "TXN_DONE", "TXN_OFFLAST", "TXN_LEN"}, val : Nat]
PageSets == {S \in SUBSET Nat : IsFiniteSet(S)}
ThreadType ==
  [pc : Pcs, dir : Dirs, cap : Nat, last : {-1} \cup Nat, length : Nat, overflow : Nat,
   next : Nat \ {0}, moved : Nat, lists : Nat, map0 : PageSets, map1 : PageSets,
   expired : BOOLEAN, nomsg : BOOLEAN, msg : Messages \cup {Message("none", 0)}]
DirType == [msgs : Seq(Messages), waiting : BOOLEAN, buf : Seq(Nat), lost : BOOLEAN]
PortType == [st : {"idle", "new", "write", "moved"}, len : Nat, moved : Nat,
             sg : Seq(Nat), request : Nat, doneLen : Nat, doneRead : BOOLEAN]
HandlerType ==
  [pc : {"idle", "read", "work"}, vect : SUBSET Events, wake : SUBSET Dirs, len : Nat]
IrqType == [st : {"idle", "raised", "unread"}, vect : SUBSET (Events \ {"recv len"})]
ChanTypes ==
  /\ t \in ThreadType
  /\ dir \in [Dirs -> DirType]
  /\ h \in HandlerType
  /\ irq \in IrqType
  /\ port \in [Dirs -> PortType]
  /\ mem \in [Pages -> BOOLEAN \X Nat] /\ took \in Seq(Nat)
  /\ disabled \in BOOLEAN /\ tag \in BOOLEAN /\ due \in BOOLEAN /\ stale \in BOOLEAN
  /\ stray \subseteq {"one list", "more lists"}

\* A list to fetch is in the common buffer.
ListThere == \A d \in Dirs : port[d].request > 0 => Len(dir[d].buf) = port[d].request

\* The thread between calls, or in a reset, has no message and no pages; in a
\* call, the pages of its first list are pinned.
ThreadRight ==
  /\ t.pc \in {"idle", "reset fpga", "reset queues", "reset end"} => t.dir = "recv" /\ t.lists = 0 /\ t.last = -1
  /\ t.pc = "asleep" => t.nomsg
  /\ t.pc = "fill" => t.dir = "send" /\ t.lists = 0 /\ t.length = t.cap /\ t.overflow = 0
  /\ t.lists <= 1 => t.map1 = 1 .. t.next - 1
  /\ t.lists = 0 => t.next = 1
  /\ t.pc \notin {"idle", "reset fpga", "reset queues", "reset end"} => t.cap \in BufLens
  /\ h.pc # "work" => h.vect = {}
  /\ Resetting => disabled

\* After the FPGA was reset, before the queues are: what is left of the handler's
\* vector still fits the queue of recv, and nothing is left for that of send.
Emptying == t.pc = "reset queues"
Brings == IF InH("recv", 3) THEN 2 ELSE IF InH("recv", 4) THEN 1 ELSE 0
FpgaReset ==
  /\ irq.vect \subseteq {"recv txn"}
  /\ irq.vect # {} => port["recv"].st \in {"new", "write"}
  /\ Quiet("recv") /\ Quiet("send")
  /\ due = tag <=> port["recv"].st # "idle"
StillFits ==
  /\ \A r \in Ranks : ~InH("send", r)
  /\ ~InH("recv", 1) /\ ~InH("recv", 2)
  /\ Len(dir["recv"].msgs) + Brings <= 4
  /\ h.pc = "read" => Len(dir["recv"].msgs) <= 2

Underway == /\ InOrder("recv") /\ InOrder("send")
            /\ Told("recv") /\ Told("send")
            /\ Transfer("recv") /\ Transfer("send")
            /\ Announced /\ DueRight
ChanInv ==
  /\ ChanTypes /\ ListThere /\ ThreadRight
  /\ Emptying => FpgaReset
  /\ ~stale => IF Emptying THEN StillFits ELSE Underway
  /\ ret.how = "done" => ~stale /\ Delivered /\ t.pc = "idle"
  /\ NoEventLost /\ OneListPinned

-----------------------------------------------------------------------------
(* Types.  First what a list is, and what a call returns to.               *)

LEMMA LowerNat ==
  ASSUME NEW a \in Nat, NEW b \in Nat
  PROVE  Lower(a, b) \in Nat /\ Lower(a, b) <= a /\ Lower(a, b) <= b
  BY DEF Lower

\* fill_sg_buf makes progress, and gives no more than the list and the buffer hold.
LEMMA Fill ==
  ASSUME NEW length \in Nat, NEW overflow \in Nat, NEW n \in FillMaps(length)
  PROVE  /\ n \in Nat /\ n <= length /\ length - n \in Nat
         /\ n = 0 <=> length = 0
         /\ Spills(n, length, overflow) \in Nat
         /\ Spills(n, length, overflow) <= overflow
         /\ overflow - Spills(n, length, overflow) \in Nat
         /\ length + overflow > 0 => n + Spills(n, length, overflow) > 0
         /\ Spills(n, length, overflow) > 0 => n = length
<1>1. NumSg \in Nat \ {0}
  BY ChannelAssumption
<1>2. /\ n \in Nat /\ n <= length /\ n <= NumSg
      /\ n = 0 <=> length = 0
  BY <1>1 DEF FillMaps, Lower
<1>3. NumSg - n \in Nat
  BY <1>1, <1>2
<1> DEFINE s == Spills(n, length, overflow)
<1>4. CASE n = length
  <2>1. s = Lower(overflow, NumSg - n)
    BY <1>4 DEF Spills
  <2>2. s \in Nat /\ s <= overflow /\ (s = overflow \/ s = NumSg - n)
    BY <1>3, <2>1 DEF Lower
  <2> HIDE DEF s
  <2>3. QED BY <1>1, <1>2, <1>3, <1>4, <2>2 DEF s
<1>5. CASE n # length
  <2>1. s = 0
    BY <1>5 DEF Spills
  <2> HIDE DEF s
  <2>2. QED BY <1>1, <1>2, <1>5, <2>1 DEF s
<1>6. QED BY <1>4, <1>5

LEMMA IdleType == Idle \in ThreadType
<1>1. {} \in PageSets
  BY FS_EmptySet DEF PageSets
<1>2. QED BY <1>1 DEF Idle, ThreadType, Pcs, Dirs, Messages, Message

LEMMA ListType ==
  ASSUME t \in ThreadType, NEW n \in Nat, NEW s \in Nat
  PROVE  LET buf == [k \in 1 .. n |-> t.next + k - 1] \o [k \in 1 .. s |-> Spill]
         IN  /\ buf \in Seq(Nat) /\ Len(buf) = n + s
             /\ \A k \in 1 .. n : buf[k] = t.next + k - 1
             /\ \A k \in 1 .. s : buf[n + k] = Spill
             /\ Filled(n) \in PageSets
<1> DEFINE a == [k \in 1 .. n |-> t.next + k - 1]
           b == [k \in 1 .. s |-> Spill]
<1>1. t.next \in Nat \ {0}
  BY DEF ThreadType
<1>2. a \in Seq(Nat) /\ Len(a) = n /\ \A k \in 1 .. n : a[k] = t.next + k - 1
  <2>1. \A k \in 1 .. n : t.next + k - 1 \in Nat
    BY <1>1
  <2>2. a \in [1 .. n -> Nat]
    BY <2>1
  <2>3. QED BY <2>2
<1>3. b \in Seq(Nat) /\ Len(b) = s /\ \A k \in 1 .. s : b[k] = Spill
  BY DEF Spill
<1> HIDE DEF a, b
<1>4. /\ a \o b \in Seq(Nat) /\ Len(a \o b) = n + s
      /\ \A k \in 1 .. n : (a \o b)[k] = a[k]
      /\ \A k \in 1 .. s : (a \o b)[n + k] = b[k]
  <2>1. /\ a \o b \in Seq(Nat) /\ Len(a \o b) = n + s
        /\ \A i \in 1 .. n + s : (a \o b)[i] = IF i <= n THEN a[i] ELSE b[i - n]
    <3>1. a \in Seq(Nat) /\ b \in Seq(Nat) /\ Len(a) = n /\ Len(b) = s
      BY <1>2, <1>3
    <3>2. /\ a \o b \in Seq(Nat) /\ Len(a \o b) = Len(a) + Len(b)
          /\ \A i \in 1 .. Len(a) + Len(b) :
               (a \o b)[i] = IF i <= Len(a) THEN a[i] ELSE b[i - Len(a)]
      BY <3>1, ConcatProperties, Zenon
    <3>3. QED BY <3>1, <3>2, Zenon
  <2>2. \A k \in 1 .. n : k \in 1 .. n + s /\ k <= n
    OBVIOUS
  <2>3. \A k \in 1 .. s : n + k \in 1 .. n + s /\ ~(n + k <= n) /\ n + k - n = k
    OBVIOUS
  <2> HIDE DEF a, b
  <2>4. QED BY <2>1, <2>2, <2>3
<1>5. Filled(n) \in PageSets
  <2> DEFINE last == t.next + n - 1
  <2>1. t.next \in Int /\ last \in Int /\ t.next >= 0
    BY <1>1
  <2> HIDE DEF last
  <2>2. IsFiniteSet(t.next .. last)
    BY <2>1, FS_Interval
  <2>3. t.next .. last \subseteq Nat
    BY <2>1
  <2>4. Filled(n) = t.next .. last
    BY DEF Filled, last
  <2>5. QED BY <2>2, <2>3, <2>4 DEF PageSets
<1>6. QED BY <1>2, <1>3, <1>4, <1>5 DEF a, b

\* A port or a direction's structure that changes is still one.
LEMMA PortEdited ==
  ASSUME ChanTypes, NEW d \in Dirs, NEW p \in PortType, port' = [port EXCEPT ![d] = p]
  PROVE  port' \in [Dirs -> PortType]
  BY DEF ChanTypes

LEMMA DirEdited ==
  ASSUME ChanTypes, NEW d \in Dirs, NEW q \in DirType, dir' = [dir EXCEPT ![d] = q]
  PROVE  dir' \in [Dirs -> DirType]
  BY DEF ChanTypes

LEMMA PortsAre == ASSUME ChanTypes, NEW d \in Dirs PROVE port[d] \in PortType
  BY DEF ChanTypes

LEMMA PagesNat == Pages \subseteq Nat
  BY ChannelAssumption DEF Pages

LEMMA PushType ==
  ASSUME ChanTypes, NEW d \in Dirs, NEW m \in Messages, Push(d, m)
  PROVE  dir' \in [Dirs -> DirType]
<1>1. dir[d] \in DirType
  BY DEF ChanTypes
<1>2. Append(dir[d].msgs, m) \in Seq(Messages)
  BY <1>1 DEF DirType
<1>3. QED BY <1>1, <1>2 DEF Push, ChanTypes, DirType

LEMMA ReturnType ==
  ASSUME ChanTypes, NEW how, NEW n, Return(how, n)
  PROVE  /\ t' = Idle /\ t' \in ThreadType
         /\ stale' \in BOOLEAN /\ due' \in BOOLEAN
         /\ mem' = mem /\ took' = took
<1>1. t' = Idle /\ t' \in ThreadType
  BY IdleType DEF Return
<1>2. QED BY <1>1 DEF Return, ChanTypes

LEMMA GiveType ==
  ASSUME ChanTypes, NEW n \in Nat, NEW s \in Nat, NEW d \in Dirs, GiveList(d, n, s)
  PROVE  dir' \in [Dirs -> DirType] /\ port' \in [Dirs -> PortType]
<1> DEFINE buf == [k \in 1 .. n |-> t.next + k - 1] \o [k \in 1 .. s |-> Spill]
<1>1. buf \in Seq(Nat)
  BY ListType DEF ChanTypes
<1>2. dir' = [dir EXCEPT ![d].buf = buf] /\ port' = [port EXCEPT ![d].request = n + s]
  BY DEF GiveList
<1> HIDE DEF buf
<1>3. dir' \in [Dirs -> DirType]
  BY <1>1, <1>2 DEF ChanTypes, DirType
<1>4. port' \in [Dirs -> PortType]
  <2> DEFINE k == n + s
             p == [port[d] EXCEPT !.request = k]
  <2>1. p \in PortType
    <3>1. k \in Nat
      OBVIOUS
    <3>2. port[d] \in PortType
      BY PortsAre
    <3> HIDE DEF k
    <3>3. QED BY <3>1, <3>2 DEF PortType
  <2>2. port' = [port EXCEPT ![d] = p]
    BY <1>2
  <2> HIDE DEF p
  <2>3. QED BY <2>1, <2>2, PortEdited
<1>5. QED BY <1>3, <1>4

LEMMA HandlerTypes ==
  ASSUME ChanTypes, Handler
  PROVE  ChanTypes'
<1>1. CASE HandlerEnter \/ HandlerRead \/ HandlerReturn
  <2>1. CASE HandlerEnter
    <3>1. h' \in HandlerType /\ irq' \in IrqType
      BY <2>1 DEF HandlerEnter, ChanTypes, HandlerType, IrqType
    <3>2. QED BY <2>1, <3>1 DEF HandlerEnter, ChanTypes, threadVars, callVars, historyVars
  <2>2. CASE HandlerRead
    <3>1. h' \in HandlerType
      <4>1. irq.vect \subseteq Events
        BY DEF ChanTypes, IrqType
      <4>2. QED BY <2>2, <4>1 DEF HandlerRead, ChanTypes, HandlerType
    <3>2. irq' \in IrqType
      BY <2>2 DEF HandlerRead, IrqType
    <3>3. QED BY <2>2, <3>1, <3>2 DEF HandlerRead, ChanTypes, threadVars, callVars, historyVars
  <2>3. CASE HandlerReturn
    <3>1. h' \in HandlerType
      BY <2>3 DEF HandlerReturn, ChanTypes, HandlerType
    <3>2. dir' \in [Dirs -> DirType]
      <4>1. \A d \in Dirs : (dir[d].waiting /\ d \notin h.wake) \in BOOLEAN
        OBVIOUS
      <4>2. \A d \in Dirs : [dir[d] EXCEPT !.waiting = @ /\ d \notin h.wake] \in DirType
        <5> TAKE d \in Dirs
        <5>1. dir[d] \in DirType
          BY DEF ChanTypes
        <5>2. QED BY <4>1, <5>1 DEF DirType
      <4>3. QED BY <2>3, <4>2 DEF HandlerReturn
    <3>3. QED BY <2>3, <3>1, <3>2
              DEF HandlerReturn, ChanTypes, threadVars, callVars, fpgaVars, historyVars
  <2>4. QED BY <1>1, <2>1, <2>2, <2>3
<1>2. ASSUME NEW e \in Events, NEW d \in Dirs, SgBufRead(d, e)
      PROVE  ChanTypes'
  <2>1. dir' \in [Dirs -> DirType]
    <3>1. Message("SG_BUF_READ", 0) \in Messages
      BY DEF Message, Messages
    <3>2. QED BY <1>2, <3>1, PushType DEF SgBufRead
  <2>2. h' \in HandlerType
    BY <1>2 DEF SgBufRead, Processed, ChanTypes, HandlerType
  <2>3. QED BY <1>2, <2>1, <2>2 DEF SgBufRead, ChanTypes, threadVars, callVars, fpgaVars, historyVars
<1>3. ASSUME NEW e \in Events, NEW d \in Dirs, TxnDone(d, e)
      PROVE  ChanTypes'
  <2>1. dir' \in [Dirs -> DirType]
    <3>1. Message("TXN_DONE", port[d].doneLen) \in Messages
      BY DEF Message, Messages, ChanTypes, PortType
    <3>2. QED BY <1>3, <3>1, PushType DEF TxnDone
  <2>2. h' \in HandlerType
    BY <1>3 DEF TxnDone, Processed, ChanTypes, HandlerType
  <2>3. port' \in [Dirs -> PortType]
    <3> DEFINE p == [port[d] EXCEPT !.doneRead = TRUE]
    <3>1. p \in PortType
      BY PortsAre DEF PortType
    <3>2. port' = [port EXCEPT ![d] = p]
      BY <1>3 DEF TxnDone
    <3> HIDE DEF p
    <3>3. QED BY <3>1, <3>2, PortEdited
  <2>4. QED BY <1>3, <2>1, <2>2, <2>3
            DEF TxnDone, ChanTypes, threadVars, callVars, historyVars
<1>4. CASE NewTxn
  <2>1. dir' \in [Dirs -> DirType]
    <3>1. Message("TXN_OFFLAST", 1) \in Messages /\ "recv" \in Dirs
      BY DEF Message, Messages, Dirs
    <3>2. QED BY <1>4, <3>1, PushType DEF NewTxn
  <2>2. h' \in HandlerType
    BY <1>4 DEF NewTxn, ChanTypes, HandlerType, Events, PortType, Dirs
  <2>3. port' \in [Dirs -> PortType]
    <3> DEFINE p == [port["recv"] EXCEPT !.st = IF @ = "new" THEN "write" ELSE @]
    <3>1. "recv" \in Dirs
      BY DEF Dirs
    <3>2. p \in PortType
      BY <3>1, PortsAre DEF PortType
    <3>3. port' = [port EXCEPT !["recv"] = p]
      BY <1>4 DEF NewTxn
    <3> HIDE DEF p
    <3>4. QED BY <3>1, <3>2, <3>3, PortEdited
  <2>4. QED BY <1>4, <2>1, <2>2, <2>3
            DEF NewTxn, ChanTypes, threadVars, callVars, historyVars
<1>5. CASE NewTxnLen
  <2>1. dir' \in [Dirs -> DirType]
    <3>1. Message("TXN_LEN", h.len) \in Messages /\ "recv" \in Dirs
      BY DEF Message, Messages, Dirs, ChanTypes, HandlerType
    <3>2. QED BY <1>5, <3>1, PushType DEF NewTxnLen
  <2>2. h' \in HandlerType
    BY <1>5 DEF NewTxnLen, Processed, ChanTypes, HandlerType
  <2>3. QED BY <1>5, <2>1, <2>2 DEF NewTxnLen, ChanTypes, threadVars, callVars, fpgaVars, historyVars
<1>6. QED BY <1>1, <1>2, <1>3, <1>4, <1>5 DEF Handler, Events, Dirs

LEMMA FpgaTypes ==
  ASSUME ChanTypes, ListThere, Fpga \/ \E n \in TxnLens : AppSends(n)
  PROVE  ChanTypes'
<1>1. ASSUME NEW e \in Events \ {"recv len"}, Raise(e)
      PROVE  irq' \in IrqType
  BY <1>1 DEF Raise, ChanTypes, IrqType
<1>2. CASE Interrupt
  <2>1. irq' \in IrqType
    BY <1>2 DEF Interrupt, ChanTypes, IrqType
  <2>2. QED BY <1>2, <2>1 DEF Interrupt, ChanTypes, threadVars, callVars, historyVars
<1>3. ASSUME NEW n \in TxnLens, AppSends(n)
      PROVE  ChanTypes'
  <2>1. n \in Nat
    BY ChannelAssumption
  <2>2. port' \in [Dirs -> PortType]
    <3> DEFINE p == [port["recv"] EXCEPT !.st = "new", !.len = n, !.moved = 0,
                                         !.sg = << >>, !.request = 0]
    <3>1. "recv" \in Dirs /\ << >> \in Seq(Nat)
      BY DEF Dirs
    <3>2. port["recv"] \in PortType
      BY <3>1, PortsAre
    <3>3. p \in PortType
      BY <2>1, <3>1, <3>2 DEF PortType
    <3>4. port' = [port EXCEPT !["recv"] = p]
      BY <1>3 DEF AppSends
    <3> HIDE DEF p
    <3>5. QED BY <3>1, <3>3, <3>4, PortEdited
  <2>3. irq' \in IrqType
    BY <1>1, <1>3 DEF AppSends, Events
  <2>4. QED BY <1>3, <2>2, <2>3 DEF AppSends, ChanTypes, threadVars, callVars
<1>4. ASSUME NEW d \in Dirs, FetchSg(d)
      PROVE  ChanTypes'
  <2>1. port[d] \in PortType /\ dir[d] \in DirType
    BY DEF ChanTypes
  <2>2. port[d].sg \o SubSeq(dir[d].buf, 1, port[d].request) \in Seq(Nat)
    <3>1. /\ port[d].sg \in Seq(Nat) /\ dir[d].buf \in Seq(Nat)
          /\ port[d].request = Len(dir[d].buf)
      BY <1>4, <2>1 DEF PortType, DirType, FetchSg, ListThere
    <3>2. SubSeq(dir[d].buf, 1, port[d].request) \in Seq(Nat)
      BY <3>1
    <3>3. QED BY <3>1, <3>2
  <2>3. port' \in [Dirs -> PortType]
    <3> DEFINE sg == port[d].sg \o SubSeq(dir[d].buf, 1, port[d].request)
               r == [port[d] EXCEPT !.sg = sg, !.request = 0]
    <3>1. port' = [port EXCEPT ![d] = r]
      BY <1>4 DEF FetchSg, ChanTypes
    <3> HIDE DEF sg
    <3>2. r \in PortType
      BY <2>1, <2>2 DEF PortType, sg
    <3>3. QED BY <3>1, <3>2 DEF ChanTypes
  <2>4. dir' \in [Dirs -> DirType]
    <3> DEFINE r == [dir[d] EXCEPT !.buf = << >>]
    <3>1. dir' = [dir EXCEPT ![d] = r]
      BY <1>4 DEF FetchSg, ChanTypes
    <3>2. << >> \in Seq(Nat)
      OBVIOUS
    <3>3. r \in DirType
      BY <2>1, <3>2 DEF DirType
    <3>4. QED BY <3>1, <3>3 DEF ChanTypes
  <2>5. irq' \in IrqType
    BY <1>1, <1>4 DEF FetchSg, Events
  <2>6. QED BY <1>4, <2>3, <2>4, <2>5 DEF FetchSg, ChanTypes, threadVars, callVars, historyVars
<1>5. ASSUME NEW d \in Dirs, PortDone(d)
      PROVE  ChanTypes'
  <2>1. port' \in [Dirs -> PortType]
    <3> DEFINE r == [port[d] EXCEPT !.st = "idle", !.doneRead = FALSE, !.doneLen = port[d].len]
    <3>1. port' = [port EXCEPT ![d] = r]
      BY <1>5 DEF PortDone, ChanTypes
    <3>2. r \in PortType
      BY PortsAre DEF PortType
    <3>3. QED BY <3>1, <3>2 DEF ChanTypes
  <2>2. irq' \in IrqType
    BY <1>1, <1>5 DEF PortDone, Events
  <2>3. QED BY <1>5, <2>1, <2>2 DEF PortDone, ChanTypes, threadVars, callVars, historyVars
<1>6. ASSUME NEW d \in Dirs, Moved(d)
      PROVE  /\ port' \in [Dirs -> PortType]
             /\ stray' \subseteq {"one list", "more lists"}
             /\ Head(port[d].sg) \in Nat /\ port[d].moved + 1 \in Nat
  <2>1. port[d] \in PortType /\ port[d].sg # << >>
    BY <1>6 DEF ChanTypes, Moved
  <2>2. Head(port[d].sg) \in Nat /\ Tail(port[d].sg) \in Seq(Nat) /\ port[d].moved + 1 \in Nat
    BY <2>1 DEF PortType
  <2>3. port' \in [Dirs -> PortType]
    <3> DEFINE st == IF port[d].moved + 1 = port[d].len THEN "moved" ELSE port[d].st
               r == [port[d] EXCEPT !.sg = Tail(port[d].sg), !.moved = port[d].moved + 1,
                                    !.st = st]
    <3>1. port' = [port EXCEPT ![d] = r]
      BY <1>6 DEF Moved, ChanTypes
    <3>2. st \in {"idle", "new", "write", "moved"}
      BY <2>1 DEF PortType
    <3> HIDE DEF st
    <3>3. r \in PortType
      BY <2>1, <2>2, <3>2 DEF PortType
    <3>4. QED BY <3>1, <3>3 DEF ChanTypes
  <2>4. QED BY <1>6, <2>2, <2>3 DEF Moved, ChanTypes
<1>7. CASE WritePage
  <2>1. /\ port' \in [Dirs -> PortType]
        /\ stray' \subseteq {"one list", "more lists"}
        /\ port["recv"].moved + 1 \in Nat
    BY <1>6, <1>7 DEF WritePage, Dirs
  <2>2. mem' \in [Pages -> BOOLEAN \X Nat]
    <3>1. \A p \in Pages : <<tag, port["recv"].moved + 1>> \in BOOLEAN \X Nat
      BY <2>1 DEF ChanTypes
    <3>2. QED BY <1>7, <3>1 DEF WritePage, ChanTypes
  <2>3. QED BY <1>7, <2>1, <2>2 DEF WritePage, ChanTypes
<1>8. CASE ReadPage
  <2>1. /\ port' \in [Dirs -> PortType]
        /\ stray' \subseteq {"one list", "more lists"}
        /\ Head(port["send"].sg) \in Nat
    BY <1>6, <1>8 DEF ReadPage, Dirs
  <2>2. took' \in Seq(Nat)
    <3>1. took \in Seq(Nat) /\ took' = Append(took, Head(port["send"].sg))
      BY <1>8 DEF ReadPage, ChanTypes
    <3>2. QED BY <2>1, <3>1, AppendProperties
  <2>3. QED BY <1>8, <2>1, <2>2 DEF ReadPage, ChanTypes
<1>9. QED BY <1>2, <1>3, <1>4, <1>5, <1>7, <1>8 DEF Fpga

LEMMA MessageTaken ==
  ASSUME ChanTypes, NEW pc \in {"message", "finish wait"}, TakeMessage(pc)
  PROVE  t' \in ThreadType /\ dir' \in [Dirs -> DirType]
<1>1. t.dir \in Dirs /\ dir[t.dir] \in DirType
  BY DEF ChanTypes, ThreadType
<1>2. /\ dir[t.dir].msgs \in Seq(Messages) /\ dir[t.dir].msgs # << >>
  BY <1>1 DEF TakeMessage, Msgs, DirType
<1>3. Head(dir[t.dir].msgs) \in Messages /\ Tail(dir[t.dir].msgs) \in Seq(Messages)
  BY <1>2, HeadTailProperties
<1>4. t' \in ThreadType
  BY <1>3 DEF TakeMessage, Msgs, ChanTypes, ThreadType, Pcs
<1>5. dir' \in [Dirs -> DirType]
  BY <1>1, <1>3 DEF TakeMessage, Msgs, ChanTypes, DirType
<1>6. QED BY <1>4, <1>5

\* A list was given, of n pages and s spill elements, and the call goes on.
LEMMA ListTaken ==
  ASSUME ChanTypes, NEW n \in Nat, NEW length \in Nat, NEW overflow \in Nat,
         NEW moved \in Nat, NEW lists \in Nat, NEW map0 \in PageSets
  PROVE  [t EXCEPT !.pc = "pop", !.moved = moved, !.next = t.next + n,
                   !.length = length, !.overflow = overflow, !.lists = lists,
                   !.map0 = map0, !.map1 = Filled(n)] \in ThreadType
<1>1. Filled(n) \in PageSets
  BY ListType DEF ChanTypes
<1>2. t \in ThreadType
  BY DEF ChanTypes
<1>3. t.next + n \in Nat \ {0}
  BY <1>2 DEF ThreadType
<1>4. "pop" \in Pcs
  BY DEF Pcs
<1> DEFINE next == t.next + n
           map1 == Filled(n)
<1> HIDE DEF next, map1
<1>5. next \in Nat \ {0} /\ map1 \in PageSets
  BY <1>1, <1>3 DEF next, map1
<1>6. [t EXCEPT !.pc = "pop", !.moved = moved, !.next = next,
                !.length = length, !.overflow = overflow, !.lists = lists,
                !.map0 = map0, !.map1 = map1] \in ThreadType
  BY <1>2, <1>4, <1>5 DEF ThreadType
<1>7. QED BY <1>6 DEF next, map1

LEMMA WaitTypes ==
  ASSUME ChanTypes, Pop \/ PrepareToWait \/ PopAgain \/ Woken \/ Expire \/ FinishWait
  PROVE  ChanTypes'
<1>1. t.dir \in Dirs
  BY DEF ChanTypes, ThreadType
<1>2. CASE Pop
  <2>1. t' \in ThreadType /\ dir' \in [Dirs -> DirType]
    <3>1. CASE TakeMessage("message")
      BY <3>1, MessageTaken
    <3>2. CASE t' = [t EXCEPT !.pc = "prepare"] /\ dir' = dir
      <4>1. t \in ThreadType /\ dir \in [Dirs -> DirType]
        BY DEF ChanTypes
      <4>2. t' \in ThreadType
        BY <3>2, <4>1 DEF ThreadType, Pcs
      <4>3. QED BY <3>2, <4>1, <4>2
    <3>3. QED BY <1>2, <3>1, <3>2 DEF Pop
  <2>2. QED BY <1>2, <2>1 DEF Pop, ChanTypes, callVars, fpgaVars, historyVars
<1>3. CASE PrepareToWait
  <2>1. t' \in ThreadType
    BY <1>3 DEF PrepareToWait, ChanTypes, ThreadType, Pcs
  <2>2. dir' \in [Dirs -> DirType]
    BY <1>1, <1>3 DEF PrepareToWait, ChanTypes, DirType
  <2>3. QED BY <1>3, <2>1, <2>2 DEF PrepareToWait, ChanTypes, callVars, fpgaVars, historyVars
<1>4. CASE PopAgain
  <2>1. t' \in ThreadType /\ dir' \in [Dirs -> DirType]
    <3>1. CASE TakeMessage("finish wait")
      BY <3>1, MessageTaken
    <3>2. CASE t' = [t EXCEPT !.pc = "asleep", !.nomsg = TRUE] /\ dir' = dir
      BY <3>2 DEF ChanTypes, ThreadType, Pcs
    <3>3. QED BY <1>4, <3>1, <3>2 DEF PopAgain
  <2>2. QED BY <1>4, <2>1 DEF PopAgain, ChanTypes, callVars, fpgaVars, historyVars
<1>5. CASE Woken \/ Expire
  <2>1. "finish wait" \in Pcs
    BY DEF Pcs
  <2>2. t' \in ThreadType
    <3>1. CASE Woken
      BY <2>1, <3>1 DEF Woken, ChanTypes, ThreadType
    <3>2. CASE Expire
      BY <2>1, <3>2 DEF Expire, ChanTypes, ThreadType
    <3>3. QED BY <1>5, <3>1, <3>2
  <2>3. QED BY <1>5, <2>2 DEF Woken, Expire, ChanTypes, callVars, fpgaVars, historyVars
<1>6. CASE FinishWait
  <2>1. dir' \in [Dirs -> DirType]
    <3> DEFINE q == [dir[t.dir] EXCEPT !.waiting = FALSE]
    <3>1. dir[t.dir] \in DirType
      BY <1>1 DEF ChanTypes
    <3>2. q \in DirType
      BY <3>1 DEF DirType
    <3>3. dir' = [dir EXCEPT ![t.dir] = q]
      BY <1>6 DEF FinishWait
    <3> HIDE DEF q
    <3>4. QED BY <1>1, <3>2, <3>3, DirEdited
  <2>2. UNCHANGED <<disabled, h, fpgaVars, historyVars>>
    BY <1>6 DEF FinishWait
  <2>3. CASE \E how, n : Return(how, n)
    <3>1. /\ t' \in ThreadType
          /\ stale' \in BOOLEAN /\ due' \in BOOLEAN
          /\ mem' = mem /\ took' = took
      BY <2>3, ReturnType
    <3>2. QED BY <2>1, <2>2, <3>1 DEF ChanTypes, fpgaVars, historyVars
  <2>4. CASE t' = [t EXCEPT !.pc = IF t.nomsg THEN "pop" ELSE "message"] /\ UNCHANGED callVars
    <3>1. (IF t.nomsg THEN "pop" ELSE "message") \in Pcs
      BY DEF Pcs
    <3>2. t' \in ThreadType
      BY <2>4, <3>1 DEF ChanTypes, ThreadType
    <3>3. QED BY <2>1, <2>2, <2>4, <3>2 DEF ChanTypes, callVars, fpgaVars, historyVars
  <2>5. QED BY <1>6, <2>3, <2>4, Zenon DEF FinishWait
<1>7. QED BY <1>2, <1>3, <1>4, <1>5, <1>6

\* The call has ended, or failed.
LEMMA ReturnTypes ==
  ASSUME ChanTypes, NEW how, NEW n, Return(how, n),
         UNCHANGED <<dir, port, disabled, h, irq, historyVars>>
  PROVE  ChanTypes'
<1>1. /\ t' \in ThreadType
      /\ stale' \in BOOLEAN /\ due' \in BOOLEAN
      /\ mem' = mem /\ took' = took
  BY ReturnType
<1>2. QED BY <1>1 DEF ChanTypes, historyVars

\* A list of the call is given, and the call goes on.
LEMMA GivenTypes ==
  ASSUME ChanTypes, NEW d \in Dirs, NEW n \in Nat, NEW s \in Nat, GiveList(d, n, s),
         t' \in ThreadType, UNCHANGED <<callVars, disabled, h, irq, historyVars>>
  PROVE  ChanTypes'
<1>1. dir' \in [Dirs -> DirType] /\ port' \in [Dirs -> PortType]
  BY GiveType
<1>2. QED BY <1>1 DEF ChanTypes, callVars, historyVars

LEMMA NextListTypes ==
  ASSUME ChanTypes, NEW d \in Dirs, NextList(d),
         UNCHANGED <<disabled, h, irq, historyVars>>
  PROVE  ChanTypes'
<1>1. /\ t.length \in Nat /\ t.overflow \in Nat /\ t.moved \in Nat /\ t.lists \in Nat
      /\ t.map0 \in PageSets /\ t.map1 \in PageSets
  BY DEF ChanTypes, ThreadType
<1>2. t.moved + Cardinality(t.map0) \in Nat
  BY <1>1, FS_CardinalityType DEF PageSets
<1> DEFINE moved == t.moved + Cardinality(t.map0)
<1> HIDE DEF moved
<1>3. moved \in Nat
  BY <1>2 DEF moved
<1>4. CASE t.length = 0 /\ t.overflow = 0
  <2>1. /\ t' = [t EXCEPT !.pc = "pop", !.moved = moved, !.map0 = {}]
        /\ UNCHANGED <<callVars, dir, port>>
    BY <1>4 DEF NextList, moved
  <2>2. t' \in ThreadType
    <3>1. "pop" \in Pcs /\ {} \in PageSets
      BY FS_EmptySet DEF Pcs, PageSets
    <3>2. QED BY <1>3, <2>1, <3>1 DEF ChanTypes, ThreadType
  <2>3. QED BY <2>1, <2>2 DEF ChanTypes, callVars, historyVars
<1>5. ASSUME NEW n \in FillMaps(t.length),
             GiveList(d, n, Spills(n, t.length, t.overflow)),
             t' = [t EXCEPT !.pc = "pop", !.moved = moved, !.next = @ + n, !.length = @ - n,
                            !.overflow = @ - Spills(n, t.length, t.overflow),
                            !.lists = @ + 1, !.map0 = t.map1, !.map1 = Filled(n)],
             UNCHANGED callVars
      PROVE  ChanTypes'
  <2>1. /\ n \in Nat /\ t.length - n \in Nat
        /\ Spills(n, t.length, t.overflow) \in Nat
        /\ t.overflow - Spills(n, t.length, t.overflow) \in Nat
    BY <1>1, Fill
  <2>2. t.lists + 1 \in Nat
    BY <1>1
  <2>3. t' \in ThreadType
    BY <1>1, <1>3, <1>5, <2>1, <2>2, ListTaken
  <2>4. QED BY <1>5, <2>1, <2>3, GivenTypes
<1>6. CASE \E how, n : Return(how, n) /\ UNCHANGED <<dir, port>>
  BY <1>6, ReturnTypes
<1>7. QED BY <1>4, <1>5, <1>6, Zenon DEF NextList, moved

LEMMA ThreadFields ==
  ASSUME t \in ThreadType
  PROVE  /\ t.pc \in Pcs /\ t.dir \in Dirs
         /\ t.length \in Nat /\ t.overflow \in Nat /\ t.cap \in Nat /\ t.moved \in Nat
         /\ t.lists \in Nat /\ t.next \in Nat /\ t.next > 0
         /\ t.map0 \in PageSets /\ t.map1 \in PageSets
         /\ t.msg.val \in Nat
         /\ t.msg \in Messages \/ t.msg.type = "none"
<1>1. t.msg \in Messages \cup {Message("none", 0)}
  BY DEF ThreadType
<1>2. t.msg.val \in Nat
  <2>1. Message("none", 0).val = 0
    BY DEF Message
  <2>2. \A m \in Messages : m.val \in Nat
    BY DEF Messages
  <2>3. QED BY <1>1, <2>1, <2>2
<1>3. t.msg \in Messages \/ t.msg.type = "none"
  BY <1>1 DEF Message
<1>4. QED BY <1>2, <1>3 DEF ThreadType

LEMMA CallTypes ==
  ASSUME ChanTypes, Calls
  PROVE  ChanTypes'
<1>1. ASSUME NEW d \in Dirs, NEW n \in BufLens, Begin(d, n)
      PROVE  /\ t' \in ThreadType /\ mem' \in [Pages -> BOOLEAN \X Nat]
             /\ took' \in Seq(Nat) /\ UNCHANGED <<due, stale>> /\ n \in Nat
  <2>1. n \in Nat
    BY ChannelAssumption
  <2>2. t' \in ThreadType
    <3> DEFINE pc == IF d = "recv" THEN "pop" ELSE "fill"
               length == IF d = "send" THEN n ELSE 0
    <3>1. pc \in Pcs /\ length \in Nat
      BY <2>1 DEF Pcs
    <3>2. t' = [Idle EXCEPT !.pc = pc, !.dir = d, !.cap = n, !.length = length]
      BY <1>1 DEF Begin
    <3> HIDE DEF pc, length
    <3>3. QED BY <2>1, <3>1, <3>2, IdleType DEF ThreadType
  <2>3. mem' \in [Pages -> BOOLEAN \X Nat]
    BY <1>1 DEF Begin, Untouched
  <2>4. took' \in Seq(Nat)
    BY <1>1 DEF Begin
  <2>5. QED BY <1>1, <2>1, <2>2, <2>3, <2>4 DEF Begin
<1>2. ASSUME NEW n \in BufLens, chnl_recv(n)
      PROVE  ChanTypes'
  <2>1. /\ t' \in ThreadType /\ mem' \in [Pages -> BOOLEAN \X Nat]
        /\ took' \in Seq(Nat) /\ UNCHANGED <<due, stale>>
    BY <1>1, <1>2 DEF chnl_recv, Dirs
  <2>2. QED BY <1>2, <2>1 DEF chnl_recv, ChanTypes, fpgaVars, historyVars
<1>3. ASSUME NEW n \in BufLens, chnl_send(n)
      PROVE  ChanTypes'
  <2>1. /\ t' \in ThreadType /\ mem' \in [Pages -> BOOLEAN \X Nat]
        /\ took' \in Seq(Nat) /\ UNCHANGED <<due, stale>> /\ n \in Nat
    BY <1>1, <1>3 DEF chnl_send, Dirs
  <2>2. dir["send"] \in DirType /\ port["send"] \in PortType
    BY DEF ChanTypes, Dirs
  <2>3. dir' \in [Dirs -> DirType]
    <3>1. << >> \in Seq(Messages)
      OBVIOUS
    <3> DEFINE r == [dir["send"] EXCEPT !.msgs = << >>]
    <3>2. dir' = [dir EXCEPT !["send"] = r]
      BY <1>3 DEF chnl_send, ChanTypes
    <3>3. r \in DirType
      BY <2>2, <3>1 DEF DirType
    <3>4. QED BY <3>2, <3>3 DEF ChanTypes
  <2>4. port' \in [Dirs -> PortType]
    <3> DEFINE r == [port["send"] EXCEPT !.st = "write", !.len = n, !.moved = 0,
                                         !.sg = << >>, !.request = 0]
    <3>1. port' = port \/ port' = [port EXCEPT !["send"] = r]
      BY <1>3 DEF chnl_send, ChanTypes
    <3>2. << >> \in Seq(Nat)
      OBVIOUS
    <3>3. r \in PortType
      BY <2>1, <2>2, <3>2 DEF PortType
    <3>4. QED BY <3>1, <3>3 DEF ChanTypes
  <2>5. QED BY <1>3, <2>1, <2>3, <2>4 DEF chnl_send, ChanTypes, historyVars
<1>4. CASE ResetBegin
  <2>1. t' \in ThreadType
    BY <1>4, IdleType DEF ResetBegin, ThreadType, Pcs
  <2>2. QED BY <1>4, <2>1 DEF ResetBegin, ChanTypes, fpgaVars, historyVars
<1>5. QED BY <1>2, <1>3, <1>4 DEF Calls

LEMMA ThreadTypes ==
  ASSUME ChanTypes, Thread
  PROVE  ChanTypes'
<1>1. "recv" \in Dirs /\ "send" \in Dirs
  BY DEF Dirs
<1>2. /\ t \in ThreadType /\ t.length \in Nat /\ t.lists \in Nat /\ t.moved \in Nat
      /\ t.cap \in Nat /\ t.overflow \in Nat /\ t.map0 \in PageSets /\ t.msg.val \in Nat
      /\ t.next \in Nat
  BY ThreadFields DEF ChanTypes
<1>3. "pop" \in Pcs
  BY DEF Pcs
<1>4. CASE SendFill
  <2>1. ASSUME NEW n \in FillMaps(t.length), GiveList("send", n, 0), UNCHANGED callVars,
               t' = [t EXCEPT !.pc = "pop", !.next = @ + n, !.length = @ - n, !.lists = 1,
                              !.map1 = Filled(n)]
        PROVE  ChanTypes'
    <3>1. n \in Nat /\ t.length - n \in Nat
      BY <1>2, Fill
    <3> DEFINE t1 == [t EXCEPT !.pc = "pop", !.moved = t.moved, !.next = t.next + n,
                               !.length = t.length - n, !.overflow = t.overflow, !.lists = 1,
                               !.map0 = t.map0, !.map1 = Filled(n)]
    <3>2. t' = t1
      BY <1>2, <2>1 DEF ThreadType
    <3>3. t1 \in ThreadType
      BY <1>2, <3>1, ListTaken
    <3>4. QED BY <1>1, <1>4, <2>1, <3>1, <3>2, <3>3, GivenTypes DEF SendFill
  <2>2. CASE \E how, n : Return(how, n) /\ UNCHANGED <<dir, port>>
    BY <1>4, <2>2, ReturnTypes DEF SendFill
  <2>3. QED BY <1>4, <2>1, <2>2, Zenon DEF SendFill
<1>5. CASE RecvLen
  <2> DEFINE length == Lower(t.msg.val, t.cap)
             overflow == t.msg.val - length
  <2>1. length \in Nat /\ overflow \in Nat
    <3>1. length \in Nat /\ length <= t.msg.val
      BY <1>2, LowerNat
    <3> HIDE DEF length
    <3>2. QED BY <1>2, <3>1
  <2> HIDE DEF length, overflow
  <2>2. ASSUME NEW n \in FillMaps(length), GiveList("recv", n, Spills(n, length, overflow)),
               UNCHANGED callVars,
               t' = [t EXCEPT !.pc = "pop", !.moved = 0, !.next = @ + n,
                              !.length = length - n,
                              !.overflow = overflow - Spills(n, length, overflow),
                              !.lists = @ + 1, !.map1 = Filled(n)]
        PROVE  ChanTypes'
    <3> DEFINE s == Spills(n, length, overflow)
    <3>1. n \in Nat /\ length - n \in Nat /\ s \in Nat /\ overflow - s \in Nat /\ t.lists + 1 \in Nat
      <4>1. n \in Nat /\ length - n \in Nat /\ s \in Nat /\ overflow - s \in Nat
        BY <2>1, Fill, Zenon
      <4>2. t.lists + 1 \in Nat
        BY <1>2
      <4>3. QED BY <4>1, <4>2
    <3> HIDE DEF s
    <3> DEFINE t1 == [t EXCEPT !.pc = "pop", !.moved = 0, !.next = t.next + n,
                               !.length = length - n, !.overflow = overflow - s,
                               !.lists = t.lists + 1, !.map0 = t.map0, !.map1 = Filled(n)]
    <3>2. t' = t1
      BY <1>2, <2>2 DEF ThreadType, s
    <3>3. t1 \in ThreadType
      BY <1>2, <3>1, ListTaken
    <3>4. GiveList("recv", n, s)
      BY <2>2 DEF s
    <3>5. QED BY <1>1, <1>5, <2>2, <3>1, <3>2, <3>3, <3>4, GivenTypes DEF RecvLen
  <2>3. CASE \E how, n : Return(how, n) /\ UNCHANGED <<dir, port>>
    BY <1>5, <2>3, ReturnTypes DEF RecvLen
  <2>4. QED BY <1>5, <2>2, <2>3, Zenon DEF RecvLen, length, overflow
<1>6. CASE RecvOffLast
  <2>1. t.msg.val \in {-1} \cup Nat
    BY <1>2
  <2>2. t' \in ThreadType
    BY <1>2, <1>3, <1>6, <2>1 DEF RecvOffLast, ThreadType
  <2>3. QED BY <1>6, <2>2 DEF RecvOffLast, ChanTypes, callVars, fpgaVars, historyVars
<1>7. ASSUME NEW d \in Dirs, Ignored(d), UNCHANGED <<disabled, h, irq, historyVars>>
      PROVE  ChanTypes'
  <2>1. t' \in ThreadType
    BY <1>2, <1>3, <1>7 DEF Ignored, ThreadType
  <2>2. QED BY <1>7, <2>1 DEF Ignored, ChanTypes, callVars, historyVars
<1>8. CASE RecvSgBufRead \/ SendSgBufRead
  BY <1>1, <1>7, <1>8, NextListTypes DEF RecvSgBufRead, SendSgBufRead
<1>9. CASE RecvTxnDone \/ SendTxnDone
  BY <1>1, <1>7, <1>9, ReturnTypes DEF RecvTxnDone, SendTxnDone
<1>10. CASE ResetFpga
  <2>1. t' \in ThreadType
    BY <1>2, <1>10 DEF ResetFpga, ThreadType, Pcs
  <2>2. IdlePort \in PortType
    <3>1. << >> \in Seq(Nat)
      OBVIOUS
    <3>2. QED BY <3>1 DEF IdlePort, PortType
  <2>3. QuietIrq \in IrqType
    BY DEF QuietIrq, IrqType
  <2>4. due' \in BOOLEAN
    BY <1>10 DEF ResetFpga, ChanTypes
  <2>5. QED BY <1>10, <2>1, <2>2, <2>3, <2>4 DEF ResetFpga, ChanTypes, historyVars
<1>11. CASE ResetQueues
  <2>1. t' \in ThreadType
    BY <1>2, <1>11 DEF ResetQueues, ThreadType, Pcs
  <2>2. dir' \in [Dirs -> DirType]
    <3>1. << >> \in Seq(Messages)
      OBVIOUS
    <3>2. ASSUME NEW d \in Dirs
          PROVE  [dir[d] EXCEPT !.msgs = << >>, !.waiting = FALSE] \in DirType
      <4>1. dir[d] \in DirType
        BY DEF ChanTypes
      <4>2. QED BY <3>1, <4>1 DEF DirType
    <3>3. QED BY <1>11, <3>2 DEF ResetQueues
  <2>3. QED BY <1>11, <2>1, <2>2 DEF ResetQueues, ChanTypes, fpgaVars, historyVars
<1>12. CASE ResetEnd
  BY <1>12, IdleType DEF ResetEnd, ChanTypes, callVars, fpgaVars, historyVars
<1>13. QED
  BY <1>4, <1>5, <1>6, <1>8, <1>9, <1>10, <1>11, <1>12, WaitTypes DEF Thread

LEMMA StepTypes ==
  ASSUME ChanTypes, ListThere, [ChannelNext]_channelVars
  PROVE  ChanTypes'
<1>1. CASE UNCHANGED channelVars
  BY <1>1 DEF channelVars, ChanTypes
<1>2. QED BY <1>1, ThreadTypes, CallTypes, WaitTypes, HandlerTypes, FpgaTypes DEF ChannelNext

-----------------------------------------------------------------------------
(* The list in the common buffer, and the thread's place.                  *)

LEMMA GivenThere ==
  ASSUME ChanTypes, ListThere, NEW d \in Dirs, NEW n \in Nat, NEW s \in Nat, GiveList(d, n, s)
  PROVE  /\ ListThere'
         /\ Len(dir'[d].buf) = n + s
         /\ \A k \in 1 .. n : dir'[d].buf[k] = t.next + k - 1
         /\ \A k \in 1 .. s : dir'[d].buf[n + k] = Spill
         /\ port'[d] = [port[d] EXCEPT !.request = n + s]
         /\ dir'[d].msgs = dir[d].msgs /\ dir'[d].lost = dir[d].lost
         /\ \A e \in Dirs \ {d} : dir'[e] = dir[e] /\ port'[e] = port[e]
<1> DEFINE buf == [k \in 1 .. n |-> t.next + k - 1] \o [k \in 1 .. s |-> Spill]
<1>1. /\ Len(buf) = n + s
      /\ \A k \in 1 .. n : buf[k] = t.next + k - 1
      /\ \A k \in 1 .. s : buf[n + k] = Spill
  BY ListType DEF ChanTypes
<1>2. dir' = [dir EXCEPT ![d].buf = buf] /\ port' = [port EXCEPT ![d].request = n + s]
  BY DEF GiveList
<1> HIDE DEF buf
<1>3. /\ dir'[d].buf = buf /\ port'[d].request = n + s
      /\ port'[d] = [port[d] EXCEPT !.request = n + s]
      /\ dir'[d].msgs = dir[d].msgs /\ dir'[d].lost = dir[d].lost
      /\ \A e \in Dirs \ {d} : dir'[e] = dir[e] /\ port'[e] = port[e]
  <2>1. /\ dir \in [Dirs -> DirType] /\ port \in [Dirs -> PortType]
        /\ dir[d] \in DirType /\ port[d] \in PortType
    BY DEF ChanTypes
  <2>2. /\ dir' = [dir EXCEPT ![d] = [dir[d] EXCEPT !.buf = buf]]
        /\ port' = [port EXCEPT ![d] = [port[d] EXCEPT !.request = n + s]]
    BY <1>2
  <2>3. /\ dir'[d] = [dir[d] EXCEPT !.buf = buf]
        /\ port'[d] = [port[d] EXCEPT !.request = n + s]
        /\ \A e \in Dirs \ {d} : dir'[e] = dir[e] /\ port'[e] = port[e]
    BY <2>1, <2>2
  <2>4. [dir[d] EXCEPT !.buf = buf].buf = buf
        /\ [dir[d] EXCEPT !.buf = buf].msgs = dir[d].msgs
        /\ [dir[d] EXCEPT !.buf = buf].lost = dir[d].lost
    BY <2>1 DEF DirType
  <2>5. [port[d] EXCEPT !.request = n + s].request = n + s
    BY <2>1 DEF PortType
  <2>6. QED BY <2>3, <2>4, <2>5
<1>4. ListThere'
  BY <1>1, <1>3 DEF ListThere
<1>5. QED BY <1>1, <1>3, <1>4

-----------------------------------------------------------------------------
(* What the steps of the handler and of the FPGA do to a direction.        *)

LEMMA PushEffect ==
  ASSUME ChanTypes, NEW d \in Dirs, NEW m, Push(d, m)
  PROVE  /\ dir'[d].msgs = IF Len(dir[d].msgs) < Place(d) THEN Append(dir[d].msgs, m)
                           ELSE dir[d].msgs
         /\ dir'[d].lost = (dir[d].lost \/ (~stale /\ Len(dir[d].msgs) >= Place(d)))
         /\ dir'[d].buf = dir[d].buf /\ dir'[d].waiting = dir[d].waiting
         /\ \A c \in Dirs \ {d} : dir'[c] = dir[c]
<1> DEFINE msgs == IF Len(dir[d].msgs) < Place(d) THEN Append(dir[d].msgs, m) ELSE dir[d].msgs
           lost == dir[d].lost \/ (~stale /\ Len(dir[d].msgs) >= Place(d))
           r == [dir[d] EXCEPT !.msgs = msgs, !.lost = lost]
<1>1. dir' = [dir EXCEPT ![d] = r]
  BY DEF Push, ChanTypes
<1>2. dir'[d] = r /\ \A c \in Dirs \ {d} : dir'[c] = dir[c]
  BY <1>1 DEF ChanTypes
<1> HIDE DEF msgs, lost
<1>3. r.msgs = msgs /\ r.lost = lost /\ r.buf = dir[d].buf /\ r.waiting = dir[d].waiting
  BY DEF ChanTypes, DirType
<1>4. QED BY <1>2, <1>3 DEF msgs, lost

LEMMA FetchEffect ==
  ASSUME ChanTypes, NEW d \in Dirs, FetchSg(d)
  PROVE  /\ port'[d].sg = port[d].sg \o SubSeq(dir[d].buf, 1, port[d].request)
         /\ port'[d].request = 0 /\ port[d].request > 0
         /\ port'[d].st = port[d].st /\ port'[d].len = port[d].len
         /\ port'[d].moved = port[d].moved
         /\ port'[d].doneLen = port[d].doneLen
         /\ dir'[d].msgs = dir[d].msgs /\ dir'[d].lost = dir[d].lost
         /\ \A c \in Dirs \ {d} : port'[c] = port[c] /\ dir'[c] = dir[c]
         /\ irq'.vect = irq.vect \cup {Event(d, 1)}
<1> DEFINE sg == port[d].sg \o SubSeq(dir[d].buf, 1, port[d].request)
           r == [port[d] EXCEPT !.sg = sg, !.request = 0]
<1>1. port' = [port EXCEPT ![d] = r] /\ dir' = [dir EXCEPT ![d].buf = << >>]
  BY DEF FetchSg, ChanTypes
<1>2. port'[d] = r /\ \A c \in Dirs \ {d} : port'[c] = port[c] /\ dir'[c] = dir[c]
  BY <1>1 DEF ChanTypes
<1>3. dir'[d].msgs = dir[d].msgs /\ dir'[d].lost = dir[d].lost
  BY <1>1 DEF ChanTypes, DirType
<1> HIDE DEF sg
<1>4. /\ r.sg = sg /\ r.request = 0 /\ r.st = port[d].st /\ r.len = port[d].len
      /\ r.moved = port[d].moved /\ r.doneLen = port[d].doneLen
  BY DEF ChanTypes, PortType
<1>5. irq'.vect = irq.vect \cup {Event(d, 1)}
  BY DEF FetchSg, Raise, ChanTypes, IrqType, Event, Dirs
<1>6. port[d].request > 0
  BY DEF FetchSg
<1>7. QED BY <1>2, <1>3, <1>4, <1>5, <1>6 DEF sg

LEMMA MovedEffect ==
  ASSUME ChanTypes, NEW d \in Dirs, Moved(d)
  PROVE  /\ port[d].st = "write" /\ port[d].sg # << >>
         /\ port'[d].sg = Tail(port[d].sg) /\ port'[d].moved = port[d].moved + 1
         /\ port'[d].st = IF port[d].moved + 1 = port[d].len THEN "moved" ELSE "write"
         /\ port'[d].request = port[d].request /\ port'[d].len = port[d].len
         /\ port'[d].doneLen = port[d].doneLen
         /\ \A c \in Dirs \ {d} : port'[c] = port[c]
<1> DEFINE st == IF port[d].moved + 1 = port[d].len THEN "moved" ELSE port[d].st
           sg == Tail(port[d].sg)
           moved == port[d].moved + 1
           r == [port[d] EXCEPT !.sg = sg, !.moved = moved, !.st = st]
<1>1. port' = [port EXCEPT ![d] = r]
  BY DEF Moved, ChanTypes
<1>2. port'[d] = r /\ \A c \in Dirs \ {d} : port'[c] = port[c]
  BY <1>1 DEF ChanTypes
<1>3. port[d].st = "write" /\ port[d].sg # << >>
  BY DEF Moved
<1> HIDE DEF st, sg, moved
<1>4. /\ r.sg = sg /\ r.moved = moved /\ r.st = st /\ r.request = port[d].request
      /\ r.len = port[d].len /\ r.doneLen = port[d].doneLen
  BY DEF ChanTypes, PortType
<1>5. QED BY <1>2, <1>3, <1>4 DEF st, sg, moved

LEMMA DoneEffect ==
  ASSUME ChanTypes, NEW d \in Dirs, PortDone(d)
  PROVE  /\ port[d].st = "moved" /\ port'[d].st = "idle"
         /\ port'[d].doneLen = port[d].len
         /\ port'[d].sg = port[d].sg /\ port'[d].moved = port[d].moved
         /\ port'[d].request = port[d].request /\ port'[d].len = port[d].len
         /\ \A c \in Dirs \ {d} : port'[c] = port[c]
         /\ irq'.vect = irq.vect \cup {Event(d, 2)}
<1> DEFINE r == [port[d] EXCEPT !.st = "idle", !.doneRead = FALSE, !.doneLen = port[d].len]
<1>1. port' = [port EXCEPT ![d] = r] /\ port[d].st = "moved"
  BY DEF PortDone, ChanTypes
<1>2. port'[d] = r /\ \A c \in Dirs \ {d} : port'[c] = port[c]
  BY <1>1 DEF ChanTypes
<1>3. /\ r.st = "idle" /\ r.doneLen = port[d].len /\ r.sg = port[d].sg
      /\ r.moved = port[d].moved /\ r.request = port[d].request /\ r.len = port[d].len
  BY DEF ChanTypes, PortType
<1>4. irq'.vect = irq.vect \cup {Event(d, 2)}
  <2> DEFINE e == IF d = "recv" THEN "recv done" ELSE "send done"
  <2>1. irq' = [irq EXCEPT !.vect = @ \cup {e}]
    BY DEF PortDone, Raise
  <2>2. e = Event(d, 2)
    BY DEF Event, Dirs
  <2> HIDE DEF e
  <2>3. QED BY <2>1, <2>2 DEF ChanTypes, IrqType
<1>5. QED BY <1>1, <1>2, <1>3, <1>4

LEMMA SendsEffect ==
  ASSUME ChanTypes, NEW n \in TxnLens, AppSends(n)
  PROVE  /\ port["recv"].st = "idle" /\ n \in Nat \ {0}
         /\ port'["recv"].st = "new" /\ port'["recv"].len = n /\ port'["recv"].moved = 0
         /\ port'["recv"].sg = << >> /\ port'["recv"].request = 0
         /\ port'["recv"].doneLen = port["recv"].doneLen
         /\ port'["send"] = port["send"]
         /\ irq'.vect = irq.vect \cup {"recv txn"}
<1> DEFINE r == [port["recv"] EXCEPT !.st = "new", !.len = n, !.moved = 0, !.sg = << >>,
                                     !.request = 0]
<1>1. port' = [port EXCEPT !["recv"] = r]
  BY DEF AppSends, ChanTypes
<1>2. port'["recv"] = r /\ port'["send"] = port["send"]
  BY <1>1 DEF ChanTypes, Dirs
<1>3. /\ r.st = "new" /\ r.len = n /\ r.moved = 0 /\ r.sg = << >> /\ r.request = 0
      /\ r.doneLen = port["recv"].doneLen
  BY DEF ChanTypes, PortType, Dirs
<1>4. irq'.vect = irq.vect \cup {"recv txn"} /\ port["recv"].st = "idle"
  BY DEF AppSends, Raise, ChanTypes, IrqType
<1>5. n \in Nat \ {0}
  BY ChannelAssumption
<1>6. QED BY <1>2, <1>3, <1>4, <1>5

\* The call of chnl_send empties its queue, and a port without a transaction takes it.
LEMMA CallsSendEffect ==
  ASSUME ChanTypes, NEW n \in BufLens, chnl_send(n)
  PROVE  /\ port'["recv"] = port["recv"] /\ dir'["recv"] = dir["recv"]
         /\ dir'["send"].msgs = << >> /\ dir'["send"].buf = dir["send"].buf
         /\ dir'["send"].lost = dir["send"].lost
         /\ port'["send"].doneLen = port["send"].doneLen
         /\ port["send"].st # "idle" => port' = port
         /\ port["send"].st = "idle" =>
              /\ port'["send"].st = "write" /\ port'["send"].len = n
              /\ port'["send"].moved = 0 /\ port'["send"].sg = << >>
              /\ port'["send"].request = 0
<1> DEFINE r == [port["send"] EXCEPT !.st = "write", !.len = n, !.moved = 0,
                                     !.sg = << >>, !.request = 0]
<1>1. dir' = [dir EXCEPT !["send"].msgs = << >>]
  BY DEF chnl_send
<1>2. /\ dir'["recv"] = dir["recv"]
      /\ dir'["send"].msgs = << >> /\ dir'["send"].buf = dir["send"].buf
      /\ dir'["send"].lost = dir["send"].lost
  BY <1>1 DEF ChanTypes, Dirs, DirType
<1>3. IF port["send"].st # "idle" THEN port' = port ELSE port' = [port EXCEPT !["send"] = r]
  BY DEF chnl_send, ChanTypes
<1>4. /\ port'["recv"] = port["recv"]
      /\ port["send"].st = "idle" => port'["send"] = r
      /\ port["send"].st # "idle" => port' = port
  BY <1>3 DEF ChanTypes, Dirs
<1>5. /\ r.st = "write" /\ r.len = n /\ r.moved = 0 /\ r.sg = << >> /\ r.request = 0
      /\ r.doneLen = port["send"].doneLen
  BY DEF ChanTypes, PortType, Dirs
<1>6. QED BY <1>2, <1>4, <1>5

\* Of the rest, the thread's steps take messages, and wait.
LEMMA WaitEffect ==
  ASSUME ChanTypes, Pop \/ PrepareToWait \/ PopAgain \/ FinishWait \/ Woken \/ Expire
  PROVE  \A d \in Dirs : dir'[d].buf = dir[d].buf /\ dir'[d].lost = dir[d].lost
<1>1. t.dir \in Dirs
  BY DEF ChanTypes, ThreadType
<1>2. dir' = dir \/ (\E m : dir' = [dir EXCEPT ![t.dir].msgs = m])
        \/ (\E w : dir' = [dir EXCEPT ![t.dir].waiting = w])
  BY DEF Pop, PrepareToWait, PopAgain, FinishWait, TakeMessage, Woken, Expire
<1>3. ASSUME NEW m, dir' = [dir EXCEPT ![t.dir].msgs = m], NEW d \in Dirs
      PROVE  dir'[d].buf = dir[d].buf /\ dir'[d].lost = dir[d].lost
  BY <1>1, <1>3 DEF ChanTypes, DirType
<1>4. ASSUME NEW w, dir' = [dir EXCEPT ![t.dir].waiting = w], NEW d \in Dirs
      PROVE  dir'[d].buf = dir[d].buf /\ dir'[d].lost = dir[d].lost
  BY <1>1, <1>4 DEF ChanTypes, DirType
<1>5. QED BY <1>2, <1>3, <1>4

\* A step that neither writes a list nor asks for one.
LEMMA SameThere ==
  ASSUME ListThere,
         \A d \in Dirs : /\ port'[d].request \in {0, port[d].request}
                         /\ port'[d].request # 0 => dir'[d].buf = dir[d].buf
  PROVE  ListThere'
  BY DEF ListThere

LEMMA StepThere ==
  ASSUME ChanTypes, ListThere, [ChannelNext]_channelVars
  PROVE  ListThere'
<1>1. /\ \A d \in Dirs : dir[d] \in DirType /\ port[d] \in PortType
      /\ "recv" \in Dirs /\ "send" \in Dirs
  BY DEF ChanTypes, Dirs
<1>2. CASE UNCHANGED port /\ \A d \in Dirs : dir'[d].buf = dir[d].buf
  BY <1>2, SameThere
<1>3. ASSUME NEW d \in Dirs, NEW m, Push(d, m), \A c \in Dirs : port'[c].request = port[c].request
      PROVE  ListThere'
  <2>1. \A c \in Dirs : dir'[c].buf = dir[c].buf
    BY <1>3, PushEffect
  <2>2. QED BY <1>3, <2>1, SameThere
<1>4. CASE Handler
  <2>1. CASE HandlerEnter \/ HandlerRead
    BY <1>2, <2>1 DEF HandlerEnter, HandlerRead
  <2>2. CASE HandlerReturn
    BY <1>1, <1>2, <2>2 DEF HandlerReturn, DirType, fpgaVars
  <2>3. ASSUME NEW d \in Dirs, NEW e, SgBufRead(d, e)
        PROVE  ListThere'
    BY <1>3, <2>3 DEF SgBufRead, fpgaVars
  <2>4. ASSUME NEW d \in Dirs, NEW e, TxnDone(d, e)
        PROVE  ListThere'
    <3>1. \A c \in Dirs : port'[c].request = port[c].request
      BY <1>1, <2>4 DEF TxnDone, ChanTypes, PortType
    <3>2. QED BY <1>3, <2>4, <3>1 DEF TxnDone
  <2>5. CASE NewTxn
    <3>1. \A c \in Dirs : port'[c].request = port[c].request
      BY <1>1, <2>5 DEF NewTxn, ChanTypes, PortType
    <3>2. QED BY <1>1, <1>3, <2>5, <3>1 DEF NewTxn
  <2>6. CASE NewTxnLen
    BY <1>1, <1>3, <2>6 DEF NewTxnLen, fpgaVars
  <2>7. QED BY <1>1, <1>4, <2>1, <2>2, <2>3, <2>4, <2>5, <2>6 DEF Handler
<1>5. CASE Fpga
  <2>1. CASE Interrupt
    BY <1>2, <2>1 DEF Interrupt
  <2>2. ASSUME NEW d \in Dirs, FetchSg(d)
        PROVE  ListThere'
    <3>1. /\ port'[d].request = 0
          /\ \A c \in Dirs \ {d} : port'[c] = port[c] /\ dir'[c] = dir[c]
      BY <2>2, FetchEffect
    <3>2. QED BY <3>1, SameThere
  <2>3. ASSUME NEW d \in Dirs, Moved(d) \/ PortDone(d), UNCHANGED dir
        PROVE  ListThere'
    <3>1. \A c \in Dirs : port'[c].request = port[c].request
      BY <2>3, MovedEffect, DoneEffect
    <3>2. QED BY <2>3, <3>1, SameThere
  <2>4. QED BY <1>1, <1>5, <2>1, <2>2, <2>3 DEF Fpga, WritePage, ReadPage, PortDone
<1>6. ASSUME NEW n \in TxnLens, AppSends(n)
      PROVE  ListThere'
  <2>1. dir' = dir
    BY <1>6 DEF AppSends
  <2>2. \A c \in Dirs : port'[c].request \in {0, port[c].request}
    BY <1>6, SendsEffect DEF Dirs
  <2>3. QED BY <2>1, <2>2, SameThere
<1>7. ASSUME NEW c \in Dirs, NEW n \in Nat, NEW s \in Nat, GiveList(c, n, s)
      PROVE  ListThere'
  BY <1>7, GivenThere
<1>8. CASE Pop \/ PrepareToWait \/ PopAgain \/ FinishWait \/ Woken \/ Expire
  <2>1. \A d \in Dirs : dir'[d].buf = dir[d].buf
    BY <1>8, WaitEffect
  <2>2. port' = port
    BY <1>8 DEF Pop, PrepareToWait, PopAgain, FinishWait, Woken, Expire, fpgaVars
  <2>3. QED BY <1>2, <2>1, <2>2
<1>9. CASE Calls
  <2>1. CASE ResetBegin \/ \E n \in BufLens : chnl_recv(n)
    BY <1>2, <2>1 DEF ResetBegin, chnl_recv, fpgaVars
  <2>2. ASSUME NEW n \in BufLens, chnl_send(n)
        PROVE  ListThere'
    <3>1. \A d \in Dirs : /\ port'[d].request \in {0, port[d].request}
                          /\ dir'[d].buf = dir[d].buf
      BY <2>2, CallsSendEffect DEF Dirs
    <3>2. QED BY <3>1, SameThere
  <2>3. QED BY <1>9, <2>1, <2>2 DEF Calls
<1>10. /\ t.length \in Nat /\ t.overflow \in Nat /\ t.msg.val \in Nat /\ t.cap \in Nat
  BY ThreadFields DEF ChanTypes
<1>11. ASSUME NEW length \in Nat, NEW overflow \in Nat, NEW d \in Dirs,
              NEW n \in FillMaps(length), GiveList(d, n, Spills(n, length, overflow))
       PROVE  ListThere'
  BY <1>7, <1>11, Fill
<1>12. CASE SendFill
  <2>1. CASE UNCHANGED <<dir, port>>
    BY <1>2, <2>1
  <2>2. ASSUME NEW n \in FillMaps(t.length), GiveList("send", n, 0)
        PROVE  ListThere'
    BY <1>1, <1>7, <1>10, <2>2, Fill
  <2>3. QED BY <1>12, <2>1, <2>2, Zenon DEF SendFill
<1>13. CASE RecvLen
  <2> DEFINE length == Lower(t.msg.val, t.cap)
             overflow == t.msg.val - length
  <2>1. length \in Nat /\ overflow \in Nat
    <3>1. length \in Nat /\ length <= t.msg.val
      BY <1>10, LowerNat
    <3> HIDE DEF length
    <3>2. QED BY <1>10, <3>1
  <2> HIDE DEF length, overflow
  <2>2. CASE UNCHANGED <<dir, port>>
    BY <1>2, <2>2
  <2>3. ASSUME NEW n \in FillMaps(length), GiveList("recv", n, Spills(n, length, overflow))
        PROVE  ListThere'
    BY <1>1, <1>11, <2>1, <2>3
  <2>4. QED BY <1>13, <2>2, <2>3, Zenon DEF RecvLen, length, overflow
<1>14. CASE RecvSgBufRead \/ SendSgBufRead
  <2>1. CASE UNCHANGED <<dir, port>>
    BY <1>2, <2>1
  <2>2. ASSUME NEW d \in Dirs, NEW n \in FillMaps(t.length),
               GiveList(d, n, Spills(n, t.length, t.overflow))
        PROVE  ListThere'
    BY <1>10, <1>11, <2>2
  <2>3. ASSUME NEW d \in Dirs, NextList(d)
        PROVE  ListThere'
    BY <2>1, <2>2, <2>3, Zenon DEF NextList
  <2>4. QED BY <1>1, <1>14, <2>1, <2>3, Zenon DEF RecvSgBufRead, SendSgBufRead, Ignored
<1>15. CASE RecvOffLast \/ RecvTxnDone \/ SendTxnDone \/ ResetEnd
  BY <1>2, <1>15 DEF RecvOffLast, RecvTxnDone, SendTxnDone, ResetEnd, Ignored, fpgaVars
<1>16. CASE ResetFpga
  <2>1. \A c \in Dirs : port'[c].request = 0
    BY <1>16 DEF ResetFpga, IdlePort
  <2>2. QED BY <2>1, SameThere
<1>17. CASE ResetQueues
  <2>1. \A c \in Dirs : dir'[c].buf = dir[c].buf /\ port' = port
    BY <1>1, <1>17 DEF ResetQueues, DirType, fpgaVars
  <2>2. QED BY <2>1, SameThere
<1>18. CASE UNCHANGED channelVars
  BY <1>2, <1>18 DEF channelVars
<1>19. QED
  BY <1>4, <1>5, <1>6, <1>8, <1>9, <1>12, <1>13, <1>14, <1>15, <1>16, <1>17, <1>18
     DEF ChannelNext, Thread

Still == {"idle", "reset fpga", "reset queues", "reset end"}

\* What the thread's place asks of its other fields.
PlaceRight(x) ==
  /\ x.pc \in Still => x.dir = "recv" /\ x.lists = 0 /\ x.last = -1
  /\ x.pc = "asleep" => x.nomsg
  /\ x.pc = "fill" => x.dir = "send" /\ x.lists = 0 /\ x.length = x.cap /\ x.overflow = 0
  /\ x.lists <= 1 => x.map1 = 1 .. x.next - 1
  /\ x.lists = 0 => x.next = 1
  /\ x.pc \notin Still => x.cap \in BufLens

LEMMA IdleRight ==
  /\ PlaceRight(Idle)
  /\ \A pc \in Still : PlaceRight([Idle EXCEPT !.pc = pc])
<1>1. {} = 1 .. 1 - 1
  OBVIOUS
<1>2. QED BY <1>1 DEF Idle, PlaceRight, Still

LEMMA ThreadRightSplit ==
  ThreadRight <=> /\ PlaceRight(t)
                  /\ h.pc # "work" => h.vect = {}
                  /\ Resetting => disabled
  BY DEF ThreadRight, PlaceRight, Still

\* A step within a call that leaves its pages alone.
LEMMA SamePlace ==
  ASSUME PlaceRight(t), t.pc \notin Still, t'.pc \notin Still \cup {"fill"},
         t'.pc = "asleep" => t'.nomsg,
         t'.lists = t.lists, t'.next = t.next, t'.map1 = t.map1, t'.cap = t.cap
  PROVE  PlaceRight(t')
  BY DEF PlaceRight

LEMMA HandlerPlace ==
  ASSUME ChanTypes, ThreadRight, Handler
  PROVE  ThreadRight'
<1>1. CASE HandlerEnter \/ HandlerRead \/ HandlerReturn
  <2>1. t' = t /\ disabled' = disabled
    BY <1>1 DEF HandlerEnter, HandlerRead, HandlerReturn, threadVars
  <2>2. h'.pc # "work" => h'.vect = {}
    BY <1>1 DEF HandlerEnter, HandlerRead, HandlerReturn, ThreadRight, ChanTypes, HandlerType
  <2>3. QED BY <2>1, <2>2 DEF ThreadRight, Resetting
<1>2. ASSUME h.pc = "work", h'.pc = "work", t' = t, disabled' = disabled
      PROVE  ThreadRight'
  BY <1>2 DEF ThreadRight, Resetting
<1>3. ASSUME NEW e, First(e), Processed(e)
      PROVE  h.pc = "work" /\ h'.pc = "work"
  BY <1>3 DEF First, Processed, ChanTypes, HandlerType
<1>4. CASE NewTxn
  BY <1>2, <1>4 DEF NewTxn, First, ChanTypes, HandlerType, threadVars
<1>5. QED
  BY <1>1, <1>2, <1>3, <1>4 DEF Handler, SgBufRead, TxnDone, NewTxnLen, threadVars

LEMMA WaitPlace ==
  ASSUME ChanTypes, PlaceRight(t),
         Pop \/ PrepareToWait \/ PopAgain \/ FinishWait \/ Woken \/ Expire
  PROVE  PlaceRight(t')
<1>1. t \in ThreadType
  BY DEF ChanTypes
<1>2. CASE \E how, n : Return(how, n)
  BY <1>2, IdleRight DEF Return
<1>3. t.pc \notin Still
  BY DEF Pop, PrepareToWait, PopAgain, FinishWait, Woken, Expire, At, Still
<1>4. CASE ~ \E how, n : Return(how, n)
  <2>1. /\ t'.lists = t.lists /\ t'.next = t.next /\ t'.map1 = t.map1 /\ t'.cap = t.cap
        /\ t'.pc \notin Still \cup {"fill"}
        /\ t'.pc = "asleep" => t'.nomsg
    <3>1. CASE Pop \/ PrepareToWait
      <4>1. CASE TakeMessage("message")
        BY <1>1, <4>1 DEF TakeMessage, ThreadType, Still
      <4>2. CASE t' = [t EXCEPT !.pc = "prepare"] \/ t' = [t EXCEPT !.pc = "pop again"]
        BY <1>1, <4>2 DEF ThreadType, Still
      <4>3. QED BY <3>1, <4>1, <4>2 DEF Pop, PrepareToWait
    <3>2. CASE PopAgain
      <4>1. CASE TakeMessage("finish wait")
        BY <1>1, <4>1 DEF TakeMessage, ThreadType, Still
      <4>2. CASE t' = [t EXCEPT !.pc = "asleep", !.nomsg = TRUE]
        BY <1>1, <4>2 DEF ThreadType, Still
      <4>3. QED BY <3>2, <4>1, <4>2 DEF PopAgain
    <3>3. CASE Woken \/ Expire
      BY <1>1, <3>3 DEF Woken, Expire, ThreadType, Still
    <3>4. CASE FinishWait
      <4>1. t' = [t EXCEPT !.pc = IF t.nomsg THEN "pop" ELSE "message"]
        BY <1>4, <3>4, Zenon DEF FinishWait
      <4>2. QED BY <1>1, <4>1 DEF ThreadType, Still
    <3>5. QED BY <3>1, <3>2, <3>3, <3>4
  <2>2. QED BY <1>3, <2>1, SamePlace
<1>5. QED BY <1>2, <1>4

LEMMA CallPlace ==
  ASSUME ChanTypes, PlaceRight(t), Calls
  PROVE  PlaceRight(t')
<1>1. ASSUME NEW d \in Dirs, NEW n \in BufLens, Begin(d, n)
      PROVE  PlaceRight(t')
  <2>1. {} = 1 .. 1 - 1
    OBVIOUS
  <2>2. QED BY <1>1, <2>1 DEF Begin, Idle, PlaceRight, Still, Dirs
<1>2. CASE ResetBegin
  BY <1>2, IdleRight DEF ResetBegin, Still
<1>3. QED BY <1>1, <1>2 DEF Calls, chnl_recv, chnl_send, Dirs

LEMMA ThreadPlace ==
  ASSUME ChanTypes, PlaceRight(t), Thread
  PROVE  PlaceRight(t')
<1>1. /\ t \in ThreadType
      /\ t.length \in Nat /\ t.overflow \in Nat /\ t.msg.val \in Nat /\ t.cap \in Nat
      /\ t.lists \in Nat /\ t.next \in Nat
  BY ThreadFields DEF ChanTypes
<1>2. CASE \E how, n : Return(how, n)
  BY <1>2, IdleRight DEF Return
\* The list is the call's first, or it is not.
<1>3. ASSUME NEW n \in Nat, t.pc \notin Still,
             t'.pc = "pop", t'.cap = t.cap, t'.next = t.next + n, t'.map1 = Filled(n),
             t'.lists = t.lists + 1
      PROVE  PlaceRight(t')
  <2>1. t.lists = 0 => t.next = 1
    BY DEF PlaceRight
  <2>2. t'.lists <= 1 => t'.map1 = 1 .. t'.next - 1
    <3>1. CASE t.lists = 0
      <4>1. t.next = 1 /\ t'.next = 1 + n
        BY <1>3, <2>1, <3>1
      <4>2. Filled(n) = 1 .. 1 + n - 1
        BY <4>1 DEF Filled
      <4>3. QED BY <1>3, <4>1, <4>2
    <3>2. QED BY <1>1, <1>3, <3>1
  <2>3. t.cap \in BufLens /\ t'.lists # 0
    BY <1>1, <1>3 DEF PlaceRight
  <2>4. QED BY <1>3, <2>2, <2>3 DEF PlaceRight, Still
<1>4. CASE SendFill /\ ~ \E how, n : Return(how, n)
  <2>1. PICK n \in FillMaps(t.length) :
               t' = [t EXCEPT !.pc = "pop", !.next = @ + n, !.length = @ - n, !.lists = 1,
                              !.map1 = Filled(n)]
    BY <1>4, Zenon DEF SendFill
  <2>2. n \in Nat /\ t.pc = "fill" /\ t.lists = 0
    BY <1>1, <1>4, Fill DEF SendFill, At, PlaceRight
  <2>3. /\ t'.pc = "pop" /\ t'.cap = t.cap /\ t'.next = t.next + n /\ t'.map1 = Filled(n)
        /\ t'.lists = 1
    BY <1>1, <2>1 DEF ThreadType
  <2>4. QED BY <1>3, <2>2, <2>3 DEF Still
<1>5. CASE RecvLen /\ ~ \E how, n : Return(how, n)
  <2> DEFINE length == Lower(t.msg.val, t.cap)
             overflow == t.msg.val - length
  <2>1. length \in Nat
    BY <1>1, LowerNat
  <2> HIDE DEF length, overflow
  <2>2. PICK n \in FillMaps(length) :
               t' = [t EXCEPT !.pc = "pop", !.moved = 0, !.next = @ + n,
                              !.length = length - n,
                              !.overflow = overflow - Spills(n, length, overflow),
                              !.lists = @ + 1, !.map1 = Filled(n)]
    BY <1>5, Zenon DEF RecvLen, length, overflow
  <2>3. /\ t'.pc = "pop" /\ t'.cap = t.cap /\ t'.next = t.next + n /\ t'.map1 = Filled(n)
        /\ t'.lists = t.lists + 1
    BY <1>1, <2>2 DEF ThreadType
  <2>4. n \in Nat /\ t.pc = "message"
    <3>1. 0 \in Nat
      OBVIOUS
    <3>2. QED BY <1>5, <2>1, <2>2, <3>1, Fill DEF RecvLen, MessageIs, At
  <2>5. QED BY <1>3, <2>3, <2>4 DEF Still
<1>6. ASSUME NEW d, Ignored(d), t.pc = "message"
      PROVE  PlaceRight(t')
  <2>1. /\ t'.lists = t.lists /\ t'.next = t.next /\ t'.map1 = t.map1 /\ t'.cap = t.cap
        /\ t'.pc = "pop"
    BY <1>1, <1>6 DEF Ignored, ThreadType
  <2>2. QED BY <1>6, <2>1, SamePlace DEF Still
<1>7. ASSUME NEW d, NextList(d), t.pc = "message", ~ \E how, n : Return(how, n)
      PROVE  PlaceRight(t')
  <2>1. CASE t.length = 0 /\ t.overflow = 0
    <3>1. t' = [t EXCEPT !.pc = "pop", !.moved = @ + Cardinality(t.map0), !.map0 = {}]
      BY <1>7, <2>1 DEF NextList
    <3>2. /\ t'.lists = t.lists /\ t'.next = t.next /\ t'.map1 = t.map1 /\ t'.cap = t.cap
          /\ t'.pc = "pop"
      BY <1>1, <3>1 DEF ThreadType
    <3>3. QED BY <1>7, <3>2, SamePlace DEF Still
  <2>2. CASE ~(t.length = 0 /\ t.overflow = 0)
    <3>1. PICK n \in FillMaps(t.length) :
               t' = [t EXCEPT !.pc = "pop", !.moved = @ + Cardinality(t.map0),
                              !.next = @ + n, !.length = @ - n,
                              !.overflow = @ - Spills(n, t.length, t.overflow),
                              !.lists = @ + 1, !.map0 = t.map1, !.map1 = Filled(n)]
      BY <1>7, <2>2, Zenon DEF NextList
    <3>2. /\ t'.pc = "pop" /\ t'.cap = t.cap /\ t'.next = t.next + n /\ t'.map1 = Filled(n)
          /\ t'.lists = t.lists + 1
      BY <1>1, <3>1 DEF ThreadType
    <3>3. n \in Nat
      BY <1>1, <3>1, Fill
    <3>4. QED BY <1>3, <1>7, <3>2, <3>3 DEF Still
  <2>3. QED BY <2>1, <2>2
<1>8. CASE RecvOffLast
  <2>1. /\ t'.lists = t.lists /\ t'.next = t.next /\ t'.map1 = t.map1 /\ t'.cap = t.cap
        /\ t'.pc = "pop" /\ t.pc = "message"
    BY <1>1, <1>8 DEF RecvOffLast, MessageIs, At, ThreadType
  <2>2. QED BY <2>1, SamePlace DEF Still
<1>9. CASE RecvSgBufRead \/ RecvTxnDone \/ SendSgBufRead \/ SendTxnDone
  BY <1>2, <1>6, <1>7, <1>9, Zenon
     DEF RecvSgBufRead, RecvTxnDone, SendSgBufRead, SendTxnDone, MessageIs, At
<1>10. CASE ResetFpga \/ ResetQueues
  <2>1. t.pc \in Still /\ t'.pc \in Still
    BY <1>1, <1>10 DEF ResetFpga, ResetQueues, At, ThreadType, Still
  <2>2. /\ t'.dir = t.dir /\ t'.lists = t.lists /\ t'.next = t.next /\ t'.map1 = t.map1
          /\ t'.last = t.last
    BY <1>1, <1>10 DEF ResetFpga, ResetQueues, ThreadType
  <2>3. QED BY <2>1, <2>2 DEF PlaceRight, Still
<1>11. CASE ResetEnd
  BY <1>11, IdleRight DEF ResetEnd, Idle, PlaceRight, Still
<1>12. QED BY <1>2, <1>4, <1>5, <1>8, <1>9, <1>10, <1>11, WaitPlace DEF Thread

LEMMA StepPlace ==
  ASSUME ChanTypes, ThreadRight, [ChannelNext]_channelVars
  PROVE  ThreadRight'
<1>1. PlaceRight(t) /\ t \in ThreadType
  BY ThreadRightSplit DEF ChanTypes
<1>2. ASSUME h' = h, PlaceRight(t'), Resetting' => disabled'
      PROVE  ThreadRight'
  BY <1>2 DEF ThreadRight, PlaceRight, Still
<1>3. CASE Handler
  BY <1>3, HandlerPlace
<1>4. CASE Fpga \/ (\E n \in TxnLens : AppSends(n)) \/ UNCHANGED channelVars
  <2>1. t' = t /\ h' = h /\ disabled' = disabled
    BY <1>4 DEF Fpga, Interrupt, FetchSg, PortDone, WritePage, ReadPage, AppSends,
                threadVars, channelVars
  <2>2. QED BY <2>1 DEF ThreadRight, Resetting
<1>5. CASE Calls
  <2>1. h' = h
    BY <1>5 DEF Calls, chnl_recv, chnl_send, ResetBegin
  <2>2. Resetting' => disabled'
    <3>1. CASE ResetBegin
      BY <3>1 DEF ResetBegin
    <3>2. ASSUME NEW d \in Dirs, NEW n, Begin(d, n)
          PROVE  t'.pc \in {"pop", "fill"}
      BY <3>2 DEF Begin, Idle
    <3>3. ASSUME NEW n \in BufLens, chnl_recv(n) \/ chnl_send(n)
          PROVE  t'.pc \in {"pop", "fill"}
      BY <3>2, <3>3 DEF chnl_recv, chnl_send, Dirs
    <3>4. QED BY <1>5, <3>1, <3>3 DEF Calls, Resetting
  <2>3. QED BY <1>1, <1>2, <1>5, <2>1, <2>2, CallPlace
<1>6. CASE Thread \/ Expire
  <2>1. h' = h
    BY <1>6 DEF Thread, SendFill, Pop, PrepareToWait, PopAgain, Woken, FinishWait, RecvOffLast,
                RecvLen, RecvSgBufRead, RecvTxnDone, SendSgBufRead, SendTxnDone, ResetFpga,
                ResetQueues, ResetEnd, Expire
  <2>2. PlaceRight(t')
    BY <1>1, <1>6, ThreadPlace, WaitPlace
  <2>3. Resetting' => disabled'
    <3>1. CASE ResetFpga \/ ResetQueues
      BY <3>1 DEF ResetFpga, ResetQueues, At, Resetting, ThreadRight
    <3>2. CASE ResetEnd
      BY <3>2 DEF ResetEnd, Idle, Resetting
    <3>3. CASE \E how, n : Return(how, n)
      BY <3>3 DEF Return, Idle, Resetting
    <3>4. CASE t'.pc \in {"prepare", "pop again", "finish wait", "message", "asleep", "pop"}
      BY <3>4 DEF Resetting
    <3>5. QED
      <4>1. CASE Pop \/ PopAgain
        BY <1>1, <3>4, <4>1 DEF Pop, PopAgain, TakeMessage, ThreadType
      <4>2. CASE PrepareToWait \/ Woken \/ Expire \/ RecvOffLast
        BY <1>1, <3>4, <4>2 DEF PrepareToWait, Woken, Expire, RecvOffLast, ThreadType
      <4>3. CASE SendFill \/ RecvLen
        BY <1>1, <3>3, <3>4, <4>3 DEF SendFill, RecvLen, ThreadType
      <4>4. CASE FinishWait
        BY <1>1, <3>3, <3>4, <4>4 DEF FinishWait, ThreadType
      <4>5. CASE RecvSgBufRead \/ RecvTxnDone \/ SendSgBufRead \/ SendTxnDone
        BY <1>1, <3>3, <3>4, <4>5 DEF RecvSgBufRead, RecvTxnDone, SendSgBufRead, SendTxnDone,
                                      Ignored, NextList, ThreadType
      <4>6. QED BY <1>6, <3>1, <3>2, <3>3, <4>1, <4>2, <4>3, <4>4, <4>5 DEF Thread
  <2>4. QED BY <1>2, <2>1, <2>2, <2>3
<1>7. QED BY <1>3, <1>4, <1>5, <1>6 DEF ChannelNext

-----------------------------------------------------------------------------
(* The events on their way: what the steps do to the stages they pass.     *)

LEMMA Names ==
  /\ \A r, s \in Ranks : Type(r) = Type(s) => r = s
  /\ \A r \in Ranks : Type(r) # "none"
  /\ \A m \in Messages : \E r \in Ranks : m.type = Type(r)
  /\ \A r, s \in Ranks : Event("recv", r) = Event("recv", s) => r = s
  /\ \A r, s \in 1 .. 2 : Event("send", r) = Event("send", s) => r = s
  /\ \A r, s \in Ranks : Event("recv", r) # Event("send", s)
  /\ \A r \in Ranks : Event("recv", r) \in Events
  /\ \A r \in Ranks : Event("send", r) \in Events <=> r \in 1 .. 2
  /\ "recv" \in Dirs /\ "send" \in Dirs /\ "recv" # "send"
  /\ 1 \in Ranks /\ 2 \in Ranks /\ 3 \in Ranks /\ 4 \in Ranks
  /\ Event("recv", 4) = "recv len" /\ Event("recv", 3) = "recv txn"
  BY DEF Ranks, Type, Messages, Event, Events, Dirs

\* An event of a vector is one of a direction.
LEMMA InVector ==
  ASSUME ChanTypes, NEW d \in Dirs, NEW r \in Ranks, InH(d, r) \/ InI(d, r)
  PROVE  d = "send" => r \in 1 .. 2
  BY Names DEF ChanTypes, HandlerType, IrqType, InH, InI, Dirs

\* The order of process_intr_vector is that of the ranks.
LEMMA OrderPlaces ==
  /\ Len(Order) = 6
  /\ \A j \in 1 .. 6 : \A e : e = Order[j] => (CHOOSE i \in 1 .. Len(Order) : Order[i] = e) = j
  /\ Order[1] = "recv sg" /\ Order[2] = "recv done" /\ Order[3] = "recv txn"
  /\ Order[4] = "recv len" /\ Order[5] = "send sg" /\ Order[6] = "send done"
<1>1. Len(Order) = 6
  BY DEF Order
<1>2. /\ Order[1] = "recv sg" /\ Order[2] = "recv done" /\ Order[3] = "recv txn"
      /\ Order[4] = "recv len" /\ Order[5] = "send sg" /\ Order[6] = "send done"
  BY DEF Order
<1>3. \A i, j \in 1 .. 6 : Order[i] = Order[j] => i = j
  <2>1. \A i \in 1 .. 6 : i = 1 \/ i = 2 \/ i = 3 \/ i = 4 \/ i = 5 \/ i = 6
    OBVIOUS
  <2>2. QED BY <1>2, <2>1
<1>4. ASSUME NEW j \in 1 .. 6, NEW e, e = Order[j]
      PROVE  (CHOOSE i \in 1 .. Len(Order) : Order[i] = e) = j
  <2>1. \E i \in 1 .. Len(Order) : Order[i] = e
    BY <1>1, <1>4
  <2> DEFINE c == CHOOSE i \in 1 .. Len(Order) : Order[i] = e
  <2>2. c \in 1 .. Len(Order) /\ Order[c] = e
    BY <2>1
  <2> HIDE DEF c
  <2>3. c = j
    BY <1>1, <1>3, <1>4, <2>2
  <2>4. QED BY <2>3 DEF c
<1>5. QED BY <1>1, <1>2, <1>4

LEMMA EventPlaces ==
  /\ \A s \in Ranks : Event("recv", s) = Order[s]
  /\ \A s \in 1 .. 2 : Event("send", s) = Order[s + 4]
<1>1. /\ \A s \in Ranks : s = 1 \/ s = 2 \/ s = 3 \/ s = 4
      /\ \A s \in 1 .. 2 : s = 1 \/ s = 2
  BY DEF Ranks
<1>2. /\ Order[1] = "recv sg" /\ Order[2] = "recv done" /\ Order[3] = "recv txn"
      /\ Order[4] = "recv len" /\ Order[5] = "send sg" /\ Order[6] = "send done"
  BY OrderPlaces
<1>3. /\ Event("recv", 1) = "recv sg" /\ Event("recv", 2) = "recv done"
      /\ Event("recv", 3) = "recv txn" /\ Event("recv", 4) = "recv len"
      /\ Event("send", 1) = "send sg" /\ Event("send", 2) = "send done"
  BY DEF Event
<1>4. \A s \in Ranks : Event("recv", s) = Order[s]
  BY <1>1, <1>2, <1>3
<1>5. \A s \in 1 .. 2 : Event("send", s) = Order[s + 4]
  <2>1. 1 + 4 = 5 /\ 2 + 4 = 6
    OBVIOUS
  <2>2. QED BY <1>1, <1>2, <1>3, <2>1
<1>6. QED BY <1>4, <1>5

LEMMA FirstRank ==
  ASSUME ChanTypes, NEW d \in Dirs, NEW r \in Ranks, First(Event(d, r))
  PROVE  /\ h.pc = "work" /\ InH(d, r)
         /\ \A s \in Ranks : InH(d, s) => r <= s
<1>1. h.pc = "work" /\ InH(d, r)
  BY DEF First, InH
<1>2. ASSUME NEW j \in 1 .. 6, NEW k \in 1 .. 6, Event(d, r) = Order[j], Order[k] \in h.vect
      PROVE  k >= j
  <2>1. (CHOOSE i \in 1 .. Len(Order) : Order[i] = Event(d, r)) = j
    BY <1>2, OrderPlaces
  <2>2. k \in 1 .. Len(Order)
    BY OrderPlaces
  <2>3. QED BY <1>2, <2>1, <2>2 DEF First
<1>3. CASE d = "recv"
  <2>1. \A s \in Ranks : s \in 1 .. 6 /\ Event(d, s) = Order[s]
    BY <1>3, EventPlaces DEF Ranks
  <2>2. ASSUME NEW s \in Ranks, InH(d, s)
        PROVE  r <= s
    BY <1>2, <2>1, <2>2 DEF InH, Ranks
  <2>3. QED BY <1>1, <2>2
<1>4. CASE d = "send"
  <2>1. \A s \in 1 .. 2 : s + 4 \in 1 .. 6 /\ Event(d, s) = Order[s + 4]
    BY <1>4, EventPlaces
  <2>2. \A s \in Ranks : InH(d, s) => s \in 1 .. 2
    BY <1>4, InVector
  <2>3. ASSUME NEW s \in Ranks, InH(d, s)
        PROVE  r <= s
    <3>1. r \in 1 .. 2 /\ s \in 1 .. 2
      BY <1>1, <2>2, <2>3
    <3>2. s + 4 >= r + 4
      BY <1>2, <2>1, <2>3, <3>1 DEF InH
    <3>3. QED BY <3>1, <3>2
  <2>4. QED BY <1>1, <2>3
<1>5. QED BY <1>1, <1>3, <1>4 DEF Dirs

\* What one stage holds of a direction is what it held.
SameStages(d) ==
  /\ dir'[d].msgs = dir[d].msgs
  /\ \A r \in Ranks : /\ InT(d, r)' <=> InT(d, r)
                      /\ InH(d, r)' <=> InH(d, r)
                      /\ InI(d, r)' <=> InI(d, r)

LEMMA SameStream ==
  ASSUME NEW d \in Dirs, SameStages(d), InOrder(d)
  PROVE  /\ InOrder(d)'
         /\ \A r \in Ranks : Out(d, r)' <=> Out(d, r)
<1>1. \A r \in Ranks : InQ(d, r)' <=> InQ(d, r)
  BY DEF SameStages, InQ
<1>2. \A r \in Ranks : Out(d, r)' <=> Out(d, r)
  BY <1>1 DEF SameStages, Out
<1>3. 3 \in Ranks /\ 4 \in Ranks
  BY Names
<1>4. InOrder(d)'
  BY <1>1, <1>2, <1>3 DEF InOrder, SameStages
<1>5. QED BY <1>2, <1>4

\* The thread holds what it held.
LEMMA SameHeld ==
  ASSUME NEW d \in Dirs, Holding' <=> Holding, Holding => t'.dir = t.dir /\ t'.msg = t.msg,
         UNCHANGED <<h, irq>>, dir'[d].msgs = dir[d].msgs
  PROVE  SameStages(d)
  BY DEF SameStages, InT, InH, InI

\* The handler reads the vector.
LEMMA ReadStream ==
  ASSUME ChanTypes, ThreadRight, HandlerRead, NEW d \in Dirs, InOrder(d)
  PROVE  /\ InOrder(d)'
         /\ \A r \in Ranks : Out(d, r)' <=> Out(d, r)
<1>1. h.vect = {} /\ h'.vect = irq.vect /\ irq'.vect = {} /\ t' = t /\ dir' = dir
  BY DEF HandlerRead, ThreadRight, ChanTypes, HandlerType, threadVars
<1>2. \A r \in Ranks : /\ ~InH(d, r) /\ (InH(d, r)' <=> InI(d, r)) /\ ~InI(d, r)'
                       /\ InT(d, r)' <=> InT(d, r)
                       /\ InQ(d, r)' <=> InQ(d, r)
  BY <1>1 DEF InT, InQ, InH, InI, Holding
<1>3. \A r \in Ranks : Out(d, r)' <=> Out(d, r)
  BY <1>2 DEF Out
<1>4. \A r, s \in Ranks :
        /\ InT(d, r)' /\ (InQ(d, s)' \/ InH(d, s)' \/ InI(d, s)') => r < s
        /\ InQ(d, r)' /\ (InH(d, s)' \/ InI(d, s)') => r < s
        /\ InH(d, r)' /\ InI(d, s)' => r < s
  BY <1>2 DEF InOrder
<1>5. InOrder(d)'
  <2>1. dir'[d].msgs = dir[d].msgs
    BY <1>1
  <2>2. \A j, k \in 1 .. Len(dir'[d].msgs) : \A r, s \in Ranks :
          j < k /\ dir'[d].msgs[j].type = Type(r) /\ dir'[d].msgs[k].type = Type(s) => r < s
    BY <2>1 DEF InOrder
  <2>3. 3 \in Ranks /\ 4 \in Ranks
    BY Names
  <2>4. d = "send" => ~Out(d, 3)' /\ ~Out(d, 4)'
    BY <1>3, <2>3 DEF InOrder
  <2>5. QED BY <1>4, <2>2, <2>4 DEF InOrder
<1>6. QED BY <1>3, <1>5

\* An event has its own name.
LEMMA EventOne ==
  ASSUME NEW d \in Dirs, NEW r \in Ranks, d = "send" => r <= 2
  PROVE  \A s \in Ranks : Event(d, s) = Event(d, r) => s = r
<1>1. \A s \in Ranks : s = 1 \/ s = 2 \/ s = 3 \/ s = 4
  BY DEF Ranks
<1>2. CASE d = "recv"
  BY <1>2, Names
<1>3. CASE d = "send"
  <2>1. /\ Event("send", 1) = "send sg" /\ Event("send", 2) = "send done"
        /\ Event("send", 3) = "none" /\ Event("send", 4) = "none"
    BY DEF Event
  <2>2. r = 1 \/ r = 2
    BY <1>3 DEF Ranks
  <2>3. QED BY <1>1, <1>3, <2>1, <2>2
<1>4. QED BY <1>2, <1>3 DEF Dirs

\* The FPGA raises an event that everything outstanding precedes.
LEMMA RaiseStream ==
  ASSUME ChanTypes, NEW d \in Dirs, NEW r \in Ranks, d = "send" => r <= 2,
         InOrder(d), \A s \in Ranks : Out(d, s) => s < r,
         t' = t, h' = h, dir'[d].msgs = dir[d].msgs,
         irq'.vect = irq.vect \cup {Event(d, r)}
  PROVE  /\ InOrder(d)'
         /\ \A s \in Ranks : Out(d, s)' <=> Out(d, s) \/ s = r
<1>1. \A s \in Ranks : /\ InT(d, s)' <=> InT(d, s)
                       /\ InQ(d, s)' <=> InQ(d, s)
                       /\ InH(d, s)' <=> InH(d, s)
  BY DEF InT, InQ, InH, Holding
<1>2. \A s \in Ranks : InI(d, s)' <=> InI(d, s) \/ s = r
  BY EventOne DEF InI
<1>3. \A s \in Ranks : Out(d, s)' <=> Out(d, s) \/ s = r
  BY <1>1, <1>2 DEF Out
<1>4. \A q, s \in Ranks :
        /\ InT(d, q)' /\ (InQ(d, s)' \/ InH(d, s)' \/ InI(d, s)') => q < s
        /\ InQ(d, q)' /\ (InH(d, s)' \/ InI(d, s)') => q < s
        /\ InH(d, q)' /\ InI(d, s)' => q < s
  BY <1>1, <1>2 DEF InOrder, Out
<1>5. d = "send" => ~Out(d, 3)' /\ ~Out(d, 4)'
  <2>1. d = "send" => r # 3 /\ r # 4 /\ ~Out(d, 3) /\ ~Out(d, 4)
    BY DEF InOrder, Ranks
  <2>2. 3 \in Ranks /\ 4 \in Ranks
    BY Names
  <2>3. QED BY <1>3, <2>1, <2>2
<1>6. InOrder(d)'
  BY <1>4, <1>5 DEF InOrder
<1>7. QED BY <1>3, <1>6

\* The other direction does not see it.
LEMMA RaiseApart ==
  ASSUME ChanTypes, NEW d \in Dirs, NEW c \in Dirs, c # d, NEW r \in Ranks, d = "send" => r <= 2,
         t' = t, h' = h, dir'[c].msgs = dir[c].msgs,
         irq'.vect = irq.vect \cup {Event(d, r)}
  PROVE  SameStages(c)
<1>1. \A s \in Ranks : Event(c, s) # Event(d, r)
  BY Names DEF Dirs
<1>2. QED BY <1>1 DEF SameStages, InT, InH, InI, Holding

\* A sequence whose ranks rise, from one to another, is no longer than they allow.
LEMMA RisingLen ==
  ASSUME NEW d \in Dirs, dir[d].msgs \in Seq(Messages), InOrder(d),
         NEW lo \in Ranks, NEW hi \in 0 .. 4,
         \A r \in Ranks : InQ(d, r) => lo <= r /\ r <= hi
  PROVE  Len(dir[d].msgs) <= IF lo > hi THEN 0 ELSE hi - lo + 1
<1> DEFINE q == dir[d].msgs
           n == Len(q)
<1>1. n \in Nat /\ \A k \in 1 .. n : q[k] \in Messages
  OBVIOUS
<1>2. \A k \in 1 .. n : \E r \in Ranks : q[k].type = Type(r) /\ lo <= r /\ r <= hi
  BY <1>1, Names DEF InQ
<1>3. \A j, k \in 1 .. n : \A r, s \in Ranks :
        j < k /\ q[j].type = Type(r) /\ q[k].type = Type(s) => r < s
  BY DEF InOrder
<1> HIDE DEF n, q
<1>4. ASSUME n > 0
      PROVE  \E r \in Ranks : q[1].type = Type(r) /\ lo <= r /\ r <= hi
  BY <1>1, <1>2, <1>4
<1>5. ASSUME n > 1
      PROVE  \E r \in Ranks : q[2].type = Type(r) /\ lo + 1 <= r /\ r <= hi
  <2>1. PICK r \in Ranks : q[1].type = Type(r) /\ lo <= r /\ r <= hi
    BY <1>1, <1>4, <1>5
  <2>2. PICK s \in Ranks : q[2].type = Type(s) /\ lo <= s /\ s <= hi
    BY <1>1, <1>2, <1>5
  <2>3. r < s
    BY <1>1, <1>3, <1>5, <2>1, <2>2
  <2>4. QED BY <2>1, <2>2, <2>3 DEF Ranks
<1>6. ASSUME n > 2
      PROVE  \E r \in Ranks : q[3].type = Type(r) /\ lo + 2 <= r /\ r <= hi
  <2>1. PICK r \in Ranks : q[2].type = Type(r) /\ lo + 1 <= r /\ r <= hi
    BY <1>1, <1>5, <1>6
  <2>2. PICK s \in Ranks : q[3].type = Type(s) /\ lo <= s /\ s <= hi
    BY <1>1, <1>2, <1>6
  <2>3. r < s
    BY <1>1, <1>3, <1>6, <2>1, <2>2
  <2>4. QED BY <2>1, <2>2, <2>3 DEF Ranks
<1>7. ASSUME n > 3
      PROVE  \E r \in Ranks : q[4].type = Type(r) /\ lo + 3 <= r /\ r <= hi
  <2>1. PICK r \in Ranks : q[3].type = Type(r) /\ lo + 2 <= r /\ r <= hi
    BY <1>1, <1>6, <1>7
  <2>2. PICK s \in Ranks : q[4].type = Type(s) /\ lo <= s /\ s <= hi
    BY <1>1, <1>2, <1>7
  <2>3. r < s
    BY <1>1, <1>3, <1>7, <2>1, <2>2
  <2>4. QED BY <2>1, <2>2, <2>3 DEF Ranks
<1>8. n <= 4
  <2>1. SUFFICES ASSUME n > 4 PROVE FALSE
    BY <1>1
  <2>2. PICK r \in Ranks : q[4].type = Type(r) /\ lo + 3 <= r /\ r <= hi
    BY <1>1, <1>7, <2>1
  <2>3. PICK s \in Ranks : q[5].type = Type(s) /\ lo <= s /\ s <= hi
    BY <1>1, <1>2, <2>1
  <2>4. r < s
    BY <1>1, <1>3, <2>1, <2>2, <2>3
  <2>5. QED BY <2>2, <2>3, <2>4 DEF Ranks
<1>9. n <= IF lo > hi THEN 0 ELSE hi - lo + 1
  BY <1>1, <1>4, <1>5, <1>6, <1>7, <1>8 DEF Ranks
<1>10. QED BY <1>9 DEF n, q

\* The queues of the driver are long enough (five and four places of which one
\* stays free, riffa_driver.c).
Places == RecvPlaces >= 4 /\ SendPlaces >= 2

LEMMA PushFits ==
  ASSUME ChanTypes, Places, NEW d \in Dirs, NEW r \in Ranks, InOrder(d), InH(d, r)
  PROVE  Len(dir[d].msgs) < Place(d) /\ Len(dir[d].msgs) <= r - 1
<1>1. dir[d].msgs \in Seq(Messages)
  BY DEF ChanTypes, DirType
<1>2. \A s \in Ranks : InQ(d, s) => 1 <= s /\ s <= r - 1
  BY DEF InOrder, Ranks
<1>3. r - 1 \in 0 .. 4 /\ 1 \in Ranks
  BY DEF Ranks
<1>4. Len(dir[d].msgs) <= r - 1
  <2>1. Len(dir[d].msgs) <= IF 1 > r - 1 THEN 0 ELSE r - 1 - 1 + 1
    BY <1>1, <1>2, <1>3, RisingLen
  <2>2. QED BY <1>1, <1>3, <2>1 DEF Ranks
<1>5. d = "send" => r <= 2
  BY InVector
<1>6. RecvPlaces \in Nat /\ SendPlaces \in Nat /\ Len(dir[d].msgs) \in Nat
  BY <1>1, ChannelAssumption
<1>7. Len(dir[d].msgs) < Place(d)
  BY <1>4, <1>5, <1>6 DEF Place, Places, Ranks, Dirs
<1>8. QED BY <1>4, <1>7

\* A message is appended.
LEMMA Appended ==
  ASSUME NEW q \in Seq(Messages), NEW m \in Messages
  PROVE  /\ Len(Append(q, m)) = Len(q) + 1
         /\ \A k \in 1 .. Len(q) : Append(q, m)[k] = q[k]
         /\ Append(q, m)[Len(q) + 1] = m
  BY AppendProperties

\* The handler pushes the first event of its vector, and M takes its place there: the
\* length after the last flag.
Pushes(d, r, m, M) ==
  /\ First(Event(d, r)) /\ Push(d, m) /\ m.type = Type(r)
  /\ M = {} \/ (d = "recv" /\ r = 3 /\ M = {"recv len"})
  /\ t' = t /\ irq' = irq /\ h'.vect = (h.vect \ {Event(d, r)}) \cup M

LEMMA PushStream ==
  ASSUME ChanTypes, Places, NEW d \in Dirs, NEW r \in Ranks, NEW m \in Messages, NEW M,
         InOrder(d), Pushes(d, r, m, M)
  PROVE  /\ InOrder(d)'
         /\ \A s \in Ranks : Out(d, s)' <=> Out(d, s) \/ (M # {} /\ s = 4)
         /\ \A c \in Dirs \ {d} : SameStages(c)
         /\ dir'[d].msgs = Append(dir[d].msgs, m) /\ dir'[d].lost = dir[d].lost
<1> DEFINE q == dir[d].msgs
           n == Len(q)
<1>1. q \in Seq(Messages)
  BY DEF ChanTypes, DirType
<1>2. n \in Nat
  BY <1>1
<1>3. h.pc = "work" /\ InH(d, r) /\ \A s \in Ranks : InH(d, s) => r <= s
  BY FirstRank DEF Pushes
<1>4. n < Place(d)
  BY <1>3, PushFits
<1>5. /\ dir'[d].msgs = Append(q, m) /\ dir'[d].lost = dir[d].lost
      /\ \A c \in Dirs \ {d} : dir'[c] = dir[c]
  <2>1. Place(d) \in Nat
    BY ChannelAssumption DEF Place
  <2>2. ~(n >= Place(d))
    BY <1>2, <1>4, <2>1
  <2>3. dir[d].lost \in BOOLEAN
    BY DEF ChanTypes, DirType
  <2>4. QED BY <1>4, <2>2, <2>3, PushEffect DEF Pushes
<1>6. /\ Len(Append(q, m)) = n + 1 /\ Append(q, m)[n + 1] = m
      /\ \A k \in 1 .. n : Append(q, m)[k] = q[k]
  BY <1>1, Appended
<1>7. /\ \A s \in Ranks : InQ(d, s) <=> \E k \in 1 .. n : q[k].type = Type(s)
      /\ InOrder(d) => \A j, k \in 1 .. n : \A a, b \in Ranks :
                         j < k /\ q[j].type = Type(a) /\ q[k].type = Type(b) => a < b
  BY DEF InQ, InOrder
<1> HIDE DEF n, q
<1>8. d = "send" => r <= 2
  BY <1>3, InVector
<1>9. /\ \A k \in 1 .. n + 1 : k \in 1 .. n \/ k = n + 1
      /\ n + 1 \in 1 .. n + 1 /\ \A k \in 1 .. n : k \in 1 .. n + 1
      /\ \A j, k \in 1 .. n + 1 : j < k => j \in 1 .. n
  BY <1>2
<1>10. ASSUME NEW s \in Ranks
       PROVE  InQ(d, s)' <=> InQ(d, s) \/ s = r
  <2>1. InQ(d, s)' <=> \E k \in 1 .. n + 1 : Append(q, m)[k].type = Type(s)
    BY <1>5, <1>6 DEF InQ
  <2>2. m.type = Type(s) <=> s = r
    BY Names DEF Pushes
  <2>3. QED BY <1>6, <1>7, <1>9, <2>1, <2>2
<1>11. ASSUME NEW s \in Ranks
       PROVE  InH(d, s)' <=> (InH(d, s) /\ s # r) \/ (M # {} /\ s = 4)
  <2>1. Event(d, s) = Event(d, r) <=> s = r
    BY <1>8, EventOne
  <2>2. d = "recv" => (Event(d, s) = "recv len" <=> s = 4)
    BY Names
  <2>3. QED BY <2>1, <2>2 DEF InH, Pushes
<1>12. \A s \in Ranks : (InT(d, s)' <=> InT(d, s)) /\ (InI(d, s)' <=> InI(d, s))
  BY DEF InT, InI, Holding, Pushes
<1>13. ASSUME NEW s \in Ranks
       PROVE  Out(d, s)' <=> Out(d, s) \/ (M # {} /\ s = 4)
  BY <1>3, <1>10, <1>11, <1>12 DEF Out
<1>14. \A j, k \in 1 .. Len(dir'[d].msgs) : \A a, b \in Ranks :
        j < k /\ dir'[d].msgs[j].type = Type(a) /\ dir'[d].msgs[k].type = Type(b) => a < b
  <2>1. SUFFICES ASSUME NEW j \in 1 .. n + 1, NEW k \in 1 .. n + 1, NEW a \in Ranks, NEW b \in Ranks,
                        j < k, Append(q, m)[j].type = Type(a), Append(q, m)[k].type = Type(b)
                 PROVE  a < b
    BY <1>5, <1>6
  <2>2. j \in 1 .. n /\ q[j].type = Type(a)
    BY <1>6, <1>9, <2>1
  <2>3. CASE k = n + 1
    <3>1. b = r
      <4>1. Append(q, m)[k] = m
        BY <1>6, <2>3
      <4>2. Type(b) = Type(r)
        BY <2>1, <4>1 DEF Pushes
      <4>3. QED BY <4>2, Names
    <3>2. InQ(d, a)
      BY <1>7, <2>2
    <3>3. QED BY <1>3, <3>1, <3>2 DEF InOrder
  <2>4. CASE k # n + 1
    <3>1. k \in 1 .. n /\ q[k].type = Type(b)
      BY <1>6, <1>9, <2>1, <2>4
    <3>2. QED BY <1>7, <2>1, <2>2, <3>1
  <2>5. QED BY <2>3, <2>4
<1>15. /\ \A a, s \in Ranks : a <= s /\ s # a => a < s
       /\ \A a \in Ranks : a < 3 => a < 4
       /\ \A s \in Ranks : 3 < s => s = 4
       /\ \A a, b \in Ranks : a < b => a # b
  BY DEF Ranks
<1>16. M # {} => /\ \A s \in Ranks : ~InI(d, s)
                 /\ \A a \in Ranks : InT(d, a) \/ InQ(d, a) \/ a = r => a < 4
  <2>1. SUFFICES ASSUME M # {}, d = "recv", r = 3
                 PROVE  /\ \A s \in Ranks : ~InI(d, s)
                        /\ \A a \in Ranks : InT(d, a) \/ InQ(d, a) \/ a = r => a < 4
    BY DEF Pushes
  <2>2. ~InI(d, 4)
    BY <2>1, Names DEF InI, ChanTypes, IrqType
  <2>3. \A s \in Ranks : InI(d, s) => 3 < s
    BY <1>3, <2>1 DEF InOrder
  <2>4. \A a \in Ranks : InT(d, a) \/ InQ(d, a) => a < 3
    BY <1>3, <2>1 DEF InOrder
  <2>5. QED BY <1>15, <2>1, <2>2, <2>3, <2>4
<1>17. \A a, s \in Ranks :
        /\ InT(d, a)' /\ (InQ(d, s)' \/ InH(d, s)' \/ InI(d, s)') => a < s
        /\ InQ(d, a)' /\ (InH(d, s)' \/ InI(d, s)') => a < s
        /\ InH(d, a)' /\ InI(d, s)' => a < s
  BY <1>3, <1>10, <1>11, <1>12, <1>15, <1>16 DEF InOrder
<1>18. d = "send" => ~Out(d, 3)' /\ ~Out(d, 4)'
  BY <1>13, Names DEF InOrder, Pushes
<1>19. \A c \in Dirs \ {d} : SameStages(c)
  <2>1. SUFFICES ASSUME NEW c \in Dirs \ {d}, NEW s \in Ranks
                 PROVE  InH(c, s)' <=> InH(c, s)
    BY <1>5, <1>12 DEF SameStages, InT, InI, Holding, Pushes
  <2>2. Event(c, s) # Event(d, r)
    BY Names DEF Dirs
  <2>3. M # {} => M = {"recv len"} /\ Event(c, s) # "recv len"
    BY Names DEF Dirs, Pushes
  <2>4. QED BY <2>2, <2>3 DEF InH, Pushes
<1>20. InOrder(d)'
  BY <1>14, <1>17, <1>18 DEF InOrder
<1>21. QED BY <1>5, <1>13, <1>19, <1>20 DEF q

\* The thread takes the first message of its direction's queue.
Takes(pc) ==
  /\ TakeMessage(pc) /\ pc \in {"message", "finish wait"}
  /\ t.pc \in {"pop", "pop again"} /\ UNCHANGED <<h, irq, port>>

LEMMA TakeStream ==
  ASSUME ChanTypes, NEW pc, Takes(pc),
         NEW d \in Dirs, InOrder(d), Told(d)
  PROVE  /\ InOrder(d)' /\ Told(d)'
         /\ \A s \in Ranks : Out(d, s)' <=> Out(d, s)
         /\ dir'[d].buf = dir[d].buf /\ dir'[d].lost = dir[d].lost
         /\ t' = [t EXCEPT !.pc = pc, !.msg = Head(Msgs), !.nomsg = FALSE]
<1> DEFINE q == dir[d].msgs
           n == Len(q)
<1>1. q \in Seq(Messages)
  BY DEF ChanTypes, DirType
<1>2. n \in Nat
  BY <1>1
<1>3. /\ t' = [t EXCEPT !.pc = pc, !.msg = Head(Msgs), !.nomsg = FALSE]
      /\ dir' = [dir EXCEPT ![t.dir].msgs = Tail(@)] /\ Msgs # << >>
  BY DEF Takes, TakeMessage
<1>4. t'.dir = t.dir /\ t'.msg = Head(Msgs) /\ Holding' /\ ~Holding /\ t.dir \in Dirs
  BY <1>3 DEF ChanTypes, ThreadType, Holding, Takes
<1>5. /\ dir'[d].buf = dir[d].buf /\ dir'[d].lost = dir[d].lost
      /\ d # t.dir => dir'[d].msgs = q
      /\ d = t.dir => dir'[d].msgs = Tail(q) /\ q # << >> /\ t'.msg = Head(q)
  BY <1>3, <1>4 DEF ChanTypes, DirType, Msgs
<1>6. CASE d # t.dir
  <2>1. SameStages(d)
    BY <1>4, <1>5, <1>6 DEF SameStages, InT, InH, InI, Takes
  <2>2. Told(d)'
    BY <1>4, <1>5, <1>6 DEF Told, ValueRight, Takes
  <2>3. QED BY <1>3, <1>5, <2>1, <2>2, SameStream
<1>7. CASE d = t.dir
  <2>1. /\ dir'[d].msgs = Tail(q) /\ t'.msg = Head(q)
        /\ Len(Tail(q)) = n - 1 /\ \A k \in 1 .. n - 1 : Tail(q)[k] = q[k + 1]
        /\ Head(q) = q[1] /\ n > 0
    <3>1. q # << >>
      BY <1>5, <1>7
    <3>2. /\ Len(Tail(q)) = n - 1 /\ \A k \in 1 .. Len(Tail(q)) : Tail(q)[k] = q[k + 1]
      BY <1>1, <3>1, HeadTailProperties
    <3>3. Head(q) = q[1] /\ n > 0
      BY <1>1, <3>1
    <3>4. QED BY <1>5, <1>7, <3>2, <3>3
  <2>2. /\ \A s \in Ranks : InQ(d, s) <=> \E k \in 1 .. n : q[k].type = Type(s)
        /\ \A j, k \in 1 .. n : \A a, b \in Ranks :
             j < k /\ q[j].type = Type(a) /\ q[k].type = Type(b) => a < b
        /\ \A k \in 1 .. n : ValueRight(d, q[k])
    BY DEF InQ, InOrder, Told
  <2> HIDE DEF n, q
  <2>3. /\ \A k \in 1 .. n : k = 1 \/ k - 1 \in 1 .. n - 1
        /\ \A k \in 1 .. n - 1 : k + 1 \in 1 .. n
        /\ \A j, k \in 1 .. n - 1 : j < k => j + 1 < k + 1
        /\ \A k \in 1 .. n - 1 : 1 < k + 1 /\ (k + 1) - 1 = k
        /\ \A k \in 1 .. n : (k - 1) + 1 = k
        /\ 1 \in 1 .. n
    BY <1>2, <2>1
  <2>4. ASSUME NEW s \in Ranks
        PROVE  /\ ~InT(d, s)
               /\ InT(d, s)' <=> q[1].type = Type(s)
               /\ InQ(d, s)' <=> \E k \in 1 .. n - 1 : q[k + 1].type = Type(s)
               /\ InH(d, s)' <=> InH(d, s)
               /\ InI(d, s)' <=> InI(d, s)
    BY <1>4, <1>7, <2>1 DEF InT, InQ, InH, InI, Takes
  <2>5. ASSUME NEW s \in Ranks
        PROVE  InQ(d, s) <=> InT(d, s)' \/ InQ(d, s)'
    BY <2>2, <2>3, <2>4
  <2>6. \A s \in Ranks : Out(d, s)' <=> Out(d, s)
    BY <2>4, <2>5 DEF Out
  <2>7. \A a, s \in Ranks :
          /\ InT(d, a)' /\ (InQ(d, s)' \/ InH(d, s)' \/ InI(d, s)') => a < s
          /\ InQ(d, a)' /\ (InH(d, s)' \/ InI(d, s)') => a < s
          /\ InH(d, a)' /\ InI(d, s)' => a < s
    <3>1. \A a, s \in Ranks : InT(d, a)' /\ InQ(d, s)' => a < s
      BY <2>2, <2>3, <2>4
    <3>2. QED BY <2>4, <2>5, <3>1 DEF InOrder
  <2>8. \A j, k \in 1 .. Len(dir'[d].msgs) : \A a, b \in Ranks :
          j < k /\ dir'[d].msgs[j].type = Type(a) /\ dir'[d].msgs[k].type = Type(b) => a < b
    <3>1. SUFFICES ASSUME NEW j \in 1 .. n - 1, NEW k \in 1 .. n - 1, NEW a \in Ranks, NEW b \in Ranks,
                          j < k, q[j + 1].type = Type(a), q[k + 1].type = Type(b)
                   PROVE  a < b
      BY <2>1
    <3>2. j + 1 \in 1 .. n /\ k + 1 \in 1 .. n /\ j + 1 < k + 1
      BY <2>3, <3>1
    <3>3. QED BY <2>2, <3>1, <3>2
  <2>9. InOrder(d)'
    BY <2>6, <2>7, <2>8, Names DEF InOrder
  <2>10. Told(d)'
    <3>1. \A m : ValueRight(d, m)' <=> ValueRight(d, m)
      BY DEF ValueRight, Takes
    <3>2. \A k \in 1 .. Len(dir'[d].msgs) : ValueRight(d, dir'[d].msgs[k])
      BY <2>1, <2>2, <2>3
    <3>3. ValueRight(d, t'.msg)
      BY <2>1, <2>2, <2>3
    <3>4. QED BY <3>2, <3>3 DEF Told, ValueRight, Takes
  <2>11. QED BY <1>3, <1>5, <2>6, <2>9, <2>10
<1>8. QED BY <1>6, <1>7

\* The thread is done with the message it holds; every event outstanding follows it.
LEMMA DropStream ==
  ASSUME ChanTypes, Holding, ~Holding', UNCHANGED <<h, irq>>,
         NEW d \in Dirs, dir'[d].msgs = dir[d].msgs, InOrder(d)
  PROVE  /\ InOrder(d)'
         /\ \A s \in Ranks : Out(d, s)' <=> Out(d, s) /\ ~InT(d, s)
<1>1. \A s \in Ranks : /\ ~InT(d, s)'
                       /\ InQ(d, s)' <=> InQ(d, s)
                       /\ InH(d, s)' <=> InH(d, s)
                       /\ InI(d, s)' <=> InI(d, s)
  BY DEF InT, InQ, InH, InI
<1>2. \A s \in Ranks : ~(s < s)
  BY DEF Ranks
<1>3. \A s \in Ranks : Out(d, s)' <=> Out(d, s) /\ ~InT(d, s)
  BY <1>1, <1>2 DEF Out, InOrder
<1>4. \A a, s \in Ranks :
        /\ InT(d, a)' /\ (InQ(d, s)' \/ InH(d, s)' \/ InI(d, s)') => a < s
        /\ InQ(d, a)' /\ (InH(d, s)' \/ InI(d, s)') => a < s
        /\ InH(d, a)' /\ InI(d, s)' => a < s
  BY <1>1 DEF InOrder
<1>5. InOrder(d)'
  BY <1>3, <1>4, Names DEF InOrder
<1>6. QED BY <1>3, <1>5

-----------------------------------------------------------------------------
(* What a step that leaves them alone keeps of a transfer, of what is      *)
(* announced and of which transaction is due.                              *)

SamePort(d) ==
  /\ port'[d].st = port[d].st /\ port'[d].len = port[d].len
  /\ port'[d].moved = port[d].moved /\ port'[d].sg = port[d].sg
  /\ port'[d].request = port[d].request /\ port'[d].doneLen = port[d].doneLen
SameCall(d) ==
  /\ Serving(d)' <=> Serving(d)
  /\ Serving(d) => /\ t'.length = t.length /\ t'.overflow = t.overflow
                   /\ t'.next = t.next /\ t'.cap = t.cap
                   /\ mem' = mem /\ took' = took /\ due' = due

LEMMA MovedRightKept ==
  ASSUME NEW d, NEW n, t'.cap = t.cap, mem' = mem, took' = took, due' = due
  PROVE  MovedRight(d, n)' <=> MovedRight(d, n)
  BY DEF MovedRight

LEMMA TransferKept ==
  ASSUME ChanTypes, NEW d \in Dirs, Transfer(d), SamePort(d), SameCall(d),
         port[d].request > 0 => dir'[d].buf = dir[d].buf,
         \A r \in Ranks : Out(d, r)' => Out(d, r), Out(d, 2) => Out(d, 2)'
  PROVE  Transfer(d)'
<1>1. 1 \in Ranks /\ 2 \in Ranks /\ 3 \in Ranks /\ 4 \in Ranks
  BY Names
<1>2. Quiet(d) => Quiet(d)'
  BY DEF Quiet, SamePort
<1>3. ASSUME Serving(d)
      PROVE  /\ Room(d)' = Room(d) /\ Given(d)' = Given(d)
             /\ \A k : PageAt(d, k)' = PageAt(d, k)
             /\ \A n : MovedRight(d, n)' <=> MovedRight(d, n)
  BY <1>3 DEF SameCall, SamePort, Room, Given, PageAt, MovedRight
<1>4. ASSUME Serving(d), Listing(d)
      PROVE  Listing(d)'
  <2>1. \A j \in 1 .. port[d].request : dir'[d].buf[j] = dir[d].buf[j]
    <3>1. CASE port[d].request > 0
      BY <3>1
    <3>2. CASE ~(port[d].request > 0)
      <4>1. port[d].request \in Nat
        BY DEF ChanTypes, PortType
      <4>2. 1 .. port[d].request = {}
        BY <3>2, <4>1
      <4>3. QED BY <4>2
    <3>3. QED BY <3>1, <3>2
  <2>2. QED BY <1>1, <1>3, <1>4, <2>1 DEF Listing, SamePort, SameCall
<1>5. QED BY <1>1, <1>2, <1>3, <1>4 DEF Transfer, SameCall, SamePort

LEMMA AnnouncedKept ==
  ASSUME Announced, port'["recv"].st = port["recv"].st, port'["recv"].len = port["recv"].len,
         Out("recv", 3)' <=> Out("recv", 3), Out("recv", 4)' <=> Out("recv", 4),
         "recv len" \in h'.vect => /\ "recv len" \in h.vect /\ h'.len = h.len
                                   /\ "recv txn" \in h'.vect => "recv txn" \in h.vect,
         Out("recv", 4) /\ ~Out("recv", 3) =>
           t'.dir = t.dir /\ t'.lists = t.lists /\ t'.last = t.last,
         Serving("recv")' => Serving("recv") /\ t'.last = t.last
  PROVE  Announced'
  BY DEF Announced

LEMMA DueKept ==
  ASSUME DueRight, due' = due, tag' = tag, port'["recv"].st = port["recv"].st,
         Serving("recv")' <=> Serving("recv"), Out("recv", 2)' <=> Out("recv", 2)
  PROVE  DueRight'
  BY DEF DueRight

LEMMA ToldKept ==
  ASSUME NEW d \in Dirs, Told(d), port'[d].doneLen = port[d].doneLen, port'[d].len = port[d].len,
         dir'[d].msgs = dir[d].msgs,
         Holding' /\ t'.dir = d => Holding /\ t.dir = d /\ t'.msg = t.msg
  PROVE  Told(d)'
  BY DEF Told, ValueRight

\* Nothing moves: neither an event nor a page.
Quietly ==
  /\ \A d \in Dirs : /\ SameStages(d) /\ SamePort(d) /\ SameCall(d)
                     /\ dir'[d].buf = dir[d].buf
  /\ \A d \in Dirs : Holding' /\ t'.dir = d => Holding /\ t.dir = d /\ t'.msg = t.msg
  /\ h'.vect = h.vect /\ (h.vect # {} => h'.len = h.len)
  /\ Out("recv", 4) /\ ~Out("recv", 3) => t'.dir = t.dir /\ t'.lists = t.lists /\ t'.last = t.last
  /\ Serving("recv")' => t'.last = t.last
  /\ tag' = tag /\ due' = due

LEMMA QuietStep ==
  ASSUME ChanTypes, Underway, Quietly
  PROVE  Underway'
<1>1. "recv" \in Dirs /\ "send" \in Dirs /\ 2 \in Ranks /\ 3 \in Ranks /\ 4 \in Ranks
  BY Names
<1>2. \A d \in Dirs : InOrder(d) /\ Transfer(d) /\ Told(d)
  BY DEF Underway, Dirs
<1>3. ASSUME NEW d \in Dirs
      PROVE  /\ InOrder(d)' /\ Told(d)' /\ Transfer(d)'
             /\ \A r \in Ranks : Out(d, r)' <=> Out(d, r)
  <2>1. InOrder(d)' /\ \A r \in Ranks : Out(d, r)' <=> Out(d, r)
    BY <1>2, SameStream DEF Quietly
  <2>2. Told(d)'
    <3>1. dir'[d].msgs = dir[d].msgs /\ port'[d].doneLen = port[d].doneLen /\ port'[d].len = port[d].len
      BY DEF Quietly, SameStages, SamePort
    <3>2. QED BY <1>2, <3>1, ToldKept DEF Quietly
  <2>3. Transfer(d)'
    BY <1>1, <1>2, <2>1, TransferKept DEF Quietly
  <2>4. QED BY <2>1, <2>2, <2>3
<1>4. SamePort("recv") /\ SameCall("recv")
  BY <1>1 DEF Quietly
<1>5. Announced'
  BY <1>1, <1>3, <1>4, AnnouncedKept DEF Underway, Quietly, SamePort, SameCall
<1>6. DueRight'
  BY <1>1, <1>3, <1>4, DueKept DEF Underway, Quietly, SamePort, SameCall
<1>7. QED BY <1>1, <1>3, <1>5, <1>6 DEF Underway

\* The quiet steps of the handler, the FPGA and the thread.
LEMMA QuietSteps ==
  ASSUME ChanTypes, ThreadRight, Announced, stale = FALSE,
         \/ HandlerEnter \/ HandlerReturn \/ Interrupt
         \/ (Pop /\ Msgs = << >>) \/ PrepareToWait \/ (PopAgain /\ Msgs = << >>)
         \/ Woken \/ Expire \/ (FinishWait /\ stale' = FALSE)
         \/ ResetBegin \/ ResetEnd \/ UNCHANGED channelVars
         \/ \E n \in BufLens : chnl_recv(n)
  PROVE  Quietly
<1> DEFINE SameQueues == \A d \in Dirs : dir'[d].msgs = dir[d].msgs /\ dir'[d].buf = dir[d].buf
           SameThread == /\ t'.dir = t.dir /\ t'.lists = t.lists /\ t'.last = t.last
                         /\ t'.length = t.length /\ t'.overflow = t.overflow
                         /\ t'.next = t.next /\ t'.cap = t.cap /\ t'.msg = t.msg
                         /\ Holding' => Holding
                         /\ Holding => Holding'
<1>1. ASSUME SameQueues, SameThread, irq'.vect = irq.vect, h'.vect = h.vect,
             h.vect # {} => h'.len = h.len, UNCHANGED <<port, tag, due, mem, took>>
      PROVE  Quietly
  <2>1. \A d \in Dirs : /\ Serving(d)' <=> Serving(d)
                        /\ \A r \in Ranks : (InT(d, r)' <=> InT(d, r))
    BY <1>1 DEF Serving, InT
  <2>2. \A d \in Dirs : SameStages(d) /\ SamePort(d) /\ SameCall(d)
    BY <1>1, <2>1 DEF SameStages, SamePort, SameCall, InH, InI
  <2>3. Serving("recv")' => t'.last = t.last
    BY <1>1
  <2>4. QED BY <1>1, <2>2, <2>3 DEF Quietly
<1>2. CASE HandlerEnter \/ HandlerReturn \/ Interrupt \/ UNCHANGED channelVars
  <2>1. t' = t /\ UNCHANGED <<port, tag, due, mem, took>>
    BY <1>2 DEF HandlerEnter, HandlerReturn, Interrupt, channelVars, threadVars, callVars,
                historyVars, fpgaVars
  <2>2. SameThread
    BY <2>1 DEF Holding
  <2>3. irq'.vect = irq.vect /\ h'.vect = h.vect /\ (h.vect # {} => h'.len = h.len)
    BY <1>2 DEF HandlerEnter, HandlerReturn, Interrupt, channelVars, fpgaVars,
                ChanTypes, HandlerType, IrqType
  <2>4. SameQueues
    <3>1. CASE dir' = dir
      BY <3>1
    <3>2. CASE HandlerReturn
      BY <3>2 DEF HandlerReturn, ChanTypes, DirType
    <3>3. QED BY <1>2, <3>1, <3>2 DEF HandlerEnter, Interrupt, channelVars
  <2>5. QED BY <1>1, <2>1, <2>2, <2>3, <2>4
<1>3. CASE \/ (Pop /\ Msgs = << >>) \/ PrepareToWait \/ (PopAgain /\ Msgs = << >>)
           \/ Woken \/ Expire \/ (FinishWait /\ stale' = FALSE)
  <2>1. UNCHANGED <<h, irq, port, tag>>
    BY <1>3 DEF Pop, PrepareToWait, PopAgain, Woken, Expire, FinishWait, fpgaVars, historyVars
  <2>2. SameQueues
    <3>1. CASE dir' = dir
      BY <3>1
    <3>2. CASE PrepareToWait \/ FinishWait
      <4>1. t.dir \in Dirs
        BY ThreadFields DEF ChanTypes
      <4>2. \E w : dir' = [dir EXCEPT ![t.dir].waiting = w]
        BY <3>2 DEF PrepareToWait, FinishWait
      <4>3. ASSUME NEW w, dir' = [dir EXCEPT ![t.dir].waiting = w], NEW d \in Dirs
            PROVE  dir'[d].msgs = dir[d].msgs /\ dir'[d].buf = dir[d].buf
        BY <4>1, <4>3 DEF ChanTypes, DirType
      <4>4. QED BY <4>2, <4>3
    <3>3. QED BY <1>3, <3>1, <3>2 DEF Woken, Expire, Pop, PopAgain, TakeMessage
  <2>3. SameThread /\ UNCHANGED callVars
    <3>1. t \in ThreadType
      BY DEF ChanTypes
    <3>2. CASE Pop /\ Msgs = << >>
      <4>1. t' = [t EXCEPT !.pc = "prepare"] /\ t.pc = "pop"
        BY <3>2 DEF Pop, At, TakeMessage
      <4>2. QED BY <3>1, <3>2, <4>1 DEF Pop, ThreadType, Holding
    <3>3. CASE PrepareToWait
      BY <3>1, <3>3 DEF PrepareToWait, At, ThreadType, Holding
    <3>4. CASE PopAgain /\ Msgs = << >>
      <4>1. t' = [t EXCEPT !.pc = "asleep", !.nomsg = TRUE] /\ t.pc = "pop again"
        BY <3>4 DEF PopAgain, At, TakeMessage
      <4>2. QED BY <3>1, <3>4, <4>1 DEF PopAgain, ThreadType, Holding
    <3>5. CASE Woken \/ Expire
      <4>1. t.nomsg /\ t.pc = "asleep"
        BY <3>5 DEF Woken, Expire, At, ThreadRight
      <4>2. CASE Woken
        BY <3>1, <4>1, <4>2 DEF Woken, ThreadType, Holding
      <4>3. CASE Expire
        BY <3>1, <4>1, <4>3 DEF Expire, ThreadType, Holding
      <4>4. QED BY <3>5, <4>2, <4>3
    <3>6. CASE FinishWait /\ stale' = FALSE
      <4>1. /\ t' = [t EXCEPT !.pc = IF t.nomsg THEN "pop" ELSE "message"] /\ UNCHANGED callVars
            /\ t.pc = "finish wait"
        BY <3>6 DEF FinishWait, Return, At
      <4>2. QED BY <3>1, <4>1 DEF ThreadType, Holding
    <3>7. QED BY <1>3, <3>2, <3>3, <3>4, <3>5, <3>6
  <2>4. QED BY <1>1, <2>1, <2>2, <2>3 DEF callVars
\* Between calls there is nothing to serve, and nothing held.
<1>4. ASSUME t.pc \in Still, t'.pc \in {"idle", "reset fpga", "pop"}, t'.dir = "recv", t'.lists = 0,
             t'.last = -1, UNCHANGED <<dir, h, irq, port, tag, due>>
      PROVE  Quietly
  <2>1. t.dir = "recv" /\ t.lists = 0 /\ t.last = -1
    BY <1>4 DEF ThreadRight, Still
  <2>2. ASSUME NEW d \in Dirs
        PROVE  ~Serving(d)' /\ ~Serving(d)
    <3>1. ~(0 > 0)
      OBVIOUS
    <3>2. CASE d = "recv"
      BY <1>4, <2>1, <3>1, <3>2, Zenon DEF Serving
    <3>3. CASE d = "send"
      BY <1>4, <2>1, <3>3 DEF Serving
    <3>4. QED BY <3>2, <3>3 DEF Dirs
  <2>3. ~Holding /\ ~Holding'
    BY <1>4 DEF Holding, Still
  <2>4. \A d \in Dirs : SameStages(d) /\ SamePort(d) /\ SameCall(d)
    BY <1>4, <2>2, <2>3 DEF SameStages, SamePort, SameCall, InT, InH, InI
  <2>5. QED BY <1>4, <2>1, <2>2, <2>3, <2>4, Names DEF Quietly
<1>5. CASE ResetBegin \/ ResetEnd \/ \E n \in BufLens : chnl_recv(n)
  <2>1. UNCHANGED <<dir, h, irq, port, tag, due>>
    BY <1>5 DEF ResetBegin, ResetEnd, chnl_recv, Begin, fpgaVars, historyVars, callVars
  <2>2. /\ t.pc \in Still /\ t'.pc \in {"idle", "reset fpga", "pop"}
        /\ t'.dir = "recv" /\ t'.lists = 0 /\ t'.last = -1
    <3>1. CASE ResetBegin \/ ResetEnd
      <4>1. CASE ResetBegin
        BY <4>1 DEF ResetBegin, At, Idle, Still
      <4>2. CASE ResetEnd
        BY <4>2 DEF ResetEnd, At, Idle, Still
      <4>3. QED BY <3>1, <4>1, <4>2
    <3>2. ASSUME NEW n \in BufLens, chnl_recv(n)
          PROVE  /\ t.pc = "idle" /\ t'.pc = "pop"
                 /\ t'.dir = "recv" /\ t'.lists = 0 /\ t'.last = -1
      BY <3>2 DEF chnl_recv, Begin, At, Idle
    <3>3. QED BY <1>5, <3>1, <3>2 DEF Still
  <2>3. QED BY <1>4, <2>1, <2>2
<1>6. QED BY <1>2, <1>3, <1>5

-----------------------------------------------------------------------------
(* The handler's steps.                                                    *)

LEMMA SameBoth ==
  ASSUME NEW d \in Dirs, t' = t, mem' = mem, took' = took, due' = due
  PROVE  SameCall(d) /\ (Serving(d)' <=> Serving(d))
  BY DEF SameCall, Serving

LEMMA ReadStep ==
  ASSUME ChanTypes, ThreadRight, Underway, HandlerRead
  PROVE  Underway'
<1>1. "recv" \in Dirs /\ "send" \in Dirs /\ 2 \in Ranks /\ 3 \in Ranks /\ 4 \in Ranks
  BY Names
<1>2. \A d \in Dirs : InOrder(d) /\ Transfer(d) /\ Told(d)
  BY DEF Underway, Dirs
<1>3. /\ t' = t /\ dir' = dir /\ port' = port /\ mem' = mem /\ took' = took /\ due' = due /\ tag' = tag
      /\ "recv len" \notin h'.vect
  BY DEF HandlerRead, ChanTypes, HandlerType, IrqType, threadVars, callVars, historyVars
<1>4. ASSUME NEW d \in Dirs
      PROVE  /\ InOrder(d)' /\ Told(d)' /\ Transfer(d)'
             /\ \A r \in Ranks : Out(d, r)' <=> Out(d, r)
  <2>1. InOrder(d)' /\ \A r \in Ranks : Out(d, r)' <=> Out(d, r)
    BY <1>2, ReadStream
  <2>2. Told(d)'
    BY <1>2, <1>3, ToldKept DEF Holding
  <2>3. SamePort(d) /\ SameCall(d)
    BY <1>3, SameBoth DEF SamePort
  <2>4. Transfer(d)'
    BY <1>1, <1>2, <1>3, <2>1, <2>3, TransferKept
  <2>5. QED BY <2>1, <2>2, <2>4
<1>5. Announced'
  BY <1>1, <1>3, <1>4, AnnouncedKept DEF Underway, Serving
<1>6. DueRight'
  BY <1>1, <1>3, <1>4, DueKept DEF Underway, Serving
<1>7. QED BY <1>1, <1>4, <1>5, <1>6 DEF Underway

LEMMA ToldPushed ==
  ASSUME ChanTypes, NEW d \in Dirs, NEW m \in Messages, Told(d), ValueRight(d, m),
         dir'[d].msgs = Append(dir[d].msgs, m), t' = t,
         port'[d].doneLen = port[d].doneLen, port'[d].len = port[d].len
  PROVE  Told(d)'
<1> DEFINE q == dir[d].msgs
<1>1. q \in Seq(Messages)
  BY DEF ChanTypes, DirType
<1>2. /\ Len(Append(q, m)) = Len(q) + 1
      /\ \A k \in 1 .. Len(q) : Append(q, m)[k] = q[k]
      /\ Append(q, m)[Len(q) + 1] = m
  BY <1>1, Appended
<1>3. \A k \in 1 .. Len(q) : ValueRight(d, q[k])
  BY DEF Told
<1> HIDE DEF q
<1>4. \A k \in 1 .. Len(q) + 1 : k \in 1 .. Len(q) \/ k = Len(q) + 1
  BY <1>1
<1>5. \A k \in 1 .. Len(Append(q, m)) : ValueRight(d, Append(q, m)[k])
  BY <1>2, <1>3, <1>4
<1>6. \A x : ValueRight(d, x)' <=> ValueRight(d, x)
  BY DEF ValueRight
<1>7. \A k \in 1 .. Len(dir'[d].msgs) : ValueRight(d, dir'[d].msgs[k])
  BY <1>5 DEF q
<1>8. QED BY <1>7 DEF Told, ValueRight, Holding

\* What a push leaves to be shown: that its message is right, and what becomes of the
\* transfer of its direction, and of what is announced.
LEMMA PushStep ==
  ASSUME ChanTypes, Places, Underway, NEW d \in Dirs, NEW r \in Ranks, NEW m \in Messages, NEW M,
         Pushes(d, r, m, M), ValueRight(d, m),
         \A c \in Dirs : /\ port'[c].doneLen = port[c].doneLen /\ port'[c].len = port[c].len
                         /\ c # d => port'[c] = port[c],
         mem' = mem, took' = took, due' = due, tag' = tag
  PROVE  /\ \A c \in Dirs : /\ InOrder(c)' /\ Told(c)'
                            /\ c # d => Transfer(c)'
                            /\ SameCall(c) /\ dir'[c].buf = dir[c].buf
                            /\ dir'[c].lost = dir[c].lost
         /\ \A c \in Dirs : \A s \in Ranks : Out(c, s)' <=> Out(c, s) \/ (c = d /\ M # {} /\ s = 4)
<1>1. \A c \in Dirs : InOrder(c) /\ Transfer(c) /\ Told(c)
  BY DEF Underway, Dirs
<1>2. /\ InOrder(d)'
      /\ \A s \in Ranks : Out(d, s)' <=> Out(d, s) \/ (M # {} /\ s = 4)
      /\ \A c \in Dirs \ {d} : SameStages(c)
      /\ dir'[d].msgs = Append(dir[d].msgs, m) /\ dir'[d].lost = dir[d].lost
  BY <1>1, PushStream
<1>3. dir'[d].buf = dir[d].buf /\ \A c \in Dirs \ {d} : dir'[c] = dir[c]
  BY PushEffect DEF Pushes
<1>4. t' = t
  BY DEF Pushes
<1>5. \A c \in Dirs : SameCall(c) /\ (Serving(c)' <=> Serving(c))
  BY <1>4, SameBoth
<1>6. Told(d)'
  BY <1>1, <1>2, <1>4, ToldPushed
<1>7. ASSUME NEW c \in Dirs \ {d}
      PROVE  /\ InOrder(c)' /\ Told(c)' /\ Transfer(c)'
             /\ \A s \in Ranks : Out(c, s)' <=> Out(c, s)
  <2>1. InOrder(c)' /\ \A s \in Ranks : Out(c, s)' <=> Out(c, s)
    BY <1>1, <1>2, SameStream
  <2>2. Told(c)'
    BY <1>1, <1>3, <1>4, ToldKept DEF Holding
  <2>3. SamePort(c)
    BY DEF SamePort
  <2>4. Transfer(c)'
    BY <1>1, <1>3, <1>5, <2>1, <2>3, TransferKept, Names
  <2>5. QED BY <2>1, <2>2, <2>4
<1>8. QED BY <1>2, <1>3, <1>5, <1>6, <1>7

LEMMA PlainPush ==
  ASSUME ChanTypes, Places, Underway, NEW d \in Dirs, NEW r \in Ranks, NEW m \in Messages,
         Pushes(d, r, m, {}), ValueRight(d, m), h'.len = h.len,
         \A c \in Dirs : SamePort(c) /\ (c # d => port'[c] = port[c]),
         mem' = mem, took' = took, due' = due, tag' = tag
  PROVE  Underway' /\ \A c \in Dirs : dir'[c].lost = dir[c].lost
<1>1. "recv" \in Dirs /\ "send" \in Dirs /\ 2 \in Ranks /\ 3 \in Ranks /\ 4 \in Ranks
  BY Names
<1>2. \A c \in Dirs : /\ InOrder(c)' /\ Told(c)' /\ SameCall(c) /\ dir'[c].buf = dir[c].buf
                      /\ dir'[c].lost = dir[c].lost
                      /\ \A s \in Ranks : Out(c, s)' <=> Out(c, s)
  BY PushStep DEF SamePort
<1>3. \A c \in Dirs : Transfer(c)
  BY DEF Underway, Dirs
<1>4. \A c \in Dirs : Transfer(c)'
  BY <1>1, <1>2, <1>3, TransferKept
<1>5. t' = t /\ h'.vect \subseteq h.vect
  BY DEF Pushes
<1>6. Announced'
  BY <1>1, <1>2, <1>5, AnnouncedKept DEF Underway, Serving, SamePort
<1>7. DueRight'
  BY <1>1, <1>2, <1>5, DueKept DEF Underway, Serving, SamePort
<1>8. QED BY <1>1, <1>2, <1>4, <1>6, <1>7 DEF Underway

LEMMA HandlerStep ==
  ASSUME ChanTypes, Places, ThreadRight, Underway, stale = FALSE,
         Handler, ~HandlerEnter, ~HandlerReturn
  PROVE  Underway' /\ \A c \in Dirs : dir'[c].lost = dir[c].lost
<1>1. ASSUME NEW d \in Dirs
      PROVE  Type(1) = "SG_BUF_READ" /\ Type(2) = "TXN_DONE" /\ Type(3) = "TXN_OFFLAST"
             /\ Type(4) = "TXN_LEN"
  BY DEF Type
<1>2. 1 \in Ranks /\ 2 \in Ranks /\ 3 \in Ranks /\ 4 \in Ranks
  BY Names
<1>3. /\ Event("recv", 1) = "recv sg" /\ Event("recv", 2) = "recv done"
      /\ Event("recv", 3) = "recv txn" /\ Event("recv", 4) = "recv len"
      /\ Event("send", 1) = "send sg" /\ Event("send", 2) = "send done"
  BY DEF Event
<1>4. CASE HandlerRead
  BY <1>4, ReadStep DEF HandlerRead
<1>5. ASSUME NEW e, Processed(e)
      PROVE  h'.vect = (h.vect \ {e}) \cup {} /\ h'.len = h.len
  BY <1>5 DEF Processed, ChanTypes, HandlerType
<1>6. ASSUME NEW d \in Dirs, SgBufRead(d, Event(d, 1))
      PROVE  Underway' /\ \A c \in Dirs : dir'[c].lost = dir[c].lost
  <2> DEFINE m == Message("SG_BUF_READ", 0)
  <2>1. m \in Messages /\ m.type = "SG_BUF_READ"
    BY DEF Message, Messages
  <2>2. ValueRight(d, m)
    BY <2>1 DEF ValueRight
  <2>3. /\ t' = t /\ irq' = irq /\ port' = port
        /\ mem' = mem /\ took' = took /\ due' = due /\ tag' = tag
    BY <1>6 DEF SgBufRead, threadVars, callVars, historyVars, fpgaVars
  <2>4. Pushes(d, 1, m, {}) /\ h'.len = h.len
    BY <1>1, <1>5, <1>6, <2>1, <2>3 DEF Pushes, SgBufRead
  <2> HIDE DEF m
  <2>5. \A c \in Dirs : SamePort(c) /\ (c # d => port'[c] = port[c])
    BY <2>3 DEF SamePort
  <2>6. QED BY <1>2, <2>1, <2>2, <2>3, <2>4, <2>5, PlainPush
<1>7. ASSUME NEW d \in Dirs, TxnDone(d, Event(d, 2))
      PROVE  Underway' /\ \A c \in Dirs : dir'[c].lost = dir[c].lost
  <2> DEFINE m == Message("TXN_DONE", port[d].doneLen)
  <2>1. m \in Messages /\ m.type = "TXN_DONE" /\ m.val = port[d].doneLen
    BY DEF Message, Messages, ChanTypes, PortType
  <2>2. ValueRight(d, m)
    BY <2>1 DEF ValueRight
  <2>3. /\ t' = t /\ irq' = irq /\ port' = [port EXCEPT ![d].doneRead = TRUE]
        /\ mem' = mem /\ took' = took /\ due' = due /\ tag' = tag
    BY <1>7 DEF TxnDone, threadVars, callVars, historyVars
  <2>4. Pushes(d, 2, m, {}) /\ h'.len = h.len
    BY <1>1, <1>5, <1>7, <2>1, <2>3 DEF Pushes, TxnDone
  <2> HIDE DEF m
  <2>5. \A c \in Dirs : SamePort(c) /\ (c # d => port'[c] = port[c])
    BY <2>3 DEF SamePort, ChanTypes, PortType
  <2>6. QED BY <1>2, <2>1, <2>2, <2>3, <2>4, <2>5, PlainPush
<1>8. CASE NewTxnLen
  <2> DEFINE m == Message("TXN_LEN", h.len)
  <2>1. m \in Messages /\ m.type = "TXN_LEN" /\ m.val = h.len
    BY DEF Message, Messages, ChanTypes, HandlerType
  <2>2. ValueRight("recv", m)
    BY <1>8, <2>1 DEF ValueRight, NewTxnLen, First, Underway, Announced
  <2>3. /\ t' = t /\ irq' = irq /\ port' = port
        /\ mem' = mem /\ took' = took /\ due' = due /\ tag' = tag
    BY <1>8 DEF NewTxnLen, threadVars, callVars, historyVars, fpgaVars
  <2>4. Pushes("recv", 4, m, {}) /\ h'.len = h.len
    BY <1>1, <1>3, <1>5, <1>8, <2>1, <2>3, Names DEF Pushes, NewTxnLen
  <2> HIDE DEF m
  <2>5. \A c \in Dirs : SamePort(c) /\ (c # "recv" => port'[c] = port[c])
    BY <2>3 DEF SamePort
  <2>6. QED BY <1>2, <2>1, <2>2, <2>3, <2>4, <2>5, PlainPush, Names
\* The last flag is pushed, the length is read, and with that the port may begin.
<1>9. CASE NewTxn
  <2> DEFINE m == Message("TXN_OFFLAST", 1)
  <2>1. m \in Messages /\ m.type = "TXN_OFFLAST" /\ ValueRight("recv", m)
    BY DEF Message, Messages, ValueRight
  <2>2. /\ t' = t /\ irq' = irq
        /\ mem' = mem /\ took' = took /\ due' = due /\ tag' = tag
        /\ port' = [port EXCEPT !["recv"].st = IF @ = "new" THEN "write" ELSE @]
        /\ h'.vect = (h.vect \ {"recv txn"}) \cup {"recv len"} /\ h'.len = port["recv"].len
    BY <1>9 DEF NewTxn, threadVars, callVars, historyVars, ChanTypes, HandlerType
  <2>3. Pushes("recv", 3, m, {"recv len"})
    BY <1>1, <1>3, <1>9, <2>1, <2>2, Names DEF Pushes, NewTxn
  <2> HIDE DEF m
  <2>4. "recv" \in Dirs /\ "send" \in Dirs
    BY Names
  <2>5. InH("recv", 3)
    BY <1>2, <1>3, <1>9, FirstRank, Names DEF NewTxn
  <2>6. Out("recv", 3) /\ port["recv"].st \in {"new", "write"}
    BY <2>5 DEF Out, Underway, Announced
  <2>7. /\ port'["recv"].st = "write" /\ port'["send"] = port["send"]
        /\ port'["recv"].len = port["recv"].len /\ port'["recv"].moved = port["recv"].moved
        /\ port'["recv"].sg = port["recv"].sg /\ port'["recv"].request = port["recv"].request
        /\ port'["recv"].doneLen = port["recv"].doneLen
    <3> DEFINE st == IF port["recv"].st = "new" THEN "write" ELSE port["recv"].st
               r == [port["recv"] EXCEPT !.st = st]
    <3>1. port' = [port EXCEPT !["recv"] = r]
      BY <2>2 DEF ChanTypes
    <3>2. st = "write"
      BY <2>6
    <3> HIDE DEF st
    <3>3. port'["recv"] = r /\ port'["send"] = port["send"]
      BY <2>4, <3>1, Names DEF ChanTypes
    <3>4. r.st = "write" /\ r.len = port["recv"].len /\ r.moved = port["recv"].moved
          /\ r.sg = port["recv"].sg /\ r.request = port["recv"].request
          /\ r.doneLen = port["recv"].doneLen
      BY <2>4, <3>2 DEF ChanTypes, PortType
    <3>5. QED BY <3>3, <3>4
  <2>8. \A c \in Dirs : /\ port'[c].doneLen = port[c].doneLen /\ port'[c].len = port[c].len
                        /\ c # "recv" => port'[c] = port[c]
    BY <2>7 DEF Dirs
  <2>9. /\ \A c \in Dirs : /\ InOrder(c)' /\ Told(c)'
                           /\ c # "recv" => Transfer(c)'
                           /\ SameCall(c) /\ dir'[c].lost = dir[c].lost
        /\ \A c \in Dirs : \A s \in Ranks :
             Out(c, s)' <=> Out(c, s) \/ (c = "recv" /\ s = 4)
    <3>1. {"recv len"} # {}
      OBVIOUS
    <3> DEFINE M == {"recv len"}
    <3> HIDE DEF M
    <3>2. M # {} /\ Pushes("recv", 3, m, M)
      BY <2>3, <3>1 DEF M
    <3>3. /\ \A c \in Dirs : /\ InOrder(c)' /\ Told(c)'
                             /\ c # "recv" => Transfer(c)'
                             /\ SameCall(c) /\ dir'[c].buf = dir[c].buf
                             /\ dir'[c].lost = dir[c].lost
          /\ \A c \in Dirs : \A s \in Ranks :
               Out(c, s)' <=> Out(c, s) \/ (c = "recv" /\ M # {} /\ s = 4)
      <4>1. mem' = mem /\ took' = took /\ due' = due /\ tag' = tag
        BY <2>2
      <4>2. QED BY <1>2, <2>1, <2>4, <2>8, <3>2, <4>1, PushStep
    <3>4. QED BY <3>2, <3>3
  <2>10. \/ ~Serving("recv") /\ ~Out("recv", 1) /\ ~Out("recv", 2) /\ Quiet("recv")
         \/ Serving("recv") /\ Out("recv", 2) /\ Quiet("recv")
    BY <2>6 DEF Underway, Transfer, Listing
  <2>11. Quiet("recv")'
    BY <2>6, <2>7, <2>10 DEF Quiet
  <2>12. /\ Out("recv", 1)' <=> Out("recv", 1)
         /\ Out("recv", 2)' <=> Out("recv", 2)
         /\ Out("recv", 3)'
    BY <1>2, <2>4, <2>6, <2>9
  <2>13. Serving("recv")' <=> Serving("recv")
    BY <2>2 DEF Serving
  <2>14. Transfer("recv")'
    <3>1. MovedRight("recv", port["recv"].doneLen)' <=> MovedRight("recv", port["recv"].doneLen)
      BY <2>2, <2>7 DEF MovedRight
    <3>2. Serving("recv") => MovedRight("recv", port["recv"].doneLen) /\ t.length = 0 /\ t.overflow = 0
      BY <2>10 DEF Underway, Transfer
    <3>3. QED BY <2>2, <2>10, <2>11, <2>12, <2>13, <3>1, <3>2 DEF Transfer
  <2>15. Announced'
    BY <2>2, <2>7, <2>12, <2>13 DEF Announced, Underway
  <2>16. DueRight'
    BY <2>2, <2>6, <2>7, <2>12, <2>13 DEF DueRight, Underway
  <2>17. Transfer("send")'
    BY <2>4, <2>9
  <2>18. QED BY <2>4, <2>9, <2>14, <2>15, <2>16, <2>17 DEF Underway
<1>10. QED BY <1>3, <1>4, <1>6, <1>7, <1>8, <1>9, Names DEF Handler

-----------------------------------------------------------------------------
(* The FPGA's steps.                                                       *)

\* The direction that a step of the FPGA is not about.
LEMMA OtherWay ==
  ASSUME ChanTypes, Underway, NEW c \in Dirs, SameStages(c), SameCall(c),
         port'[c] = port[c], dir'[c] = dir[c], t' = t
  PROVE  /\ InOrder(c)' /\ Told(c)' /\ Transfer(c)'
         /\ \A r \in Ranks : Out(c, r)' <=> Out(c, r)
<1>1. InOrder(c) /\ Told(c) /\ Transfer(c)
  BY DEF Underway, Dirs
<1>2. InOrder(c)' /\ \A r \in Ranks : Out(c, r)' <=> Out(c, r)
  BY <1>1, SameStream
<1>3. Told(c)'
  BY <1>1, ToldKept DEF Holding
<1>4. SamePort(c)
  BY DEF SamePort
<1>5. Transfer(c)'
  BY <1>1, <1>2, <1>4, TransferKept, Names
<1>6. QED BY <1>2, <1>3, <1>5

\* The list in the common buffer follows the ones the port has.
LEMMA Fetched ==
  ASSUME ChanTypes, ListThere, NEW d \in Dirs, FetchSg(d)
  PROVE  /\ Len(port'[d].sg) = Len(port[d].sg) + port[d].request
         /\ \A j \in 1 .. Len(port[d].sg) : port'[d].sg[j] = port[d].sg[j]
         /\ \A j \in 1 .. port[d].request : port'[d].sg[Len(port[d].sg) + j] = dir[d].buf[j]
<1> DEFINE a == port[d].sg
           b == dir[d].buf
           n == port[d].request
           s == SubSeq(b, 1, n)
<1>1. a \in Seq(Nat) /\ b \in Seq(Nat) /\ n \in Nat
  BY DEF ChanTypes, PortType, DirType
<1>2. Len(b) = n /\ port'[d].sg = a \o s
  BY FetchEffect DEF ListThere
<1> HIDE DEF a, b, n
<1>3. s \in Seq(Nat) /\ Len(s) = n /\ \A j \in 1 .. n : s[j] = b[j]
  <2>1. \A i \in 1 .. n : b[i] \in Nat
    BY <1>1, <1>2
  <2>2. /\ s \in Seq(Nat)
        /\ Len(s) = IF 1 <= n THEN n - 1 + 1 ELSE 0
        /\ \A i \in 1 .. n - 1 + 1 : s[i] = b[1 + i - 1]
    BY <1>1, <2>1, SubSeqProperties
  <2>3. \A j \in 1 .. n : j \in 1 .. n - 1 + 1 /\ 1 + j - 1 = j
    BY <1>1
  <2> HIDE DEF s
  <2>4. QED BY <1>1, <2>2, <2>3
<1> HIDE DEF s
<1>4. /\ Len(a \o s) = Len(a) + n
      /\ \A i \in 1 .. Len(a) + n : (a \o s)[i] = IF i <= Len(a) THEN a[i] ELSE s[i - Len(a)]
  BY <1>1, <1>3, ConcatProperties
<1>5. Len(a) \in Nat
  BY <1>1
<1>6. \A j \in 1 .. Len(a) : (a \o s)[j] = a[j]
  <2>1. \A j \in 1 .. Len(a) : j \in 1 .. Len(a) + n /\ j <= Len(a)
    BY <1>1, <1>5
  <2>2. QED BY <1>4, <2>1
<1>7. \A j \in 1 .. n : (a \o s)[Len(a) + j] = b[j]
  <2>1. \A j \in 1 .. n : Len(a) + j \in 1 .. Len(a) + n /\ ~(Len(a) + j <= Len(a))
                          /\ Len(a) + j - Len(a) = j
    BY <1>1, <1>5
  <2>2. QED BY <1>3, <1>4, <2>1
<1>8. QED BY <1>2, <1>4, <1>6, <1>7 DEF a, b, n

LEMMA FetchStep ==
  ASSUME ChanTypes, ListThere, Underway, NEW d \in Dirs, FetchSg(d)
  PROVE  Underway'
<1>1. 1 \in Ranks /\ 2 \in Ranks /\ 3 \in Ranks /\ 4 \in Ranks /\ "recv" \in Dirs /\ "send" \in Dirs
  BY Names
<1>2. InOrder(d) /\ Told(d) /\ Transfer(d)
  BY DEF Underway, Dirs
<1>3. /\ t' = t /\ h' = h /\ mem' = mem /\ took' = took /\ due' = due /\ tag' = tag
  BY DEF FetchSg, threadVars, callVars, historyVars
<1>4. /\ port'[d].request = 0 /\ port[d].request > 0
      /\ port'[d].st = port[d].st /\ port'[d].len = port[d].len
      /\ port'[d].moved = port[d].moved
      /\ port'[d].doneLen = port[d].doneLen
      /\ dir'[d].msgs = dir[d].msgs
      /\ \A c \in Dirs \ {d} : port'[c] = port[c] /\ dir'[c] = dir[c]
      /\ irq'.vect = irq.vect \cup {Event(d, 1)}
  BY FetchEffect
<1>5. Serving(d) /\ ~Out(d, 2) /\ Listing(d) /\ MovedRight(d, port[d].moved)
  <2>1. port[d].request # 0
    BY <1>4
  <2>2. QED BY <1>2, <2>1 DEF Transfer, Quiet
<1>6. \A r \in Ranks : ~Out(d, r)
  <2>1. ~Out(d, 1)
    BY <1>4, <1>5 DEF Listing
  <2>2. \A r \in Ranks : r = 1 \/ r = 2 \/ r = 3 \/ r = 4
    BY DEF Ranks
  <2>3. QED BY <1>5, <2>1, <2>2 DEF Listing
<1>7. InOrder(d)' /\ \A r \in Ranks : Out(d, r)' <=> r = 1
  <2>1. d = "send" => 1 <= 2
    OBVIOUS
  <2>2. InOrder(d)' /\ \A r \in Ranks : Out(d, r)' <=> Out(d, r) \/ r = 1
    BY <1>1, <1>2, <1>3, <1>4, <1>6, <2>1, RaiseStream
  <2>3. QED BY <1>6, <2>2
<1>8. Told(d)'
  BY <1>2, <1>3, <1>4, ToldKept DEF Holding
<1>9. Transfer(d)'
  <2> DEFINE L == Len(port[d].sg)
             R == port[d].request
  <2>1. /\ Len(port'[d].sg) = L + R
        /\ \A j \in 1 .. L : port'[d].sg[j] = port[d].sg[j]
        /\ \A j \in 1 .. R : port'[d].sg[L + j] = dir[d].buf[j]
    BY Fetched
  <2>2. L \in Nat /\ R \in Nat /\ port[d].moved \in Nat
    <3>1. port[d].sg \in Seq(Nat) /\ R \in Nat /\ port[d].moved \in Nat
      BY DEF ChanTypes, PortType
    <3>2. QED BY <3>1
  <2>3. Given(d)' = Given(d) /\ Given(d) = port[d].moved + L + R
    BY <1>4, <2>1, <2>2 DEF Given
  <2>4. /\ Serving(d)' /\ Room(d)' = Room(d) /\ \A k : PageAt(d, k)' = PageAt(d, k)
        /\ MovedRight(d, port[d].moved)'
    BY <1>3, <1>4, <1>5 DEF Serving, Room, PageAt, MovedRight
  <2>5. /\ \A j \in 1 .. L : port[d].sg[j] = PageAt(d, port[d].moved + j)
        /\ \A j \in 1 .. R : dir[d].buf[j] = PageAt(d, port[d].moved + L + j)
    BY <1>5 DEF Listing
  <2> HIDE DEF L, R
  <2>6. \A j \in 1 .. L + R : port'[d].sg[j] = PageAt(d, port[d].moved + j)
    <3>1. SUFFICES ASSUME NEW j \in 1 .. L + R
                   PROVE  port'[d].sg[j] = PageAt(d, port[d].moved + j)
      OBVIOUS
    <3>2. CASE j <= L
      BY <2>1, <2>2, <2>5, <3>2
    <3>3. CASE j > L
      <4>1. j - L \in 1 .. R /\ L + (j - L) = j /\ port[d].moved + L + (j - L) = port[d].moved + j
        BY <2>2, <3>1, <3>3
      <4>2. QED BY <2>1, <2>5, <4>1
    <3>4. QED BY <2>2, <3>2, <3>3
  <2>7. Given(d) > 0 /\ R > 0
    BY <1>4, <2>2, <2>3 DEF R
  <2>8. 1 .. port'[d].request = {}
    BY <1>4
  <2>9. Listing(d)'
    BY <1>1, <1>3, <1>4, <1>5, <1>7, <2>1, <2>3, <2>4, <2>6, <2>7, <2>8 DEF Listing
  <2>10. QED BY <1>1, <1>4, <1>7, <2>4, <2>9 DEF Transfer
<1>10. ASSUME NEW c \in Dirs, c # d
       PROVE  /\ InOrder(c)' /\ Told(c)' /\ Transfer(c)'
              /\ \A r \in Ranks : Out(c, r)' <=> Out(c, r)
  <2>1. d = "send" => 1 <= 2
    OBVIOUS
  <2>2. SameStages(c) /\ SameCall(c)
    BY <1>1, <1>3, <1>4, <1>10, <2>1, RaiseApart, SameBoth
  <2>3. QED BY <1>3, <1>4, <1>10, <2>2, OtherWay
<1>11. Announced'
  <2>1. port'["recv"].st = port["recv"].st /\ port'["recv"].len = port["recv"].len
    BY <1>1, <1>4
  <2>2. /\ Out("recv", 3)' <=> Out("recv", 3)
        /\ Out("recv", 4)' <=> Out("recv", 4)
    BY <1>1, <1>6, <1>7, <1>10
  <2>3. QED BY <1>3, <2>1, <2>2, AnnouncedKept DEF Underway, Serving
<1>12. DueRight'
  <2>1. port'["recv"].st = port["recv"].st
    BY <1>1, <1>4
  <2>2. Out("recv", 2)' <=> Out("recv", 2)
    BY <1>1, <1>6, <1>7, <1>10
  <2>3. QED BY <1>3, <2>1, <2>2, DueKept DEF Underway, Serving
<1>13. QED BY <1>1, <1>7, <1>8, <1>9, <1>10, <1>11, <1>12 DEF Underway

\* The end of a transaction: the lists were moved, every page of them.
LEMMA DoneStep ==
  ASSUME ChanTypes, Underway, NEW d \in Dirs, PortDone(d)
  PROVE  Underway'
<1>1. 1 \in Ranks /\ 2 \in Ranks /\ 3 \in Ranks /\ 4 \in Ranks /\ "recv" \in Dirs /\ "send" \in Dirs
  BY Names
<1>2. InOrder(d) /\ Told(d) /\ Transfer(d)
  BY DEF Underway, Dirs
<1>3. /\ t' = t /\ h' = h /\ dir' = dir /\ mem' = mem /\ took' = took /\ due' = due /\ tag' = tag
  BY DEF PortDone, threadVars, callVars, historyVars
<1>4. /\ port[d].st = "moved" /\ port'[d].st = "idle"
      /\ port'[d].doneLen = port[d].len
      /\ port'[d].sg = port[d].sg /\ port'[d].moved = port[d].moved
      /\ port'[d].request = port[d].request /\ port'[d].len = port[d].len
      /\ \A c \in Dirs \ {d} : port'[c] = port[c]
      /\ irq'.vect = irq.vect \cup {Event(d, 2)}
  BY DoneEffect
<1>5. Serving(d) /\ ~Out(d, 2) /\ Listing(d) /\ MovedRight(d, port[d].moved)
  <2>1. port[d].st \notin {"idle", "new", "write"}
    BY <1>4
  <2>2. QED BY <1>2, <2>1 DEF Transfer, Quiet
<1>6. /\ port[d].moved = port[d].len /\ port[d].sg = << >> /\ port[d].request = 0
      /\ t.length = 0 /\ t.overflow = 0
      /\ d = "send" => port[d].len = t.cap
  <2>1. /\ port[d].moved \in Nat /\ port[d].len \in Nat /\ port[d].request \in Nat
        /\ port[d].sg \in Seq(Nat) /\ t.length \in Nat /\ t.overflow \in Nat
    BY ThreadFields DEF ChanTypes, PortType
  <2>2. Len(port[d].sg) \in Nat
    BY <2>1
  <2>3. /\ port[d].moved = port[d].len
        /\ port[d].moved + Len(port[d].sg) + port[d].request + t.length + t.overflow = port[d].len
        /\ d = "send" => port[d].len = t.cap
    BY <1>4, <1>5 DEF Listing, Given
  <2>4. Len(port[d].sg) = 0 /\ port[d].request = 0 /\ t.length = 0 /\ t.overflow = 0
    <3> DEFINE a == port[d].moved
               b == Len(port[d].sg)
               c == port[d].request
               e == t.length
               f == t.overflow
    <3>1. a \in Nat /\ b \in Nat /\ c \in Nat /\ e \in Nat /\ f \in Nat /\ a + b + c + e + f = a
      BY <2>1, <2>2, <2>3
    <3> HIDE DEF a, b, c, e, f
    <3>2. b = 0 /\ c = 0 /\ e = 0 /\ f = 0
      BY <3>1
    <3>3. QED BY <3>2 DEF b, c, e, f
  <2>5. port[d].sg = << >>
    BY <2>1, <2>4
  <2>6. QED BY <2>3, <2>4, <2>5
<1>7. \A r \in Ranks : Out(d, r) => r = 1
  <2>1. \A r \in Ranks : r = 1 \/ r = 2 \/ r = 3 \/ r = 4
    BY DEF Ranks
  <2>2. QED BY <1>5, <2>1 DEF Listing
<1>8. InOrder(d)' /\ \A r \in Ranks : Out(d, r)' <=> Out(d, r) \/ r = 2
  <2>1. (d = "send" => 2 <= 2) /\ \A r \in Ranks : Out(d, r) => r < 2
    BY <1>7
  <2>2. QED BY <1>1, <1>2, <1>3, <1>4, <2>1, RaiseStream
\* No message of the queue told the length of this transaction before.
<1>9. Told(d)'
  <2>1. ~InQ(d, 2) /\ ~InT(d, 2) /\ Type(2) = "TXN_DONE"
    BY <1>5 DEF Out, Type
  <2>2. \A k \in 1 .. Len(dir[d].msgs) : dir[d].msgs[k].type # "TXN_DONE"
    BY <2>1 DEF InQ
  <2>3. Holding /\ t.dir = d => t.msg.type # "TXN_DONE"
    BY <2>1 DEF InT
  <2>4. \A m : m.type # "TXN_DONE" /\ ValueRight(d, m) => ValueRight(d, m)'
    BY <1>4 DEF ValueRight
  <2>5. \A k \in 1 .. Len(dir[d].msgs) : ValueRight(d, dir[d].msgs[k])
    BY <1>2 DEF Told
  <2>6. \A k \in 1 .. Len(dir'[d].msgs) :
          /\ dir'[d].msgs[k].type # "TXN_DONE"
          /\ dir'[d].msgs[k].type = "TXN_LEN" => dir'[d].msgs[k].val = port'[d].len
    BY <1>3, <1>4, <2>2, <2>5 DEF ValueRight
  <2>7. Holding' /\ t'.dir = d =>
          /\ t'.msg.type # "TXN_DONE"
          /\ t'.msg.type = "TXN_LEN" => t'.msg.val = port'[d].len
    BY <1>2, <1>3, <1>4, <2>3 DEF Told, ValueRight, Holding
  <2>8. QED BY <2>6, <2>7 DEF Told, ValueRight
<1>10. Transfer(d)'
  <2>1. Quiet(d)'
    BY <1>4, <1>6 DEF Quiet
  <2>2. Serving(d)' /\ Out(d, 2)'
    BY <1>1, <1>3, <1>5, <1>8 DEF Serving
  <2>3. MovedRight(d, port[d].doneLen)'
    <3>1. port'[d].doneLen = port[d].moved
      BY <1>4, <1>6
    <3>2. QED BY <1>3, <1>5, <3>1 DEF MovedRight
  <2>4. QED BY <1>3, <1>4, <1>6, <2>1, <2>2, <2>3 DEF Transfer
<1>11. ASSUME NEW c \in Dirs, c # d
       PROVE  /\ InOrder(c)' /\ Told(c)' /\ Transfer(c)'
              /\ \A r \in Ranks : Out(c, r)' <=> Out(c, r)
  <2>1. d = "send" => 2 <= 2
    OBVIOUS
  <2>2. SameStages(c) /\ SameCall(c)
    BY <1>1, <1>3, <1>4, <1>11, <2>1, RaiseApart, SameBoth
  <2>3. QED BY <1>3, <1>4, <1>11, <2>2, OtherWay
<1>12. Announced' /\ DueRight'
  <2>1. CASE d = "recv"
    <3>1. ~Out("recv", 3) /\ ~Out("recv", 4) /\ "recv len" \notin h.vect
      <4>1. ~Out("recv", 3) /\ ~Out("recv", 4)
        BY <1>5, <2>1 DEF Listing
      <4>2. QED BY <4>1, Names DEF Out, InH
    <3>2. ~Out("recv", 3)' /\ ~Out("recv", 4)'
      <4>1. \A r \in Ranks : Out("recv", r)' <=> Out("recv", r) \/ r = 2
        BY <1>8, <2>1
      <4>2. ~(3 = 2) /\ ~(4 = 2)
        OBVIOUS
      <4>3. QED BY <1>1, <3>1, <4>1, <4>2, Zenon
    <3>3. Announced'
      BY <1>3, <3>1, <3>2 DEF Announced, Underway, Serving
    <3>4. Serving("recv")' /\ Out("recv", 2)' /\ Serving("recv") /\ ~Out("recv", 2)
      BY <1>1, <1>3, <1>5, <1>8, <2>1 DEF Serving
    <3>5. DueRight'
      BY <1>3, <1>4, <2>1, <3>4 DEF DueRight, Underway
    <3>6. QED BY <3>3, <3>5
  <2>2. CASE d = "send"
    <3>1. port'["recv"] = port["recv"] /\ \A r \in Ranks : Out("recv", r)' <=> Out("recv", r)
      BY <1>1, <1>4, <1>11, <2>2, Names
    <3>2. Announced'
      BY <1>1, <1>3, <3>1, AnnouncedKept DEF Underway, Serving
    <3>3. DueRight'
      BY <1>1, <1>3, <3>1, DueKept DEF Underway, Serving
    <3>4. QED BY <3>2, <3>3
  <2>3. QED BY <2>1, <2>2 DEF Dirs
<1>13. QED BY <1>1, <1>8, <1>9, <1>10, <1>11, <1>12 DEF Underway

\* A page is moved: the next of the transaction, to where it belongs, and a call
\* that has given one list still has it pinned.
LEMMA MovedStep ==
  ASSUME ChanTypes, ThreadRight, Underway, stale = FALSE, NEW d \in Dirs, Moved(d),
         t' = t, dir' = dir, h' = h, irq' = irq, tag' = tag, due' = due,
         d = "recv" => /\ took' = took
                       /\ mem' = [p \in Pages |-> IF p = Head(port[d].sg)
                                                  THEN <<tag, port[d].moved + 1>> ELSE mem[p]],
         d = "send" => mem' = mem /\ took' = Append(took, Head(port[d].sg))
  PROVE  Underway' /\ ("one list" \in stray' => "one list" \in stray)
<1>1. 1 \in Ranks /\ 2 \in Ranks /\ 3 \in Ranks /\ 4 \in Ranks /\ "recv" \in Dirs /\ "send" \in Dirs
  BY Names
<1>2. InOrder(d) /\ Told(d) /\ Transfer(d)
  BY DEF Underway, Dirs
<1>3. /\ port[d].st = "write" /\ port[d].sg # << >>
      /\ port'[d].sg = Tail(port[d].sg) /\ port'[d].moved = port[d].moved + 1
      /\ port'[d].st = IF port[d].moved + 1 = port[d].len THEN "moved" ELSE "write"
      /\ port'[d].request = port[d].request /\ port'[d].len = port[d].len
      /\ port'[d].doneLen = port[d].doneLen
      /\ \A c \in Dirs \ {d} : port'[c] = port[c]
  BY MovedEffect
<1>4. Serving(d) /\ ~Out(d, 2) /\ Listing(d) /\ MovedRight(d, port[d].moved)
  BY <1>2, <1>3 DEF Transfer, Quiet
<1> DEFINE sg == port[d].sg
           moved == port[d].moved
           len == port[d].len
           page == Head(sg)
<1>5. /\ moved \in Nat /\ len \in Nat /\ sg \in Seq(Nat) /\ port[d].request \in Nat
      /\ t.cap \in Nat /\ t.length \in Nat /\ t.next \in Nat /\ t.next > 0
  BY ThreadFields DEF ChanTypes, PortType
<1>6. /\ Len(sg) \in Nat /\ Len(sg) > 0 /\ page = sg[1]
      /\ Len(Tail(sg)) = Len(sg) - 1 /\ \A j \in 1 .. Len(sg) - 1 : Tail(sg)[j] = sg[j + 1]
  <2>1. sg \in Seq(Nat) /\ sg # << >>
    BY <1>3, <1>5
  <2> HIDE DEF sg
  <2>2. QED BY <2>1 DEF page
<1>7. moved < len /\ Room(d) \in Nat /\ Room(d) <= len /\ Room(d) <= t.cap
      /\ (Room(d) = len \/ Room(d) = t.cap)
  BY <1>3, <1>4, <1>5 DEF Listing, Room, Lower
<1>8. \A j \in 1 .. Len(sg) : sg[j] = PageAt(d, moved + j)
  BY <1>4 DEF Listing
<1>9. page = PageAt(d, moved + 1)
  <2>1. 1 \in 1 .. Len(sg)
    BY <1>6
  <2>2. QED BY <1>6, <1>8, <2>1
<1>10. \A c \in Dirs : SameStages(c)
  BY SameHeld DEF Holding
<1>11. InOrder(d)' /\ \A r \in Ranks : Out(d, r)' <=> Out(d, r)
  BY <1>2, <1>10, SameStream
<1>12. Told(d)'
  BY <1>2, <1>3, ToldKept DEF Holding
<1>13. Listing(d)'
  <2>1. /\ \/ port'[d].st = "write" /\ port'[d].moved < port'[d].len
           \/ port'[d].st = "moved" /\ port'[d].moved = port'[d].len
    <3>1. /\ port'[d].moved = moved + 1 /\ port'[d].len = len
          /\ port'[d].st = IF moved + 1 = len THEN "moved" ELSE "write"
      BY <1>3
    <3>2. moved \in Nat /\ len \in Nat /\ moved < len
      BY <1>5, <1>7
    <3> HIDE DEF moved, len
    <3>3. moved + 1 = len \/ moved + 1 < len
      BY <3>2
    <3>4. QED BY <3>1, <3>3
  <2>2. Given(d)' = Given(d)
    BY <1>3, <1>5, <1>6 DEF Given
  <2>3. Room(d)' = Room(d) /\ \A k : PageAt(d, k)' = PageAt(d, k)
    BY <1>3 DEF Room, PageAt
  <2>4. \A j \in 1 .. Len(port'[d].sg) : port'[d].sg[j] = PageAt(d, port'[d].moved + j)
    <3>1. SUFFICES ASSUME NEW j \in 1 .. Len(sg) - 1
                   PROVE  Tail(sg)[j] = PageAt(d, moved + 1 + j)
      BY <1>3, <1>6
    <3>2. j + 1 \in 1 .. Len(sg) /\ moved + 1 + j = moved + (j + 1)
      <4> DEFINE L == Len(sg)
      <4>1. L \in Nat /\ moved \in Nat /\ j \in 1 .. L - 1
        BY <1>5, <1>6
      <4> HIDE DEF L, moved
      <4>2. j + 1 \in 1 .. L /\ moved + 1 + j = moved + (j + 1)
        BY <4>1
      <4>3. QED BY <4>2 DEF L
    <3>3. QED BY <1>6, <1>8, <3>2
  <2>5. \A j \in 1 .. port[d].request :
          dir[d].buf[j] = PageAt(d, port'[d].moved + Len(port'[d].sg) + j)
    <3>1. port'[d].moved + Len(port'[d].sg) = moved + Len(sg)
      BY <1>3, <1>5, <1>6
    <3>2. QED BY <1>4, <3>1 DEF Listing
  <2>6. QED BY <1>1, <1>3, <1>4, <1>11, <2>1, <2>2, <2>3, <2>4, <2>5 DEF Listing
<1>14. MovedRight(d, port[d].moved)'
  <2>1. CASE d = "recv"
    <3>1. t.cap \in BufLens
      <4>1. t.lists # 0
        BY <1>4, <2>1 DEF Serving
      <4>2. QED BY <4>1 DEF ThreadRight
    <3>2. 1 .. t.cap \subseteq Pages
      BY <3>1 DEF Pages
    <3>3. tag = due
      BY <1>3, <1>4, <2>1 DEF Underway, DueRight
    <3>4. \A k \in 1 .. Lower(moved, t.cap) : mem[k] = <<due, k>>
      BY <1>4, <2>1 DEF MovedRight
    <3>5. SUFFICES ASSUME NEW k \in 1 .. Lower(moved + 1, t.cap)
                   PROVE  mem'[k] = <<due, k>>
      BY <1>3, <2>1 DEF MovedRight
    <3>6. k \in 1 .. t.cap /\ (k \in 1 .. Lower(moved, t.cap) \/ k = moved + 1)
      BY <1>5, <3>5 DEF Lower
    <3>7. k \in Pages
      BY <3>2, <3>6
    <3> HIDE DEF page
    <3>8. mem'[k] = IF k = page THEN <<tag, moved + 1>> ELSE mem[k]
      BY <2>1, <3>7 DEF page
    <3>9. CASE k = moved + 1
      <4>1. page = k
        BY <1>5, <1>7, <1>9, <3>6, <3>9 DEF PageAt
      <4>2. QED BY <3>3, <3>8, <3>9, <4>1
    <3>10. CASE k # moved + 1
      <4>1. page # k
        BY <1>5, <1>9, <3>6, <3>10 DEF PageAt, Spill
      <4>2. QED BY <3>4, <3>6, <3>8, <3>10, <4>1
    <3>11. QED BY <3>9, <3>10
  <2>2. CASE d = "send"
    <3>1. page = moved + 1
      <4>1. len = t.cap
        BY <1>4, <2>2 DEF Listing
      <4>2. moved + 1 <= Room(d)
        BY <1>5, <1>7, <4>1
      <4>3. QED BY <1>9, <4>2 DEF PageAt
    <3>2. took = [k \in 1 .. moved |-> k]
      BY <1>4, <2>2 DEF MovedRight
    <3>3. took' = Append(took, moved + 1)
      BY <2>2, <3>1
    <3>4. took' = [k \in 1 .. moved + 1 |-> k]
      <4> HIDE DEF moved
      <4>1. QED BY <1>5, <3>2, <3>3
    <3>5. QED BY <1>3, <2>2, <3>4 DEF MovedRight
  <2>3. QED BY <2>1, <2>2 DEF Dirs
<1>15. Transfer(d)'
  <2>1. Serving(d)' /\ ~Out(d, 2)'
    BY <1>1, <1>4, <1>11 DEF Serving
  <2>2. QED BY <1>13, <1>14, <2>1 DEF Transfer
<1>16. ASSUME NEW c \in Dirs, c # d
       PROVE  /\ InOrder(c)' /\ Told(c)' /\ Transfer(c)'
              /\ \A r \in Ranks : Out(c, r)' <=> Out(c, r)
  <2>1. ~Serving(c)
    BY <1>4, <1>16 DEF Serving
  <2>2. SameCall(c)
    BY <2>1 DEF SameCall, Serving
  <2>3. QED BY <1>3, <1>10, <1>16, <2>2, OtherWay
<1>17. Announced' /\ DueRight'
  <2>1. port'["recv"].len = port["recv"].len
        /\ (port'["recv"].st = port["recv"].st \/ d = "recv")
    BY <1>1, <1>3
  <2>2. \A r \in Ranks : Out("recv", r)' <=> Out("recv", r)
    BY <1>1, <1>11, <1>16
  <2>3. d = "recv" => ~Out("recv", 3) /\ ~Out("recv", 4) /\ port["recv"].st # "idle" /\ port'["recv"].st # "idle"
    BY <1>3, <1>4 DEF Listing
  <2>4. Serving("recv")' <=> Serving("recv")
    BY DEF Serving
  <2>5. QED BY <1>1, <2>1, <2>2, <2>3, <2>4 DEF Announced, DueRight, Underway
<1>18. "one list" \in stray' => "one list" \in stray
  <2>1. CASE t.lists > 1
    BY <2>1 DEF Moved
  <2>2. CASE ~(t.lists > 1)
    <3>1. t.map1 = 1 .. t.next - 1
      <4>1. t.lists \in Nat
        BY ThreadFields DEF ChanTypes
      <4>2. t.lists <= 1
        BY <2>2, <4>1
      <4>3. QED BY <4>2 DEF ThreadRight
    <3>2. page # Spill => page = moved + 1 /\ page <= Room(d)
      BY <1>9 DEF PageAt
    <3>3. moved + 1 <= Given(d)
      <4> DEFINE L == Len(sg)
                 req == port[d].request
      <4>1. Given(d) = moved + L + req
        BY DEF Given
      <4>2. moved \in Nat /\ L \in Nat /\ L > 0 /\ req \in Nat
        BY <1>5, <1>6
      <4> HIDE DEF L, req, moved
      <4>3. moved + 1 <= moved + L + req
        BY <4>2
      <4>4. QED BY <4>1, <4>3
    <3>4. Given(d) \in Nat /\ (t.length > 0 => Given(d) = t.next - 1) /\ t.next - 1 + t.length = Room(d)
      <4>1. Given(d) \in Nat
        <5> DEFINE L == Len(sg)
        <5>1. Given(d) = moved + L + port[d].request /\ L \in Nat
          BY <1>6 DEF Given
        <5> HIDE DEF L, moved
        <5>2. QED BY <1>5, <5>1
      <4>2. QED BY <1>4, <4>1 DEF Listing
    <3>5. page # Spill => page \in 1 .. t.next - 1
      <4> DEFINE G == Given(d)
                 R == Room(d)
      <4>1. moved + 1 <= G /\ G \in Nat /\ (t.length > 0 => G = t.next - 1) /\ t.next - 1 + t.length = R
            /\ moved + 1 \in 1 .. moved + 1
        BY <1>5, <3>3, <3>4
      <4>2. R \in Nat /\ (page # Spill => page = moved + 1 /\ page <= R)
        BY <1>7, <3>2
      <4> HIDE DEF G, R, page, moved
      <4>3. QED BY <1>5, <4>1, <4>2
    <3>6. page \in Pinned \cup {Spill}
      BY <3>1, <3>5 DEF Pinned
    <3>7. QED BY <3>6 DEF Moved
  <2>3. QED BY <2>1, <2>2
<1>19. QED BY <1>1, <1>11, <1>12, <1>15, <1>16, <1>17, <1>18 DEF Underway

\* A transaction begins at a port that has none: nothing of one is on its way.
LEMMA SendsStep ==
  ASSUME ChanTypes, Underway, NEW n \in TxnLens, AppSends(n)
  PROVE  Underway'
<1>1. 1 \in Ranks /\ 2 \in Ranks /\ 3 \in Ranks /\ 4 \in Ranks /\ "recv" \in Dirs /\ "send" \in Dirs
  BY Names
<1>2. /\ t' = t /\ h' = h /\ dir' = dir /\ mem' = mem /\ took' = took /\ due' = due
      /\ tag' = ~tag /\ tag \in BOOLEAN /\ due \in BOOLEAN
  BY DEF AppSends, threadVars, callVars, ChanTypes
<1>3. /\ port["recv"].st = "idle" /\ n \in Nat \ {0}
      /\ port'["recv"].st = "new" /\ port'["recv"].len = n /\ port'["recv"].moved = 0
      /\ port'["recv"].sg = << >> /\ port'["recv"].request = 0
      /\ port'["recv"].doneLen = port["recv"].doneLen
      /\ port'["send"] = port["send"]
      /\ irq'.vect = irq.vect \cup {Event("recv", 3)}
  BY SendsEffect, Names
<1>4. ~Out("recv", 3) /\ ~Out("recv", 4)
  BY <1>3 DEF Underway, Announced
<1>5. InOrder("recv")' /\ \A r \in Ranks : Out("recv", r)' <=> Out("recv", r) \/ r = 3
  <2>1. ("recv" = "send" => 3 <= 2) /\ \A r \in Ranks : Out("recv", r) => r < 3
    BY <1>4 DEF Ranks
  <2>2. InOrder("recv")
    BY DEF Underway
  <2>3. QED BY <1>1, <1>2, <1>3, <2>1, <2>2, RaiseStream
<1>6. /\ Out("recv", 1)' <=> Out("recv", 1)
      /\ Out("recv", 2)' <=> Out("recv", 2)
      /\ Out("recv", 3)' /\ ~Out("recv", 4)'
  <2>1. ~(1 = 3) /\ ~(2 = 3) /\ ~(4 = 3)
    OBVIOUS
  <2>2. QED BY <1>1, <1>4, <1>5, <2>1, Zenon
<1>7. Told("recv")'
  <2>1. ~InQ("recv", 4) /\ ~InT("recv", 4) /\ Type(4) = "TXN_LEN"
    BY <1>4 DEF Out, Type
  <2>2. \A k \in 1 .. Len(dir["recv"].msgs) : dir["recv"].msgs[k].type # "TXN_LEN"
    BY <2>1 DEF InQ
  <2>3. Holding /\ t.dir = "recv" => t.msg.type # "TXN_LEN"
    BY <2>1 DEF InT
  <2>4. /\ \A k \in 1 .. Len(dir["recv"].msgs) : ValueRight("recv", dir["recv"].msgs[k])
        /\ Holding /\ t.dir = "recv" => ValueRight("recv", t.msg)
    BY DEF Told, Underway
  <2>5. \A k \in 1 .. Len(dir'["recv"].msgs) :
          /\ dir'["recv"].msgs[k].type # "TXN_LEN"
          /\ dir'["recv"].msgs[k].type = "TXN_DONE" => dir'["recv"].msgs[k].val = port'["recv"].doneLen
    BY <1>2, <1>3, <2>2, <2>4 DEF ValueRight
  <2>6. Holding' /\ t'.dir = "recv" =>
          /\ t'.msg.type # "TXN_LEN"
          /\ t'.msg.type = "TXN_DONE" => t'.msg.val = port'["recv"].doneLen
    BY <1>2, <1>3, <2>3, <2>4 DEF ValueRight, Holding
  <2>7. QED BY <2>5, <2>6 DEF Told, ValueRight
<1>8. Serving("recv")' <=> Serving("recv")
  BY <1>2 DEF Serving
<1>9. Transfer("recv")'
  <2>1. ~Serving("recv") \/ Out("recv", 2)
    BY <1>3 DEF Underway, Transfer, Listing
  <2>2. Quiet("recv")'
    BY <1>3 DEF Quiet
  <2>3. MovedRight("recv", port["recv"].doneLen)' <=> MovedRight("recv", port["recv"].doneLen)
    BY <1>2, <1>3 DEF MovedRight
  <2>4. QED BY <1>2, <1>6, <1>8, <2>1, <2>2, <2>3 DEF Transfer, Underway
<1>10. InOrder("send")' /\ Told("send")' /\ Transfer("send")'
  <2>1. "recv" = "send" => 3 <= 2
    OBVIOUS
  <2>2. SameStages("send") /\ SameCall("send")
    BY <1>1, <1>2, <1>3, <2>1, RaiseApart, SameBoth, Names
  <2>3. QED BY <1>1, <1>2, <1>3, <2>2, OtherWay
<1>11. Announced'
  <2>1. "recv len" \notin h.vect
    BY <1>4, Names DEF Out, InH
  <2>2. QED BY <1>2, <1>3, <1>6, <1>8, <2>1 DEF Announced, Underway
<1>12. DueRight'
  BY <1>2, <1>3, <1>6, <1>8 DEF DueRight, Underway
<1>13. QED BY <1>5, <1>7, <1>9, <1>10, <1>11, <1>12 DEF Underway

\* Every step of the FPGA.
LEMMA FpgaStep ==
  ASSUME ChanTypes, ListThere, ThreadRight, Underway, stale = FALSE,
         \/ \E d \in Dirs : FetchSg(d) \/ PortDone(d)
         \/ WritePage \/ ReadPage \/ \E n \in TxnLens : AppSends(n)
  PROVE  /\ Underway' /\ ("one list" \in stray' => "one list" \in stray)
         /\ \A c \in Dirs : dir'[c].lost = dir[c].lost
<1>1. CASE \E d \in Dirs : FetchSg(d)
  <2>1. PICK d \in Dirs : FetchSg(d)
    BY <1>1
  <2>2. stray' = stray
    BY <2>1 DEF FetchSg, historyVars
  <2>3. \A c \in Dirs : dir'[c].lost = dir[c].lost
    BY <2>1, FetchEffect
  <2>4. QED BY <2>1, <2>2, <2>3, FetchStep
<1>2. CASE \E d \in Dirs : PortDone(d)
  <2>1. PICK d \in Dirs : PortDone(d)
    BY <1>2
  <2>2. stray' = stray /\ dir' = dir
    BY <2>1 DEF PortDone, historyVars
  <2>3. QED BY <2>1, <2>2, DoneStep
<1>3. CASE WritePage
  <2>1. Moved("recv") /\ dir' = dir
    BY <1>3 DEF WritePage
  <2>2. QED BY <1>3, <2>1, MovedStep, Names DEF WritePage
<1>4. CASE ReadPage
  <2>1. Moved("send") /\ dir' = dir
    BY <1>4 DEF ReadPage
  <2>2. QED BY <1>4, <2>1, MovedStep, Names DEF ReadPage
<1>5. CASE \E n \in TxnLens : AppSends(n)
  <2>1. PICK n \in TxnLens : AppSends(n)
    BY <1>5
  <2>2. stray' = stray /\ dir' = dir
    BY <2>1 DEF AppSends
  <2>3. QED BY <2>1, <2>2, SendsStep
<1>6. QED BY <1>1, <1>2, <1>3, <1>4, <1>5

-----------------------------------------------------------------------------
(* The thread's steps.                                                     *)

\* A message is taken from the queue.
LEMMA TakeStep ==
  ASSUME ChanTypes, Underway, stale = FALSE, Pop \/ PopAgain, Msgs # << >>
  PROVE  Underway'
<1>1. 1 \in Ranks /\ 2 \in Ranks /\ 3 \in Ranks /\ 4 \in Ranks /\ "recv" \in Dirs /\ "send" \in Dirs
  BY Names
<1>2. PICK pc : Takes(pc)
  <2>1. CASE Pop
    BY <2>1 DEF Pop, At, Takes, fpgaVars
  <2>2. CASE PopAgain
    BY <2>2 DEF PopAgain, At, Takes, fpgaVars
  <2>3. QED BY <2>1, <2>2
<1>3. /\ mem' = mem /\ took' = took /\ due' = due /\ tag' = tag
      /\ h' = h /\ port' = port
  BY DEF Pop, PopAgain, callVars, fpgaVars, historyVars
<1>4. \A d \in Dirs : InOrder(d) /\ Told(d) /\ Transfer(d)
  BY DEF Underway, Dirs
<1>5. /\ \A d \in Dirs : /\ InOrder(d)' /\ Told(d)'
                         /\ \A s \in Ranks : Out(d, s)' <=> Out(d, s)
                         /\ dir'[d].buf = dir[d].buf
      /\ t' = [t EXCEPT !.pc = pc, !.msg = Head(Msgs), !.nomsg = FALSE]
  BY <1>1, <1>2, <1>4, TakeStream
<1>6. /\ t'.dir = t.dir /\ t'.lists = t.lists /\ t'.last = t.last /\ t'.cap = t.cap
      /\ t'.length = t.length /\ t'.overflow = t.overflow /\ t'.next = t.next
  BY <1>5 DEF ChanTypes, ThreadType
<1>7. \A d \in Dirs : SamePort(d) /\ SameCall(d)
  BY <1>3, <1>6 DEF SamePort, SameCall, Serving
<1>8. \A d \in Dirs : Transfer(d)'
  BY <1>1, <1>4, <1>5, <1>7, TransferKept
<1>9. Announced' /\ DueRight'
  <2>1. Serving("recv")' <=> Serving("recv")
    BY <1>6 DEF Serving
  <2>2. \A s \in Ranks : Out("recv", s)' <=> Out("recv", s)
    BY <1>1, <1>5
  <2>3. QED BY <1>1, <1>3, <1>6, <2>1, <2>2, AnnouncedKept, DueKept DEF Underway
<1>10. QED BY <1>1, <1>5, <1>8, <1>9 DEF Underway

\* The message that the thread has looked at is gone; what is still on its way
\* comes after it.
Drops(d, r) ==
  /\ t.pc = "message" /\ t.dir = d /\ t.msg.type = Type(r)
  /\ ~Holding' /\ UNCHANGED <<h, irq>>
  /\ dir'[d].msgs = dir[d].msgs
  /\ port'[d].doneLen = port[d].doneLen /\ port'[d].len = port[d].len
  /\ \A c \in Dirs \ {d} : port'[c] = port[c] /\ dir'[c] = dir[c] /\ ~Serving(c)'

LEMMA Dropped ==
  ASSUME ChanTypes, Underway, NEW d \in Dirs, NEW r \in Ranks, Drops(d, r)
  PROVE  /\ InOrder(d)' /\ Told(d)'
         /\ Out(d, r)
         /\ \A s \in Ranks : Out(d, s)' <=> Out(d, s) /\ s # r
         /\ \A s \in Ranks : Out(d, s)' => r < s
         /\ \A c \in Dirs \ {d} : /\ InOrder(c)' /\ Told(c)' /\ Transfer(c)'
                                  /\ \A s \in Ranks : Out(c, s)' <=> Out(c, s)
<1>1. \A c \in Dirs : InOrder(c) /\ Told(c) /\ Transfer(c)
  BY DEF Underway, Dirs
<1>2. Holding /\ ~Holding' /\ UNCHANGED <<h, irq>> /\ t.dir = d
  BY DEF Drops, Holding
<1>3. \A s \in Ranks : InT(d, s) <=> s = r
  BY <1>2, Names DEF Drops, InT
<1>4. InOrder(d)' /\ \A s \in Ranks : Out(d, s)' <=> Out(d, s) /\ ~InT(d, s)
  BY <1>1, <1>2, DropStream DEF Drops
<1>5. Out(d, r)
  BY <1>3 DEF Out
<1>6. \A s \in Ranks : Out(d, s)' => r < s
  <2>1. InT(d, r)
    BY <1>3
  <2>2. \A s \in Ranks : InQ(d, s) \/ InH(d, s) \/ InI(d, s) => r < s
    BY <1>1, <2>1 DEF InOrder
  <2>3. QED BY <1>4, <2>2 DEF Out
<1>7. Told(d)'
  BY <1>1, <1>2, ToldKept DEF Drops
<1>8. ASSUME NEW c \in Dirs \ {d}
      PROVE  /\ InOrder(c)' /\ Told(c)' /\ Transfer(c)'
             /\ \A s \in Ranks : Out(c, s)' <=> Out(c, s)
  <2>1. port'[c] = port[c] /\ dir'[c] = dir[c] /\ ~Serving(c)' /\ ~Serving(c)
    BY <1>2, <1>8 DEF Drops, Serving
  <2>2. \A s \in Ranks : ~InT(c, s) /\ ~InT(c, s)'
    BY <1>2 DEF InT
  <2>3. SameStages(c)
    BY <1>2, <2>1, <2>2 DEF SameStages, InH, InI
  <2>4. InOrder(c)' /\ \A s \in Ranks : Out(c, s)' <=> Out(c, s)
    BY <1>1, <2>3, SameStream
  <2>5. Told(c)'
    BY <1>1, <1>2, <2>1, ToldKept
  <2>6. SamePort(c) /\ SameCall(c)
    BY <2>1 DEF SamePort, SameCall
  <2>7. Transfer(c)'
    BY <1>1, <2>1, <2>4, <2>6, TransferKept, Names
  <2>8. QED BY <2>4, <2>5, <2>7
<1>9. QED BY <1>3, <1>4, <1>5, <1>6, <1>7, <1>8

\* The last flag of a transaction that no call has a list of yet.
LEMMA OffLastStep ==
  ASSUME ChanTypes, Underway, RecvOffLast
  PROVE  Underway'
<1>1. 1 \in Ranks /\ 2 \in Ranks /\ 3 \in Ranks /\ 4 \in Ranks /\ "recv" \in Dirs /\ "send" \in Dirs
  BY Names
<1>2. /\ mem' = mem /\ took' = took /\ due' = due /\ tag' = tag
      /\ h' = h /\ port' = port /\ irq' = irq /\ dir' = dir
      /\ t.pc = "message" /\ t.dir = "recv" /\ t.msg.type = Type(3)
      /\ t' = [t EXCEPT !.pc = "pop", !.last = t.msg.val]
  BY DEF RecvOffLast, callVars, fpgaVars, historyVars, MessageIs, At, Type
<1>3. /\ t'.pc = "pop" /\ t'.dir = t.dir /\ t'.lists = t.lists /\ t'.last = t.msg.val
      /\ t.msg.val # -1
  <2>1. t.msg.val \in Nat
    BY ThreadFields DEF ChanTypes
  <2>2. \A v \in Nat : v # -1
    OBVIOUS
  <2>3. QED BY <1>2, <2>1, <2>2 DEF ChanTypes, ThreadType
<1>4. Drops("recv", 3)
  BY <1>2, <1>3 DEF Drops, Holding, Serving
<1>5. /\ InOrder("recv")' /\ Told("recv")' /\ Out("recv", 3)
      /\ \A s \in Ranks : Out("recv", s)' <=> Out("recv", s) /\ s # 3
      /\ \A s \in Ranks : Out("recv", s)' => 3 < s
      /\ InOrder("send")' /\ Told("send")' /\ Transfer("send")'
  BY <1>1, <1>4, Dropped, Names
<1>6. /\ ~Out("recv", 1)' /\ ~Out("recv", 2)' /\ ~Out("recv", 3)'
      /\ ~Out("recv", 1) /\ ~Out("recv", 2)
      /\ Out("recv", 4)' <=> Out("recv", 4)
  <2>1. ~(3 < 1) /\ ~(3 < 2) /\ ~(3 < 3) /\ 1 # 3 /\ 2 # 3 /\ 4 # 3
    OBVIOUS
  <2>2. QED BY <1>1, <1>5, <2>1, Zenon
<1>7. ~Serving("recv") /\ ~Serving("recv")'
  <2>1. ~Serving("recv")
    BY <1>5, <1>6 DEF Underway, Transfer, Listing
  <2>2. QED BY <1>3, <2>1 DEF Serving
<1>8. Transfer("recv")'
  BY <1>2, <1>6, <1>7 DEF Underway, Transfer, Quiet
<1>9. t.lists = 0
  <2>1. t.lists \in Nat
    BY ThreadFields DEF ChanTypes
  <2>2. ~(t.lists > 0)
    BY <1>2, <1>7 DEF Serving
  <2>3. QED BY <2>1, <2>2
<1>10. Announced' /\ DueRight'
  BY <1>2, <1>3, <1>6, <1>7, <1>9 DEF Announced, DueRight, Underway
<1>11. QED BY <1>5, <1>8, <1>10 DEF Underway

\* A call returns the length: of its own transaction, whole, which is over.
LEMMA OverStep ==
  ASSUME ChanTypes, Underway, stale = FALSE, stale' = FALSE,
         RecvTxnDone \/ SendTxnDone
  PROVE  Underway' /\ Delivered' /\ (ret'.how = "done" => t'.pc = "idle") /\ dir' = dir
<1>1. 1 \in Ranks /\ 2 \in Ranks /\ 3 \in Ranks /\ 4 \in Ranks /\ "recv" \in Dirs /\ "send" \in Dirs
  BY Names
<1>2. PICK d \in Dirs : t.dir = d
  BY ThreadFields DEF ChanTypes
<1>3. /\ h' = h /\ irq' = irq /\ tag' = tag
      /\ t.pc = "message" /\ t.msg.type = Type(2)
  BY DEF RecvTxnDone, SendTxnDone, historyVars, MessageIs, At, Type
<1>4. InT(d, 2) /\ Out(d, 2) /\ Holding
  BY <1>2, <1>3 DEF InT, Out, Holding
<1>5. \A c \in Dirs : InOrder(c) /\ Told(c) /\ Transfer(c)
  BY DEF Underway, Dirs
<1>6. /\ Serving(d) /\ Quiet(d) /\ MovedRight(d, port[d].doneLen)
      /\ d = "send" => port[d].doneLen = t.cap
  BY <1>4, <1>5 DEF Transfer
<1>7. Return("done", t.msg.val) /\ dir' = dir /\ port' = port
  BY <1>2, <1>6 DEF RecvTxnDone, SendTxnDone, MessageIs, Underway, Announced, Ignored
<1>8. /\ t' = Idle /\ mem' = mem /\ took' = took
      /\ ret' = Result("done", t.msg.val)
      /\ due' = IF d = "recv" THEN ~due ELSE due
  BY <1>2, <1>7 DEF Return
<1>9. /\ t'.pc = "idle" /\ ~Holding' /\ \A c \in Dirs : ~Serving(c)'
  BY <1>8 DEF Idle, Holding, Serving, Dirs
<1>10. t.msg.val = port[d].doneLen
  BY <1>2, <1>3, <1>4, <1>5 DEF Told, ValueRight, Type
<1>11. Drops(d, 2)
  BY <1>2, <1>3, <1>7, <1>9 DEF Drops
<1>12. /\ InOrder(d)' /\ Told(d)'
       /\ \A s \in Ranks : Out(d, s)' <=> Out(d, s) /\ s # 2
       /\ \A s \in Ranks : Out(d, s)' => 2 < s
       /\ \A c \in Dirs \ {d} : /\ InOrder(c)' /\ Told(c)' /\ Transfer(c)'
                                /\ \A s \in Ranks : Out(c, s)' <=> Out(c, s)
  BY <1>1, <1>11, Dropped
<1>13. /\ ~Out(d, 1)' /\ ~Out(d, 2)'
       /\ Out(d, 3)' <=> Out(d, 3)
       /\ Out(d, 4)' <=> Out(d, 4)
  <2>1. ~(2 < 1) /\ ~(2 < 2) /\ 3 # 2 /\ 4 # 2
    OBVIOUS
  <2>2. QED BY <1>1, <1>12, <2>1, Zenon
<1>14. Transfer(d)'
  BY <1>6, <1>7, <1>9, <1>13 DEF Transfer, Quiet
<1>15. /\ Out("recv", 3)' <=> Out("recv", 3)
       /\ Out("recv", 4)' <=> Out("recv", 4)
  BY <1>1, <1>12, <1>13
<1>16. Announced'
  <2>1. ~(Out("recv", 4) /\ ~Out("recv", 3))
    <3>1. Out("recv", 4) /\ ~Out("recv", 3) => t.dir = "recv" /\ t.lists = 0
      BY DEF Underway, Announced
    <3>2. t.dir = "recv" => t.lists # 0
      BY <1>2, <1>6 DEF Serving
    <3>3. QED BY <3>1, <3>2
  <2>2. QED BY <1>1, <1>3, <1>7, <1>9, <1>15, <2>1 DEF Announced, Underway
<1>17. DueRight'
  <2>1. due \in BOOLEAN /\ tag \in BOOLEAN
    BY DEF ChanTypes
  <2>2. d = "send" => ~Serving("recv")
    BY <1>2 DEF Serving
  <2>3. CASE d = "recv"
    BY <1>1, <1>3, <1>4, <1>6, <1>7, <1>8, <1>9, <2>1, <2>3 DEF DueRight, Underway
  <2>4. CASE d = "send"
    BY <1>1, <1>3, <1>7, <1>8, <1>9, <2>2, <2>4 DEF DueRight, Underway
  <2>5. QED BY <2>3, <2>4 DEF Dirs
<1>18. Delivered'
  <2>1. ret'.dir = d /\ ret'.cap = t.cap /\ ret'.len = port[d].doneLen /\ ret'.tag = due
    BY <1>2, <1>8, <1>10 DEF Result
  <2>2. CASE d = "recv"
    <3>1. \A k \in 1 .. Lower(ret'.len, ret'.cap) : mem'[k] = <<ret'.tag, k>>
      BY <1>6, <1>8, <2>1, <2>2 DEF MovedRight
    <3>2. QED BY <2>1, <2>2, <3>1 DEF Delivered
  <2>3. CASE d = "send"
    <3>1. ret'.len = ret'.cap /\ took' = [k \in 1 .. ret'.cap |-> k]
      BY <1>6, <1>8, <2>1, <2>3 DEF MovedRight
    <3>2. QED BY <2>1, <2>3, <3>1 DEF Delivered
  <2>4. QED BY <2>2, <2>3 DEF Dirs
<1>19. \A c \in Dirs : InOrder(c)' /\ Told(c)' /\ Transfer(c)'
  BY <1>12, <1>14
<1>20. QED BY <1>1, <1>7, <1>9, <1>16, <1>17, <1>18, <1>19 DEF Underway

\* The next list takes up where the last one ended.  G pages of the transaction's
\* len were given, room of them have a place, and length of these are still to give.
TakesUp(G, len, room, length, overflow, next, n, s) ==
  /\ G \in Nat /\ len \in Nat /\ room \in Nat
  /\ length \in Nat /\ overflow \in Nat /\ next \in Nat \ {0}
  /\ n \in FillMaps(length) /\ s = Spills(n, length, overflow)
  /\ G + length + overflow = len /\ next - 1 + length = room /\ overflow <= len - room
  /\ length > 0 => G = next - 1

LEMMA ListRight ==
  ASSUME NEW G, NEW len, NEW room, NEW length, NEW overflow, NEW next, NEW n, NEW s,
         TakesUp(G, len, room, length, overflow, next, n, s)
  PROVE  /\ (G + n + s) + (length - n) + (overflow - s) = len
         /\ (next + n) - 1 + (length - n) = room
         /\ overflow - s <= len - room
         /\ length - n > 0 => G + n + s = (next + n) - 1
         /\ \A k \in 1 .. n : next + k - 1 = G + k /\ G + k <= room
         /\ \A k \in 1 .. s : ~(G + n + k <= room)
<1>0. /\ G \in Nat /\ len \in Nat /\ room \in Nat
      /\ length \in Nat /\ overflow \in Nat /\ next \in Nat \ {0}
      /\ G + length + overflow = len /\ next - 1 + length = room /\ overflow <= len - room
      /\ length > 0 => G = next - 1
  BY DEF TakesUp
<1>1. /\ n \in Nat /\ n <= length /\ (n = 0 <=> length = 0)
      /\ s \in Nat /\ s <= overflow /\ (s > 0 => n = length)
  BY <1>0, Fill DEF TakesUp
<1>2. /\ (G + n + s) + (length - n) + (overflow - s) = len
      /\ (next + n) - 1 + (length - n) = room
      /\ overflow - s <= len - room
  BY <1>0, <1>1
<1>3. length - n > 0 => G + n + s = (next + n) - 1
  BY <1>0, <1>1
<1>4. ASSUME NEW k \in 1 .. n
      PROVE  next + k - 1 = G + k /\ G + k <= room
  BY <1>0, <1>1
<1>5. ASSUME NEW k \in 1 .. s
      PROVE  ~(G + n + k <= room)
  <2>1. n = length /\ k \in Nat /\ k > 0
    BY <1>0, <1>1
  <2>2. CASE length > 0
    BY <1>0, <2>1, <2>2
  <2>3. CASE length = 0
    BY <1>0, <2>1, <2>3
  <2>4. QED BY <1>0, <2>2, <2>3
<1>6. QED BY <1>2, <1>3, <1>4, <1>5

\* A call that has length pages and an overflow to give for a transaction, ...
Awaits(d, length, overflow) ==
  /\ t.dir = d
  /\ \/ port[d].st = "write" /\ port[d].moved < port[d].len
     \/ port[d].st = "moved" /\ port[d].moved = port[d].len
  /\ port[d].moved + Len(port[d].sg) + length + overflow = port[d].len
  /\ t.next - 1 + length = Room(d)
  /\ overflow <= port[d].len - Room(d)
  /\ length > 0 => port[d].moved + Len(port[d].sg) = t.next - 1
  /\ d = "send" => port[d].len = t.cap
  /\ \A j \in 1 .. Len(port[d].sg) : port[d].sg[j] = PageAt(d, port[d].moved + j)
  /\ MovedRight(d, port[d].moved)
  /\ d = "recv" => t.last # -1 /\ due = tag
\* ... and gives n and s of them.
Gives(d, length, overflow, n, s) ==
  /\ n \in FillMaps(length) /\ s = Spills(n, length, overflow) /\ GiveList(d, n, s)
  /\ t'.pc = "pop" /\ t'.dir = t.dir /\ t'.cap = t.cap /\ t'.last = t.last /\ t'.lists > 0
  /\ t'.next = t.next + n /\ t'.length = length - n /\ t'.overflow = overflow - s
  /\ h' = h /\ irq' = irq
  /\ mem' = mem /\ took' = took /\ due' = due /\ tag' = tag

LEMMA GaveStep ==
  ASSUME ChanTypes, ListThere, Underway, NEW d \in Dirs, NEW length \in Nat, NEW overflow \in Nat,
         NEW n, NEW s, Awaits(d, length, overflow), Gives(d, length, overflow, n, s),
         InOrder(d)', Told(d)', \A r \in Ranks : ~Out(d, r)',
         \A c \in Dirs \ {d} : /\ InOrder(c)' /\ Told(c)' /\ Transfer(c)'
                               /\ \A r \in Ranks : Out(c, r)' <=> Out(c, r)
  PROVE  Underway'
<1>1. 1 \in Ranks /\ 2 \in Ranks /\ 3 \in Ranks /\ 4 \in Ranks /\ "recv" \in Dirs /\ "send" \in Dirs
  BY Names
<1>2. /\ n \in Nat /\ s \in Nat /\ n \in FillMaps(length) /\ s = Spills(n, length, overflow)
  BY Fill DEF Gives
<1> DEFINE L == Len(port[d].sg)
           moved == port[d].moved
           len == port[d].len
<1>3. L \in Nat /\ moved \in Nat /\ len \in Nat
  <2>1. port[d].sg \in Seq(Nat) /\ moved \in Nat /\ len \in Nat
    BY DEF ChanTypes, PortType
  <2>2. QED BY <2>1
<1>4. /\ Len(dir'[d].buf) = n + s
      /\ \A k \in 1 .. n : dir'[d].buf[k] = t.next + k - 1
      /\ \A k \in 1 .. s : dir'[d].buf[n + k] = Spill
      /\ port'[d] = [port[d] EXCEPT !.request = n + s]
      /\ \A e \in Dirs \ {d} : dir'[e] = dir[e] /\ port'[e] = port[e]
  BY <1>2, GivenThere DEF Gives
<1>5. /\ port'[d].st = port[d].st /\ port'[d].len = len /\ port'[d].moved = moved
      /\ port'[d].sg = port[d].sg /\ port'[d].request = n + s
  <2>1. port[d] \in PortType
    BY DEF ChanTypes
  <2> DEFINE k == n + s
  <2>2. port'[d] = [port[d] EXCEPT !.request = k]
    BY <1>4
  <2> HIDE DEF k
  <2>3. /\ port'[d].st = port[d].st /\ port'[d].len = len /\ port'[d].moved = moved
        /\ port'[d].sg = port[d].sg /\ port'[d].request = k
    BY <2>1, <2>2 DEF PortType
  <2>4. QED BY <2>3 DEF k
<1>6. /\ Room(d)' = Room(d) /\ \A k : PageAt(d, k)' = PageAt(d, k)
      /\ MovedRight(d, port[d].moved)'
  BY <1>5 DEF Room, PageAt, MovedRight, Awaits, Gives
<1>7. Room(d) \in Nat
  BY <1>3, ThreadFields DEF ChanTypes, Room, Lower
<1>8. /\ ((moved + L) + n + s) + (length - n) + (overflow - s) = len
      /\ (t.next + n) - 1 + (length - n) = Room(d)
      /\ overflow - s <= len - Room(d)
      /\ length - n > 0 => (moved + L) + n + s = (t.next + n) - 1
      /\ \A k \in 1 .. n : t.next + k - 1 = (moved + L) + k /\ (moved + L) + k <= Room(d)
      /\ \A k \in 1 .. s : ~((moved + L) + n + k <= Room(d))
  <2> DEFINE G == moved + L
             R == Room(d)
  <2>1. G \in Nat /\ R \in Nat /\ t.next \in Nat \ {0}
    <3>1. t.next \in Nat \ {0}
      BY DEF ChanTypes, ThreadType
    <3>2. QED BY <1>3, <1>7, <3>1
  <2>2. /\ G + length + overflow = len /\ t.next - 1 + length = R /\ overflow <= len - R
        /\ length > 0 => G = t.next - 1
    BY <1>3 DEF Awaits
  <2> HIDE DEF G, R, len
  <2>3. /\ (G + n + s) + (length - n) + (overflow - s) = len
        /\ (t.next + n) - 1 + (length - n) = R
        /\ overflow - s <= len - R
        /\ length - n > 0 => G + n + s = (t.next + n) - 1
        /\ \A k \in 1 .. n : t.next + k - 1 = G + k /\ G + k <= R
        /\ \A k \in 1 .. s : ~(G + n + k <= R)
    <3>1. len \in Nat
      BY <1>3
    <3> DEFINE next == t.next
    <3>2. next \in Nat \ {0} /\ next - 1 + length = R /\ (length > 0 => G = next - 1)
      BY <2>1, <2>2
    <3> HIDE DEF next
    <3>3. /\ (G + n + s) + (length - n) + (overflow - s) = len
          /\ (next + n) - 1 + (length - n) = R
          /\ overflow - s <= len - R
          /\ length - n > 0 => G + n + s = (next + n) - 1
          /\ \A k \in 1 .. n : next + k - 1 = G + k /\ G + k <= R
          /\ \A k \in 1 .. s : ~(G + n + k <= R)
      <4>1. G \in Nat /\ R \in Nat /\ len \in Nat /\ length \in Nat /\ overflow \in Nat /\ next \in Nat \ {0}
        BY <2>1, <3>1, <3>2
      <4>2. n \in FillMaps(length) /\ s = Spills(n, length, overflow)
        BY <1>2
      <4>3. /\ G + length + overflow = len /\ next - 1 + length = R /\ overflow <= len - R
            /\ length > 0 => G = next - 1
        BY <2>2, <3>2
      <4>4. TakesUp(G, len, R, length, overflow, next, n, s)
        BY <4>1, <4>2, <4>3 DEF TakesUp
      <4>5. QED BY <4>4, ListRight
    <3>4. QED BY <3>3 DEF next
  <2>4. QED BY <2>3 DEF G, R
<1>9. Given(d)' = (moved + L) + n + s
  BY <1>2, <1>3, <1>5 DEF Given
<1>10. \A j \in 1 .. n + s : dir'[d].buf[j] = PageAt(d, moved + L + j)
  <2> DEFINE G == moved + L
             R == Room(d)
  <2>1. SUFFICES ASSUME NEW j \in 1 .. n + s
                 PROVE  dir'[d].buf[j] = PageAt(d, G + j)
    BY <1>3
  <2>2. G \in Nat
    BY <1>3
  <2>3. /\ \A k \in 1 .. n : t.next + k - 1 = G + k /\ G + k <= R
        /\ \A k \in 1 .. s : ~(G + n + k <= R)
    BY <1>8
  <2> HIDE DEF G
  <2>4. CASE j \in 1 .. n
    <3>1. dir'[d].buf[j] = G + j /\ G + j <= R
      BY <1>4, <2>3, <2>4
    <3>2. QED BY <3>1 DEF PageAt
  <2>5. CASE j \notin 1 .. n
    <3>1. j - n \in 1 .. s /\ n + (j - n) = j /\ G + n + (j - n) = G + j
      BY <1>2, <2>1, <2>2, <2>5
    <3>2. dir'[d].buf[j] = Spill /\ ~(G + j <= R)
      BY <1>4, <2>3, <3>1
    <3>3. QED BY <3>2 DEF PageAt
  <2>6. QED BY <2>4, <2>5
<1>11. Listing(d)'
  <2>1. /\ \/ port'[d].st = "write" /\ port'[d].moved < port'[d].len
           \/ port'[d].st = "moved" /\ port'[d].moved = port'[d].len
        /\ d = "send" => port'[d].len = t'.cap
        /\ \A j \in 1 .. Len(port'[d].sg) : port'[d].sg[j] = PageAt(d, port'[d].moved + j)
    BY <1>5 DEF Awaits, Gives
  <2>2. /\ Given(d)' + t'.length + t'.overflow = port'[d].len
        /\ t'.next - 1 + t'.length = Room(d)'
        /\ t'.overflow <= port'[d].len - Room(d)'
        /\ t'.length > 0 => Given(d)' = t'.next - 1
    BY <1>5, <1>6, <1>8, <1>9 DEF Gives
  <2>3. \A j \in 1 .. port'[d].request :
          dir'[d].buf[j] = PageAt(d, port'[d].moved + Len(port'[d].sg) + j)
    BY <1>5, <1>10
  <2>4. QED BY <1>1, <1>6, <2>1, <2>2, <2>3 DEF Listing
<1>12. Serving(d)'
  BY DEF Serving, Awaits, Gives
<1>13. Transfer(d)'
  BY <1>1, <1>5, <1>6, <1>11, <1>12 DEF Transfer
<1>14. Announced' /\ DueRight'
  <2>1. CASE d = "recv"
    <3>1. "recv len" \notin h'.vect
      BY <1>1, <2>1, Names DEF Out, InH
    <3>2. port'["recv"].st # "idle" /\ t'.last # -1 /\ due' = tag'
      BY <1>5, <2>1 DEF Awaits, Gives
    <3>3. QED BY <1>1, <1>12, <2>1, <3>1, <3>2 DEF Announced, DueRight
  <2>2. CASE d = "send"
    <3>1. port'["recv"] = port["recv"] /\ t.dir = "send" /\ t'.dir = "send"
      BY <1>1, <1>4, <2>2, Names DEF Awaits, Gives
    <3>2. ~Serving("recv") /\ ~Serving("recv")'
      BY <3>1, Names DEF Serving
    <3>3. \A r \in Ranks : Out("recv", r)' <=> Out("recv", r)
      BY <1>1, <2>2, Names
    <3>4. h' = h /\ due' = due /\ tag' = tag
      BY DEF Gives
    <3>5. ~(Out("recv", 4) /\ ~Out("recv", 3))
      BY <3>1, Names DEF Underway, Announced
    <3>6. QED BY <1>1, <3>1, <3>2, <3>3, <3>4, <3>5 DEF Announced, DueRight, Underway
  <2>3. QED BY <2>1, <2>2 DEF Dirs
<1>15. \A c \in Dirs : InOrder(c)' /\ Told(c)' /\ Transfer(c)'
  BY <1>13
<1>16. QED BY <1>1, <1>14, <1>15 DEF Underway

\* chnl_recv learns the length of its transaction, and gives the first list.
LEMMA LenStep ==
  ASSUME ChanTypes, ListThere, ThreadRight, Underway, stale = FALSE, stale' = FALSE, RecvLen
  PROVE  Underway' /\ \A c \in Dirs : dir'[c].lost = dir[c].lost
<1>1. 1 \in Ranks /\ 2 \in Ranks /\ 3 \in Ranks /\ 4 \in Ranks /\ "recv" \in Dirs /\ "send" \in Dirs
  BY Names
<1> DEFINE val == t.msg.val
           length == Lower(val, t.cap)
           overflow == val - length
<1>2. /\ t.pc = "message" /\ t.dir = "recv" /\ t.msg.type = Type(4)
      /\ h' = h /\ irq' = irq /\ tag' = tag
  <2>1. MessageIs("recv", "TXN_LEN") /\ UNCHANGED <<disabled, h, irq, historyVars>>
    BY DEF RecvLen
  <2>2. QED BY <2>1 DEF MessageIs, At, Type, historyVars
<1>3. PICK n \in FillMaps(length) :
        /\ GiveList("recv", n, Spills(n, length, overflow))
        /\ t' = [t EXCEPT !.pc = "pop", !.moved = 0, !.next = @ + n,
                          !.length = length - n,
                          !.overflow = overflow - Spills(n, length, overflow),
                          !.lists = @ + 1, !.map1 = Filled(n)]
        /\ UNCHANGED callVars
  BY DEF RecvLen, Return
<1> DEFINE s == Spills(n, length, overflow)
<1>4. InT("recv", 4) /\ Out("recv", 4) /\ Holding
  BY <1>2 DEF InT, Out, Holding
<1>5. ~Out("recv", 3)
  <2>1. ~(4 < 3) /\ ~(3 = 4)
    OBVIOUS
  <2>2. ~InT("recv", 3)
    BY <1>1, <1>2, <2>1, Names DEF InT
  <2>3. ~InQ("recv", 3) /\ ~InH("recv", 3) /\ ~InI("recv", 3)
    BY <1>1, <1>4, <2>1 DEF Underway, InOrder
  <2>4. QED BY <2>2, <2>3 DEF Out
<1>6. /\ t.last # -1 /\ t.lists = 0 /\ port["recv"].st = "write" /\ val = port["recv"].len
      /\ ~Serving("recv") /\ Quiet("recv")
  <2>1. t.last # -1 /\ t.lists = 0 /\ port["recv"].st = "write"
    BY <1>4, <1>5 DEF Underway, Announced
  <2>2. val = port["recv"].len
    BY <1>2, <1>4 DEF Underway, Told, ValueRight, Type
  <2>3. ~Serving("recv")
    <3>1. ~(0 > 0)
      OBVIOUS
    <3>2. QED BY <1>2, <2>1, <3>1, Names DEF Serving
  <2>4. QED BY <2>1, <2>2, <2>3 DEF Underway, Transfer
<1>7. /\ t.next = 1 /\ t.cap \in Nat /\ val \in Nat /\ val > 0
      /\ port["recv"].moved = 0 /\ port["recv"].sg = << >>
  <2>1. t.next = 1 /\ t.cap \in Nat
    BY <1>6, ThreadFields DEF ChanTypes, ThreadRight
  <2>2. port["recv"].len \in Nat /\ port["recv"].len > 0
        /\ port["recv"].moved = 0 /\ port["recv"].sg = << >>
    BY <1>1, <1>6 DEF Quiet, ChanTypes, PortType
  <2>3. QED BY <1>6, <2>1, <2>2
<1>8. /\ length \in Nat /\ overflow \in Nat /\ length + overflow = val
      /\ Room("recv") = length
  BY <1>6, <1>7 DEF Lower, Room
<1> HIDE DEF length, overflow, s
<1>9. /\ t'.pc = "pop" /\ t'.dir = t.dir /\ t'.cap = t.cap /\ t'.last = t.last /\ t'.lists > 0
      /\ t'.next = t.next + n /\ t'.length = length - n /\ t'.overflow = overflow - s
  <2> DEFINE a == t.next + n
             b == length - n
             c == overflow - s
             e == t.lists + 1
             f == Filled(n)
  <2>1. t' = [t EXCEPT !.pc = "pop", !.moved = 0, !.next = a, !.length = b, !.overflow = c,
                       !.lists = e, !.map1 = f]
    BY <1>3 DEF s
  <2>2. e > 0
    BY <1>6
  <2> HIDE DEF a, b, c, e, f
  <2>3. /\ t'.pc = "pop" /\ t'.dir = t.dir /\ t'.cap = t.cap /\ t'.last = t.last /\ t'.lists = e
        /\ t'.next = a /\ t'.length = b /\ t'.overflow = c
    BY <2>1 DEF ChanTypes, ThreadType
  <2>4. QED BY <2>2, <2>3 DEF a, b, c
<1>10. Gives("recv", length, overflow, n, s)
  BY <1>2, <1>3, <1>9 DEF Gives, s, callVars
<1>11. n \in Nat /\ s \in Nat
  BY <1>8, Fill DEF s
<1>12. /\ \A c \in Dirs : dir'[c].msgs = dir[c].msgs /\ dir'[c].lost = dir[c].lost
       /\ port'["recv"] = [port["recv"] EXCEPT !.request = n + s]
       /\ \A c \in Dirs \ {"recv"} : dir'[c] = dir[c] /\ port'[c] = port[c]
  BY <1>1, <1>3, <1>11, GivenThere DEF s
<1>13. Drops("recv", 4)
  <2>1. port'["recv"].doneLen = port["recv"].doneLen /\ port'["recv"].len = port["recv"].len
    <3> DEFINE k == n + s
    <3>1. port'["recv"] = [port["recv"] EXCEPT !.request = k] /\ port["recv"] \in PortType
      BY <1>1, <1>12 DEF ChanTypes
    <3> HIDE DEF k
    <3>2. QED BY <3>1 DEF PortType
  <2>2. ~Holding' /\ ~Serving("send")'
    BY <1>2, <1>9, Names DEF Holding, Serving
  <2>3. \A c \in Dirs \ {"recv"} : c = "send"
    BY DEF Dirs
  <2>4. QED BY <1>1, <1>2, <1>12, <2>1, <2>2, <2>3 DEF Drops
<1>14. /\ InOrder("recv")' /\ Told("recv")' /\ \A r \in Ranks : ~Out("recv", r)'
       /\ \A c \in Dirs \ {"recv"} : /\ InOrder(c)' /\ Told(c)' /\ Transfer(c)'
                                     /\ \A r \in Ranks : Out(c, r)' <=> Out(c, r)
  <2>1. \A r \in Ranks : ~(4 < r)
    BY DEF Ranks
  <2>2. QED BY <1>1, <1>13, <2>1, Dropped
<1>15. Awaits("recv", length, overflow)
  <2>1. due = tag
    BY <1>6 DEF Underway, DueRight
  <2>2. MovedRight("recv", port["recv"].moved)
    <3>1. Lower(0, t.cap) = 0
      BY <1>7 DEF Lower
    <3>2. 1 .. 0 = {}
      OBVIOUS
    <3>3. QED BY <1>7, <3>1, <3>2 DEF MovedRight
  <2>3. Len(port["recv"].sg) = 0
    BY <1>7
  <2>4. /\ port["recv"].moved + Len(port["recv"].sg) + length + overflow = port["recv"].len
        /\ t.next - 1 + length = Room("recv")
        /\ overflow <= port["recv"].len - Room("recv")
        /\ length > 0 => port["recv"].moved + Len(port["recv"].sg) = t.next - 1
        /\ port["recv"].moved < port["recv"].len
    BY <1>6, <1>7, <1>8, <2>3
  <2>5. \A j \in 1 .. Len(port["recv"].sg) :
          port["recv"].sg[j] = PageAt("recv", port["recv"].moved + j)
    <3>1. 1 .. 0 = {}
      OBVIOUS
    <3>2. QED BY <2>3, <3>1
  <2>6. QED BY <1>2, <1>6, <2>1, <2>2, <2>4, <2>5, Names DEF Awaits
<1>16. Underway'
  BY <1>1, <1>8, <1>10, <1>14, <1>15, GaveStep
<1>17. QED BY <1>12, <1>16

\* A list was fetched: the next one is given, unless that was the last.
LEMMA NextStep ==
  ASSUME ChanTypes, ListThere, Underway, stale = FALSE, stale' = FALSE,
         RecvSgBufRead \/ SendSgBufRead
  PROVE  Underway' /\ \A c \in Dirs : dir'[c].lost = dir[c].lost
<1>1. 1 \in Ranks /\ 2 \in Ranks /\ 3 \in Ranks /\ 4 \in Ranks /\ "recv" \in Dirs /\ "send" \in Dirs
  BY Names
<1>2. PICK d \in Dirs : t.dir = d
  BY ThreadFields DEF ChanTypes
<1>3. /\ t.pc = "message" /\ t.msg.type = Type(1) /\ h' = h /\ irq' = irq /\ tag' = tag
  <2>1. UNCHANGED <<disabled, h, irq, historyVars>>
        /\ (MessageIs("recv", "SG_BUF_READ") \/ MessageIs("send", "SG_BUF_READ"))
    BY DEF RecvSgBufRead, SendSgBufRead
  <2>2. QED BY <2>1 DEF MessageIs, At, Type, historyVars
<1>4. InT(d, 1) /\ Out(d, 1) /\ Holding
  BY <1>2, <1>3 DEF InT, Out, Holding
<1>5. \A c \in Dirs : InOrder(c) /\ Told(c) /\ Transfer(c)
  BY DEF Underway, Dirs
<1>6. Serving(d)
  BY <1>4, <1>5 DEF Transfer
<1>7. NextList(d) /\ (d = "recv" => t.last # -1)
  <2>1. CASE RecvSgBufRead
    <3>1. d = "recv"
      BY <1>2, <2>1 DEF RecvSgBufRead, MessageIs
    <3>2. t.last # -1
      BY <1>6, <3>1 DEF Underway, Announced
    <3>3. QED BY <2>1, <3>1, <3>2 DEF RecvSgBufRead
  <2>2. CASE SendSgBufRead
    <3>1. d = "send"
      BY <1>2, <2>2 DEF SendSgBufRead, MessageIs
    <3>2. QED BY <2>2, <3>1, Names DEF SendSgBufRead
  <2>3. QED BY <2>1, <2>2
<1>8. CASE t.length = 0 /\ t.overflow = 0
  <2>1. /\ t' = [t EXCEPT !.pc = "pop", !.moved = @ + Cardinality(t.map0), !.map0 = {}]
        /\ UNCHANGED <<callVars, dir, port>>
    BY <1>7, <1>8 DEF NextList
  <2>2. /\ mem' = mem /\ took' = took /\ due' = due /\ dir' = dir /\ port' = port
    BY <2>1 DEF callVars
  <2>3. /\ t'.pc = "pop" /\ t'.dir = t.dir /\ t'.cap = t.cap /\ t'.last = t.last
        /\ t'.lists = t.lists /\ t'.next = t.next
        /\ t'.length = t.length /\ t'.overflow = t.overflow
    <3> DEFINE a == t.moved + Cardinality(t.map0)
    <3>1. t' = [t EXCEPT !.pc = "pop", !.moved = a, !.map0 = {}]
      BY <2>1
    <3> HIDE DEF a
    <3>2. QED BY <3>1 DEF ChanTypes, ThreadType
  <2>4. \A c \in Dirs : (Serving(c)' <=> Serving(c)) /\ (c # d => ~Serving(c)')
    BY <1>2, <2>3 DEF Serving
  <2>5. Drops(d, 1)
    BY <1>2, <1>3, <2>2, <2>3, <2>4 DEF Drops, Holding
  <2>6. /\ InOrder(d)' /\ Told(d)'
        /\ \A s \in Ranks : Out(d, s)' <=> Out(d, s) /\ s # 1
        /\ \A c \in Dirs \ {d} : /\ InOrder(c)' /\ Told(c)' /\ Transfer(c)'
                                 /\ \A s \in Ranks : Out(c, s)' <=> Out(c, s)
    BY <1>1, <2>5, Dropped
  <2>7. \A r \in Ranks : Out(d, r)' => Out(d, r)
    BY <2>6
  <2>8. \A s \in {2, 3, 4} : Out(d, s)' <=> Out(d, s)
    <3>1. 2 # 1 /\ 3 # 1 /\ 4 # 1
      OBVIOUS
    <3>2. QED BY <1>1, <2>6, <3>1
  <2>9. Transfer(d)'
    <3>1. SamePort(d) /\ SameCall(d) /\ dir'[d].buf = dir[d].buf
      BY <2>2, <2>3, <2>4 DEF SamePort, SameCall
    <3>2. Out(d, 2) => Out(d, 2)'
      BY <2>8
    <3>3. QED BY <1>5, <2>7, <3>1, <3>2, TransferKept
  <2>10. \A c \in Dirs : \A s \in {2, 3, 4} : Out(c, s)' <=> Out(c, s)
    BY <1>1, <2>6, <2>8
  <2>11. Announced' /\ DueRight'
    <3>1. /\ Out("recv", 3)' <=> Out("recv", 3)
          /\ Out("recv", 4)' <=> Out("recv", 4)
          /\ Out("recv", 2)' <=> Out("recv", 2)
      BY <1>1, <2>10
    <3>2. Serving("recv")' <=> Serving("recv")
      BY <1>1, <2>4
    <3>3. Announced'
      BY <1>3, <2>2, <2>3, <3>1, <3>2, AnnouncedKept DEF Underway
    <3>4. QED BY <1>3, <2>2, <3>1, <3>2, <3>3, DueKept DEF Underway
  <2>12. \A c \in Dirs : InOrder(c)' /\ Told(c)' /\ Transfer(c)'
    BY <2>6, <2>9
  <2>13. QED BY <1>1, <2>2, <2>11, <2>12 DEF Underway
<1>9. CASE ~(t.length = 0 /\ t.overflow = 0)
  <2>1. PICK n \in FillMaps(t.length) :
          /\ GiveList(d, n, Spills(n, t.length, t.overflow))
          /\ t' = [t EXCEPT !.pc = "pop", !.moved = @ + Cardinality(t.map0),
                            !.next = @ + n, !.length = @ - n,
                            !.overflow = @ - Spills(n, t.length, t.overflow),
                            !.lists = @ + 1, !.map0 = t.map1, !.map1 = Filled(n)]
          /\ UNCHANGED callVars
    BY <1>7, <1>9 DEF NextList, Return
  <2> DEFINE s == Spills(n, t.length, t.overflow)
  <2>2. ~Out(d, 2) /\ Listing(d) /\ MovedRight(d, port[d].moved)
    BY <1>5, <1>6, <1>9 DEF Transfer
  <2>3. port[d].request = 0 /\ ~Out(d, 3) /\ ~Out(d, 4)
    BY <1>4, <2>2 DEF Listing
  <2>4. n \in Nat /\ s \in Nat /\ t.length \in Nat /\ t.overflow \in Nat
    BY Fill, ThreadFields DEF ChanTypes
  <2> HIDE DEF s
  <2>5. /\ t'.pc = "pop" /\ t'.dir = t.dir /\ t'.cap = t.cap /\ t'.last = t.last /\ t'.lists > 0
        /\ t'.next = t.next + n /\ t'.length = t.length - n /\ t'.overflow = t.overflow - s
    <3> DEFINE a == t.next + n
               b == t.length - n
               c == t.overflow - s
               e == t.lists + 1
               f == Filled(n)
               g == t.moved + Cardinality(t.map0)
    <3>1. t' = [t EXCEPT !.pc = "pop", !.moved = g, !.next = a, !.length = b, !.overflow = c,
                         !.lists = e, !.map0 = t.map1, !.map1 = f]
      BY <2>1 DEF s
    <3>2. e > 0
      <4>1. t.lists \in Nat
        BY ThreadFields DEF ChanTypes
      <4>2. QED BY <4>1
    <3> HIDE DEF a, b, c, e, f, g
    <3>3. /\ t'.pc = "pop" /\ t'.dir = t.dir /\ t'.cap = t.cap /\ t'.last = t.last /\ t'.lists = e
          /\ t'.next = a /\ t'.length = b /\ t'.overflow = c
      BY <3>1 DEF ChanTypes, ThreadType
    <3>4. QED BY <3>2, <3>3 DEF a, b, c
  <2>6. Gives(d, t.length, t.overflow, n, s)
    BY <1>3, <2>1, <2>5 DEF Gives, s, callVars
  <2>7. /\ \A c \in Dirs : dir'[c].msgs = dir[c].msgs /\ dir'[c].lost = dir[c].lost
        /\ port'[d] = [port[d] EXCEPT !.request = n + s]
        /\ \A c \in Dirs \ {d} : dir'[c] = dir[c] /\ port'[c] = port[c]
    BY <2>1, <2>4, GivenThere DEF s
  <2>8. Drops(d, 1)
    <3>1. port'[d].doneLen = port[d].doneLen /\ port'[d].len = port[d].len
      <4> DEFINE k == n + s
      <4>1. port'[d] = [port[d] EXCEPT !.request = k] /\ port[d] \in PortType
        BY <2>7 DEF ChanTypes
      <4> HIDE DEF k
      <4>2. QED BY <4>1 DEF PortType
    <3>2. ~Holding' /\ \A c \in Dirs \ {d} : ~Serving(c)'
      BY <1>2, <2>5 DEF Holding, Serving
    <3>3. QED BY <1>2, <1>3, <2>7, <3>1, <3>2 DEF Drops
  <2>9. /\ InOrder(d)' /\ Told(d)'
        /\ \A r \in Ranks : Out(d, r)' <=> Out(d, r) /\ r # 1
        /\ \A c \in Dirs \ {d} : /\ InOrder(c)' /\ Told(c)' /\ Transfer(c)'
                                 /\ \A r \in Ranks : Out(c, r)' <=> Out(c, r)
    BY <1>1, <2>8, Dropped
  <2>10. \A r \in Ranks : ~Out(d, r)'
    <3>1. \A r \in Ranks : r = 1 \/ r = 2 \/ r = 3 \/ r = 4
      BY DEF Ranks
    <3>2. QED BY <2>2, <2>3, <2>9, <3>1
  <2>11. Awaits(d, t.length, t.overflow)
    <3>1. Given(d) = port[d].moved + Len(port[d].sg)
      <4>1. Len(port[d].sg) \in Nat /\ port[d].moved \in Nat
        <5>1. port[d].sg \in Seq(Nat) /\ port[d].moved \in Nat
          BY DEF ChanTypes, PortType
        <5>2. QED BY <5>1
      <4>2. QED BY <2>3, <4>1 DEF Given
    <3>2. d = "recv" => due = tag
      <4>1. port[d].st # "idle"
        BY <2>2 DEF Listing
      <4>2. QED BY <2>2, <4>1 DEF Underway, DueRight
    <3>3. QED BY <1>2, <1>7, <2>2, <3>1, <3>2 DEF Awaits, Listing
  <2>12. Underway'
    BY <2>4, <2>6, <2>9, <2>10, <2>11, GaveStep
  <2>13. QED BY <2>7, <2>12
<1>10. QED BY <1>8, <1>9

\* chnl_send gives its first list: the port has had none of this transaction.
LEMMA FillStep ==
  ASSUME ChanTypes, ListThere, ThreadRight, Underway, stale = FALSE, stale' = FALSE, SendFill
  PROVE  Underway' /\ \A c \in Dirs : dir'[c].lost = dir[c].lost
<1>1. 1 \in Ranks /\ 2 \in Ranks /\ 3 \in Ranks /\ 4 \in Ranks /\ "recv" \in Dirs /\ "send" \in Dirs
  BY Names
<1>2. /\ t.pc = "fill" /\ h' = h /\ irq' = irq /\ tag' = tag
  BY DEF SendFill, At, historyVars
<1>3. PICK n \in FillMaps(t.length) :
        /\ GiveList("send", n, 0)
        /\ t' = [t EXCEPT !.pc = "pop", !.next = @ + n, !.length = @ - n, !.lists = 1,
                          !.map1 = Filled(n)]
        /\ UNCHANGED callVars
  BY DEF SendFill, Return
<1>4. /\ t.dir = "send" /\ t.lists = 0 /\ t.length = t.cap /\ t.overflow = 0 /\ t.next = 1
      /\ t.cap \in Nat /\ t.cap > 0
  <2>1. /\ t.dir = "send" /\ t.lists = 0 /\ t.length = t.cap /\ t.overflow = 0 /\ t.next = 1
        /\ t.cap \in BufLens
    BY <1>2 DEF ThreadRight
  <2>2. t.cap \in Nat \ {0}
    BY <2>1, ChannelAssumption
  <2>3. t.cap \in Nat /\ t.cap > 0
    BY <2>2
  <2>4. QED BY <2>1, <2>3
<1>5. Serving("send") /\ ~Out("send", 2) /\ Listing("send") /\ MovedRight("send", port["send"].moved)
  <2>1. Serving("send") /\ t.length # 0
    BY <1>4 DEF Serving
  <2>2. QED BY <2>1 DEF Underway, Transfer
<1> DEFINE moved == port["send"].moved
           L == Len(port["send"].sg)
           len == port["send"].len
<1>6. moved \in Nat /\ L \in Nat /\ port["send"].request \in Nat /\ len \in Nat
  <2>1. /\ moved \in Nat /\ port["send"].sg \in Seq(Nat) /\ port["send"].request \in Nat
        /\ len \in Nat
    BY <1>1 DEF ChanTypes, PortType
  <2>2. QED BY <2>1
<1>7. len = t.cap /\ moved = 0 /\ L = 0 /\ Room("send") = len /\ ~Out("send", 1)
      /\ Given("send") = 0
  <2>1. len = t.cap /\ Given("send") + t.length + t.overflow = len
        /\ Given("send") = moved + L + port["send"].request
        /\ (Out("send", 1) => Given("send") > 0)
    BY <1>5 DEF Listing, Given
  <2> DEFINE G == Given("send")
             q == port["send"].request
             c == t.cap
  <2>2. /\ G = moved + L + q /\ G + c + 0 = c /\ len = c
        /\ moved \in Nat /\ L \in Nat /\ q \in Nat /\ c \in Nat
        /\ (Out("send", 1) => G > 0)
    BY <1>4, <1>6, <2>1
  <2> HIDE DEF G, moved, L, q, c
  <2>3. G = 0 /\ moved = 0 /\ L = 0
    BY <2>2
  <2>4. ~Out("send", 1)
    BY <2>2, <2>3
  <2>5. Room("send") = len
    BY <1>6, <2>2 DEF Room, Lower, c
  <2>6. QED BY <2>2, <2>3, <2>4, <2>5 DEF G, c
<1>8. \A r \in Ranks : ~Out("send", r)
  <2>1. \A r \in Ranks : r = 1 \/ r = 2 \/ r = 3 \/ r = 4
    BY DEF Ranks
  <2>2. QED BY <1>5, <1>7, <2>1 DEF Listing
<1>9. /\ n \in Nat /\ 0 = Spills(n, t.length, t.overflow)
  <2>1. n \in Nat /\ NumSg \in Nat /\ NumSg - n \in Int /\ (n = t.length => n <= NumSg)
    <3>1. NumSg \in Nat /\ t.length \in Nat /\ t.length > 0
      BY <1>4, ChannelAssumption
    <3>2. n \in 1 .. Lower(t.length, NumSg)
      BY <3>1 DEF FillMaps
    <3>3. QED BY <3>1, <3>2 DEF Lower
  <2>2. n = t.length => Lower(t.overflow, NumSg - n) = 0
    BY <1>4, <2>1 DEF Lower
  <2>3. QED BY <2>1, <2>2 DEF Spills
<1>10. /\ t'.pc = "pop" /\ t'.dir = t.dir /\ t'.cap = t.cap /\ t'.last = t.last /\ t'.lists = 1
       /\ t'.next = t.next + n /\ t'.length = t.length - n /\ t'.overflow = t.overflow
  <2> DEFINE a == t.next + n
             b == t.length - n
             f == Filled(n)
  <2>1. t' = [t EXCEPT !.pc = "pop", !.next = a, !.length = b, !.lists = 1, !.map1 = f]
    BY <1>3
  <2> HIDE DEF a, b, f
  <2>2. /\ t'.pc = "pop" /\ t'.dir = t.dir /\ t'.cap = t.cap /\ t'.last = t.last /\ t'.lists = 1
        /\ t'.next = a /\ t'.length = b /\ t'.overflow = t.overflow
    BY <2>1 DEF ChanTypes, ThreadType
  <2>3. QED BY <2>2 DEF a, b
<1>11. Gives("send", t.length, t.overflow, n, 0)
  <2>1. t'.lists > 0 /\ t'.overflow = t.overflow - 0
    BY <1>4, <1>10
  <2>2. QED BY <1>2, <1>3, <1>9, <1>10, <2>1 DEF Gives, callVars
<1>12. /\ \A c \in Dirs : dir'[c].msgs = dir[c].msgs /\ dir'[c].lost = dir[c].lost
       /\ port'["send"] = [port["send"] EXCEPT !.request = n + 0]
       /\ \A c \in Dirs \ {"send"} : dir'[c] = dir[c] /\ port'[c] = port[c]
  <2>1. 0 \in Nat
    OBVIOUS
  <2> DEFINE z == 0
  <2>2. z \in Nat /\ GiveList("send", n, z)
    BY <1>3
  <2> HIDE DEF z
  <2>3. /\ dir'["send"].msgs = dir["send"].msgs /\ dir'["send"].lost = dir["send"].lost
        /\ port'["send"] = [port["send"] EXCEPT !.request = n + z]
        /\ \A c \in Dirs \ {"send"} : dir'[c] = dir[c] /\ port'[c] = port[c]
    BY <1>1, <1>9, <2>2, GivenThere
  <2>4. QED BY <2>3 DEF z
<1>13. \A c \in Dirs : SameStages(c)
  <2>1. ~Holding /\ ~Holding'
    BY <1>2, <1>10 DEF Holding
  <2>2. QED BY <1>2, <1>12, <2>1, SameHeld
<1>14. \A c \in Dirs : InOrder(c)' /\ Told(c)' /\ \A r \in Ranks : Out(c, r)' <=> Out(c, r)
  <2>1. \A c \in Dirs : InOrder(c) /\ Told(c)
    BY DEF Underway, Dirs
  <2>2. \A c \in Dirs : port'[c].doneLen = port[c].doneLen /\ port'[c].len = port[c].len
    <3> DEFINE k == n + 0
    <3>1. port'["send"] = [port["send"] EXCEPT !.request = k] /\ port["send"] \in PortType
      BY <1>1, <1>12 DEF ChanTypes
    <3> HIDE DEF k
    <3>2. port'["send"].doneLen = port["send"].doneLen /\ port'["send"].len = port["send"].len
      BY <3>1 DEF PortType
    <3>3. QED BY <1>12, <3>2
  <2>3. ~Holding'
    BY <1>10 DEF Holding
  <2>4. QED BY <1>12, <1>13, <2>1, <2>2, <2>3, SameStream, ToldKept
<1>15. ASSUME NEW c \in Dirs \ {"send"}
       PROVE  Transfer(c)'
  <2>1. port'[c] = port[c] /\ dir'[c] = dir[c] /\ ~Serving(c) /\ ~Serving(c)'
    BY <1>4, <1>10, <1>12 DEF Serving
  <2>2. SamePort(c) /\ SameCall(c) /\ Transfer(c)
    BY <2>1 DEF SamePort, SameCall, Underway, Dirs
  <2>3. QED BY <1>1, <1>14, <2>1, <2>2, TransferKept
<1>16. Awaits("send", t.length, t.overflow)
  <2>1. Given("send") = moved + L
    BY <1>7
  <2>2. QED BY <1>4, <1>5, <2>1, Names DEF Awaits, Listing
<1>17. Underway'
  <2>1. t.length \in Nat /\ t.overflow \in Nat
    BY <1>4
  <2>2. \A r \in Ranks : ~Out("send", r)'
    BY <1>1, <1>8, <1>14
  <2>3. QED BY <1>1, <1>11, <1>14, <1>15, <1>16, <2>1, <2>2, GaveStep
<1>18. QED BY <1>12, <1>17

\* A send begins: nothing of an earlier one is on its way.
LEMMA SendCallStep ==
  ASSUME ChanTypes, ThreadRight, Underway, stale = FALSE, NEW n \in BufLens, chnl_send(n)
  PROVE  Underway' /\ \A c \in Dirs : dir'[c].lost = dir[c].lost
<1>1. 1 \in Ranks /\ 2 \in Ranks /\ 3 \in Ranks /\ 4 \in Ranks /\ "recv" \in Dirs /\ "send" \in Dirs
  BY Names
<1>2. /\ h' = h /\ irq' = irq /\ tag' = tag /\ due' = due /\ took' = << >>
      /\ t.pc = "idle" /\ n \in Nat /\ n > 0
  BY ChannelAssumption DEF chnl_send, Begin, At, historyVars
<1>3. /\ t'.pc = "fill" /\ t'.dir = "send" /\ t'.cap = n /\ t'.length = n /\ t'.overflow = 0
      /\ t'.next = 1 /\ t'.lists = 0
  <2>1. t' = [Idle EXCEPT !.pc = "fill", !.dir = "send", !.cap = n, !.length = n]
    BY Names DEF chnl_send, Begin
  <2>2. Idle \in ThreadType /\ Idle.overflow = 0 /\ Idle.next = 1 /\ Idle.lists = 0
    BY IdleType DEF Idle
  <2> HIDE DEF Idle
  <2>3. QED BY <2>1, <2>2 DEF ThreadType
<1>4. t.dir = "recv" /\ t.lists = 0 /\ t.last = -1
  BY <1>2 DEF ThreadRight
<1>5. /\ ~Holding /\ ~Holding'
      /\ \A c \in Dirs : ~Serving(c)
      /\ ~Serving("recv")' /\ Serving("send")'
  <2>1. ~(0 > 0)
    OBVIOUS
  <2>2. QED BY <1>2, <1>3, <1>4, <2>1, Names DEF Holding, Serving, Dirs
<1>6. \A r \in Ranks : ~Out("send", r)
  <2>1. \A r \in Ranks : r = 1 \/ r = 2 \/ r = 3 \/ r = 4
    BY DEF Ranks
  <2>2. ~Out("send", 1) /\ ~Out("send", 2)
    BY <1>1, <1>5 DEF Underway, Transfer
  <2>3. ~Out("send", 3) /\ ~Out("send", 4)
    BY DEF Underway, InOrder
  <2>4. QED BY <2>1, <2>2, <2>3
<1>7. port["send"].st = "idle"
  <2>1. Quiet("send")
    BY <1>1, <1>5 DEF Underway, Transfer
  <2>2. QED BY <2>1, Names DEF Quiet
<1>8. /\ port'["recv"] = port["recv"] /\ dir'["recv"] = dir["recv"]
      /\ dir'["send"].msgs = << >>
      /\ \A c \in Dirs : dir'[c].lost = dir[c].lost
      /\ port'["send"].st = "write" /\ port'["send"].len = n
      /\ port'["send"].moved = 0 /\ port'["send"].sg = << >>
      /\ port'["send"].request = 0
  BY <1>7, CallsSendEffect DEF Dirs
<1>9. Len(dir'["send"].msgs) = 0 /\ Len(port'["send"].sg) = 0 /\ 1 .. 0 = {}
  BY <1>8
<1>10. \A r \in Ranks : ~InT("send", r)' /\ ~InQ("send", r)' /\ ~InH("send", r)' /\ ~InI("send", r)'
  BY <1>2, <1>5, <1>6, <1>9 DEF InT, InQ, InH, InI, Out
<1>11. \A r \in Ranks : ~Out("send", r)'
  BY <1>10 DEF Out
<1>12. InOrder("send")' /\ Told("send")'
  BY <1>1, <1>5, <1>9, <1>10, <1>11 DEF InOrder, Told
<1>13. Listing("send")'
  <2>1. Room("send")' = n
    BY <1>2, <1>3, <1>8 DEF Room, Lower
  <2>2. Given("send")' = 0
    BY <1>8, <1>9 DEF Given
  <2>3. /\ 0 < n /\ 0 + n + 0 = n /\ 1 - 1 + n = n /\ 0 <= n - n /\ 0 = 1 - 1
    BY <1>2
  <2>4. /\ Given("send")' + t'.length + t'.overflow = port'["send"].len
        /\ t'.next - 1 + t'.length = Room("send")'
        /\ t'.overflow <= port'["send"].len - Room("send")'
        /\ Given("send")' = t'.next - 1
        /\ port'["send"].moved < port'["send"].len
    BY <1>3, <1>8, <2>1, <2>2, <2>3
  <2>5. QED BY <1>1, <1>3, <1>8, <1>9, <1>11, <2>4 DEF Listing
<1>14. MovedRight("send", port["send"].moved)'
  <2>1. << >> = [k \in 1 .. 0 |-> k]
    OBVIOUS
  <2>2. QED BY <1>2, <1>8, <2>1, Names DEF MovedRight
<1>15. Transfer("send")'
  BY <1>1, <1>5, <1>11, <1>13, <1>14 DEF Transfer
<1>16. SameStages("recv")
  BY <1>1, <1>2, <1>5, <1>8, SameHeld
<1>17. /\ InOrder("recv")' /\ Told("recv")' /\ Transfer("recv")'
       /\ \A r \in Ranks : Out("recv", r)' <=> Out("recv", r)
  <2>1. InOrder("recv") /\ Told("recv") /\ Transfer("recv")
    BY DEF Underway
  <2>2. InOrder("recv")' /\ \A r \in Ranks : Out("recv", r)' <=> Out("recv", r)
    BY <1>1, <1>16, <2>1, SameStream
  <2>3. Told("recv")'
    BY <1>1, <1>5, <1>8, <2>1, ToldKept
  <2>4. SamePort("recv") /\ SameCall("recv")
    BY <1>1, <1>5, <1>8 DEF SamePort, SameCall
  <2>5. Transfer("recv")'
    BY <1>1, <1>8, <2>1, <2>2, <2>4, TransferKept
  <2>6. QED BY <2>2, <2>3, <2>5
<1>18. Announced' /\ DueRight'
  <2>1. ~(Out("recv", 4) /\ ~Out("recv", 3))
    BY <1>4 DEF Underway, Announced
  <2>2. ~Serving("recv")
    BY <1>1, <1>5
  <2>3. QED BY <1>1, <1>2, <1>5, <1>8, <1>17, <2>1, <2>2 DEF Announced, DueRight, Underway
<1>19. QED BY <1>8, <1>12, <1>15, <1>17, <1>18 DEF Underway

-----------------------------------------------------------------------------
(* A reset.                                                                *)

\* The FPGA is reset between two calls: only a new transaction can have been on
\* its way.
LEMMA ResetStep ==
  ASSUME ChanTypes, ThreadRight, Underway, ResetFpga
  PROVE  StillFits'
<1>1. 1 \in Ranks /\ 2 \in Ranks /\ 3 \in Ranks /\ 4 \in Ranks /\ "recv" \in Dirs /\ "send" \in Dirs
  BY Names
<1>2. t.pc = "reset fpga" /\ h' = h /\ dir' = dir
  BY DEF ResetFpga, At
<1>3. \A c \in Dirs : ~Serving(c)
  <2>1. t.dir = "recv" /\ t.lists = 0
    BY <1>2 DEF ThreadRight
  <2>2. ~(0 > 0)
    OBVIOUS
  <2>3. QED BY <2>1, <2>2, Names DEF Serving
<1>4. \A c \in Dirs : ~Out(c, 1) /\ ~Out(c, 2)
  BY <1>1, <1>3 DEF Underway, Transfer, Dirs
<1>5. \A r \in Ranks : ~InH("send", r)
  <2>1. \A r \in Ranks : r = 1 \/ r = 2 \/ r = 3 \/ r = 4
    BY DEF Ranks
  <2>2. ~Out("send", 3) /\ ~Out("send", 4)
    BY DEF Underway, InOrder
  <2>3. QED BY <1>1, <1>4, <2>1, <2>2 DEF Out
<1>6. ~InH("recv", 1) /\ ~InH("recv", 2)
  BY <1>1, <1>4 DEF Out
<1>7. Len(dir["recv"].msgs) <= 2 /\ Len(dir["recv"].msgs) \in Nat
  <2>1. \A r \in Ranks : InQ("recv", r) => 3 <= r /\ r <= 4
    <3>1. ~InQ("recv", 1) /\ ~InQ("recv", 2)
      BY <1>1, <1>4 DEF Out
    <3>2. \A r \in Ranks : r = 1 \/ r = 2 \/ (3 <= r /\ r <= 4)
      BY DEF Ranks
    <3>3. QED BY <3>1, <3>2
  <2>2. dir["recv"].msgs \in Seq(Messages)
    BY <1>1 DEF ChanTypes, DirType
  <2>3. 4 \in 0 .. 4 /\ (IF 3 > 4 THEN 0 ELSE 4 - 3 + 1) = 2
    OBVIOUS
  <2>4. InOrder("recv")
    BY DEF Underway
  <2>5. Len(dir["recv"].msgs) <= IF 3 > 4 THEN 0 ELSE 4 - 3 + 1
    BY <1>1, <2>1, <2>2, <2>3, <2>4, RisingLen
  <2>6. QED BY <2>2, <2>3, <2>5
<1>8. Brings \in Nat /\ Brings <= 2
  BY DEF Brings
<1>9. Len(dir["recv"].msgs) + Brings <= 4
  BY <1>7, <1>8
<1>10. Brings' = Brings /\ \A d \in Dirs, r \in Ranks : InH(d, r)' <=> InH(d, r)
  BY <1>2 DEF Brings, InH
<1>11. QED BY <1>1, <1>2, <1>5, <1>6, <1>7, <1>9, <1>10 DEF StillFits

LEMMA ResetPort ==
  ASSUME ChanTypes, ResetFpga
  PROVE  FpgaReset'
<1>1. /\ irq'.vect = {}
      /\ \A d \in Dirs : /\ port'[d].st = "idle" /\ port'[d].sg = << >>
                         /\ port'[d].request = 0
      /\ due' = ~tag /\ tag' = tag /\ tag \in BOOLEAN
  BY DEF ResetFpga, QuietIrq, IdlePort, historyVars, ChanTypes
<1>2. QED BY <1>1, Names DEF FpgaReset, Quiet

\* The queues are emptied while no handler is under way.
LEMMA EmptyStep ==
  ASSUME ChanTypes, ThreadRight, FpgaReset, ResetQueues, stale' = FALSE
  PROVE  Underway'
<1>1. 1 \in Ranks /\ 2 \in Ranks /\ 3 \in Ranks /\ 4 \in Ranks /\ "recv" \in Dirs /\ "send" \in Dirs
  BY Names
<1>2. /\ t.pc = "reset queues" /\ t' = [t EXCEPT !.pc = "reset end"]
      /\ h' = h /\ irq' = irq /\ port' = port /\ tag' = tag /\ due' = due
      /\ \A d \in Dirs : dir'[d].msgs = << >>
  BY DEF ResetQueues, At, fpgaVars, historyVars, ChanTypes, DirType
<1>3. h.vect = {}
  BY DEF ResetQueues, ThreadRight
<1>4. t'.pc = "reset end" /\ t'.dir = "recv" /\ t'.lists = 0 /\ ~Holding'
  BY <1>2 DEF ThreadRight, ChanTypes, ThreadType, Holding
<1>5. /\ \A d \in Dirs : ~Serving(d)'
      /\ ~Serving("recv")' /\ ~Serving("send")'
  <2>1. ~(0 > 0)
    OBVIOUS
  <2>2. QED BY <1>1, <1>4, <2>1, Names DEF Serving
<1>6. \A d \in Dirs : Len(dir'[d].msgs) = 0
  <2>1. Len(<< >>) = 0
    OBVIOUS
  <2>2. QED BY <1>2, <2>1
<1>7. \A d \in Dirs : \A r \in Ranks : ~InT(d, r)' /\ ~InQ(d, r)' /\ ~InH(d, r)'
  <2>1. 1 .. 0 = {}
    OBVIOUS
  <2>2. QED BY <1>2, <1>3, <1>4, <1>6, <2>1 DEF InT, InQ, InH
<1>8. \A d \in Dirs : \A r \in Ranks :
        Out(d, r)' => d = "recv" /\ r = 3 /\ port["recv"].st \in {"new", "write"}
  <2>1. \A d \in Dirs : \A r \in Ranks : InI(d, r) => d = "recv" /\ r = 3 /\ irq.vect # {}
    <3>1. irq.vect \subseteq {"recv txn"}
      BY DEF FpgaReset
    <3>2. QED BY <1>1, <3>1, Names DEF InI, Dirs
  <2>2. \A d \in Dirs : \A r \in Ranks : Out(d, r)' => InI(d, r)
    BY <1>2, <1>7 DEF Out, InI
  <2>3. QED BY <2>1, <2>2 DEF FpgaReset
<1>9. \A d \in Dirs : ~Out(d, 1)' /\ ~Out(d, 2)' /\ ~Out(d, 4)'
  <2>1. ~(1 = 3) /\ ~(2 = 3) /\ ~(4 = 3)
    OBVIOUS
  <2>2. QED BY <1>1, <1>8, <2>1
<1>10. ASSUME NEW d \in Dirs
       PROVE  InOrder(d)' /\ Told(d)' /\ Transfer(d)'
  <2>1. 1 .. 0 = {}
    OBVIOUS
  <2>2. InOrder(d)'
    <3>1. d = "send" => ~Out(d, 3)' /\ ~Out(d, 4)'
      BY <1>1, <1>8, Names
    <3>2. QED BY <1>6, <1>7, <2>1, <3>1 DEF InOrder
  <2>3. Told(d)'
    BY <1>4, <1>6, <2>1 DEF Told
  <2>4. Quiet(d)'
    BY <1>2 DEF FpgaReset, Quiet, Dirs
  <2>5. Transfer(d)'
    BY <1>5, <1>9, <2>4 DEF Transfer
  <2>6. QED BY <2>2, <2>3, <2>5
<1>11. Announced'
  BY <1>1, <1>2, <1>3, <1>5, <1>8, <1>9 DEF Announced
<1>12. DueRight'
  BY <1>2, <1>5 DEF DueRight, FpgaReset
<1>13. QED BY <1>1, <1>10, <1>11, <1>12 DEF Underway

\* After the FPGA was reset nothing but a new transaction begins.
LEMMA NewPort ==
  ASSUME ChanTypes, FpgaReset, NewTxn \/ NewTxnLen
  PROVE  FpgaReset'
<1>1. /\ 1 \in Ranks /\ 2 \in Ranks /\ 3 \in Ranks /\ 4 \in Ranks /\ "recv" \in Dirs /\ "send" \in Dirs
      /\ irq' = irq /\ due' = due /\ tag' = tag
  <2>1. irq' = irq /\ due' = due /\ tag' = tag
    BY DEF NewTxn, NewTxnLen, threadVars, callVars, fpgaVars, historyVars
  <2>2. QED BY <2>1, Names
<1>2. \A d \in Dirs :
        \/ SamePort(d)
        \/ /\ d = "recv" /\ port[d].st = "new" /\ port'[d].st = "write"
           /\ port'[d].len = port[d].len /\ port'[d].moved = port[d].moved
           /\ port'[d].sg = port[d].sg /\ port'[d].request = port[d].request
  <2>1. CASE NewTxn
    <3> DEFINE st == IF port["recv"].st = "new" THEN "write" ELSE port["recv"].st
               r == [port["recv"] EXCEPT !.st = st]
    <3>1. port' = [port EXCEPT !["recv"] = r] /\ (port["recv"].st = "new" => st = "write")
          /\ (port["recv"].st # "new" => st = port["recv"].st)
      BY <2>1 DEF ChanTypes, NewTxn
    <3> HIDE DEF st
    <3>2. port'["recv"] = r /\ port'["send"] = port["send"]
      BY <1>1, <3>1, Names DEF ChanTypes
    <3>3. r.st = st /\ r.len = port["recv"].len /\ r.moved = port["recv"].moved
          /\ r.sg = port["recv"].sg /\ r.request = port["recv"].request
          /\ r.doneLen = port["recv"].doneLen
      BY <1>1 DEF ChanTypes, PortType
    <3> HIDE DEF r
    <3>4. QED BY <3>1, <3>2, <3>3 DEF SamePort, Dirs
  <2>2. CASE NewTxnLen
    BY <2>2 DEF NewTxnLen, fpgaVars, SamePort
  <2>3. QED BY <2>1, <2>2
<1>3. /\ \/ port'["recv"].st = port["recv"].st
         \/ port["recv"].st = "new" /\ port'["recv"].st = "write"
      /\ port'["recv"].len = port["recv"].len /\ port'["recv"].moved = port["recv"].moved
      /\ port'["recv"].sg = port["recv"].sg /\ port'["recv"].request = port["recv"].request
      /\ port'["send"].st = port["send"].st /\ port'["send"].sg = port["send"].sg
      /\ port'["send"].request = port["send"].request
  <2>1. "send" # "recv"
    BY Names
  <2>2. QED BY <1>1, <1>2, <2>1 DEF SamePort
<1>4. FpgaReset'
  <2>1. Quiet("recv")' /\ Quiet("send")'
    BY <1>3, Names DEF FpgaReset, Quiet
  <2>2. QED BY <1>1, <1>3, <2>1 DEF FpgaReset
<1>5. QED BY <1>4

LEMMA NoPortSteps ==
  ASSUME FpgaReset
  PROVE  ~\E d \in Dirs : FetchSg(d) \/ Moved(d) \/ PortDone(d)
<1>1. ASSUME NEW d \in Dirs, FetchSg(d) \/ Moved(d) \/ PortDone(d)
      PROVE  FALSE
  <2>1. Quiet(d)
    BY DEF FpgaReset, Dirs
  <2>2. ~(0 > 0)
    OBVIOUS
  <2>3. QED BY <1>1, <2>1, <2>2 DEF Quiet, FetchSg, Moved, PortDone
<1>2. QED BY <1>1

LEMMA ResetKept ==
  ASSUME ChanTypes, FpgaReset, Handler \/ Fpga \/ \E n \in TxnLens : AppSends(n)
  PROVE  FpgaReset'
<1>1. CASE HandlerEnter \/ HandlerReturn \/ Interrupt \/ HandlerRead
  <2>1. /\ irq'.vect = irq.vect \/ irq'.vect = {}
        /\ port' = port /\ due' = due /\ tag' = tag
    <3>1. port' = port /\ due' = due /\ tag' = tag
      BY <1>1 DEF HandlerEnter, HandlerReturn, HandlerRead, Interrupt, threadVars, callVars,
                  fpgaVars, historyVars
    <3>2. irq'.vect = irq.vect \/ irq'.vect = {}
      <4>1. CASE HandlerEnter \/ Interrupt
        BY <4>1 DEF HandlerEnter, Interrupt, ChanTypes, IrqType
      <4>2. CASE HandlerReturn
        BY <4>2 DEF HandlerReturn, fpgaVars
      <4>3. CASE HandlerRead
        BY <4>3 DEF HandlerRead
      <4>4. QED BY <1>1, <4>1, <4>2, <4>3
    <3>3. QED BY <3>1, <3>2
  <2>2. QED BY <2>1 DEF FpgaReset, Quiet
<1>2. CASE NewTxn \/ NewTxnLen
  BY <1>2, NewPort
<1>3. ASSUME NEW d \in Dirs, NEW e, SgBufRead(d, e) \/ TxnDone(d, e)
      PROVE  FpgaReset'
  <2>1. irq' = irq /\ due' = due /\ tag' = tag
    BY <1>3 DEF SgBufRead, TxnDone, threadVars, callVars, fpgaVars, historyVars
  <2>2. \A c \in Dirs : /\ port'[c].st = port[c].st /\ port'[c].len = port[c].len
                        /\ port'[c].moved = port[c].moved /\ port'[c].sg = port[c].sg
                        /\ port'[c].request = port[c].request
    <3>1. CASE port' = port
      BY <3>1
    <3>2. CASE port' = [port EXCEPT ![d].doneRead = TRUE]
      BY <3>2 DEF ChanTypes, PortType
    <3>3. QED BY <1>3, <3>1, <3>2 DEF SgBufRead, TxnDone, fpgaVars
  <2>3. Quiet("recv")' /\ Quiet("send")'
    BY <2>2 DEF FpgaReset, Quiet, Dirs
  <2>4. QED BY <2>1, <2>2, <2>3 DEF FpgaReset, Dirs
<1>4. CASE \E n \in TxnLens : AppSends(n)
  <2>1. PICK n \in TxnLens : AppSends(n)
    BY <1>4
  <2>2. /\ due' = due /\ tag' = ~tag /\ tag \in BOOLEAN /\ due \in BOOLEAN
    BY <2>1 DEF AppSends, threadVars, callVars, ChanTypes
  <2>3. /\ port["recv"].st = "idle"
        /\ port'["recv"].st = "new" /\ port'["recv"].len = n /\ port'["recv"].moved = 0
        /\ port'["recv"].sg = << >> /\ port'["recv"].request = 0
        /\ port'["send"] = port["send"]
        /\ irq'.vect = irq.vect \cup {"recv txn"}
    BY <2>1, SendsEffect
  <2>4. n > 0
    <3>1. n \in Nat \ {0}
      BY ChannelAssumption
    <3>2. QED BY <3>1
  <2>5. Quiet("recv")' /\ Quiet("send")'
    BY <2>3, <2>4, Names DEF FpgaReset, Quiet
  <2>6. QED BY <2>2, <2>3, <2>5 DEF FpgaReset
<1>5. ~\E d \in Dirs : FetchSg(d) \/ Moved(d) \/ PortDone(d)
  BY NoPortSteps
<1>6. "recv" \in Dirs /\ "send" \in Dirs
  BY Names
<1>7. QED BY <1>1, <1>2, <1>3, <1>4, <1>5, <1>6 DEF Handler, Fpga, WritePage, ReadPage

\* A handler that was under way brings what its vector held, and it fits.
LEMMA WaitingPush ==
  ASSUME ChanTypes, Places, StillFits, stale = FALSE, NewTxn \/ NewTxnLen
  PROVE  StillFits' /\ \A c \in Dirs : dir'[c].lost = dir[c].lost
<1>1. 1 \in Ranks /\ 2 \in Ranks /\ 3 \in Ranks /\ 4 \in Ranks /\ "recv" \in Dirs /\ "send" \in Dirs
  BY Names
<1> DEFINE len == Len(dir["recv"].msgs)
<1>2. len \in Nat /\ len + Brings <= 4 /\ dir["recv"].msgs \in Seq(Messages)
  <2>1. dir["recv"].msgs \in Seq(Messages)
    BY <1>1 DEF ChanTypes, DirType
  <2>2. QED BY <2>1 DEF StillFits
<1>3. PICK m \in Messages : Push("recv", m)
  <2>1. Message("TXN_OFFLAST", 1) \in Messages /\ Message("TXN_LEN", h.len) \in Messages
    BY DEF Message, Messages, ChanTypes, HandlerType
  <2>2. QED BY <2>1 DEF NewTxn, NewTxnLen
<1>4. h.pc = "work" /\ h'.pc = "work"
  BY DEF NewTxn, NewTxnLen, First, Processed, ChanTypes, HandlerType
<1>5. /\ \A d \in Dirs : \A r \in 1 .. 2 : Event(d, r) # Event("recv", 4)
      /\ \A r \in {3, 4} : Event("send", r) = "none"
      /\ "none" # Event("recv", 4) /\ "none" \notin h.vect
  <2>1. \A d \in Dirs : \A r \in 1 .. 2 : Event(d, r) # Event("recv", 4)
    <3>1. (\A r \in 1 .. 2 : r \in Ranks /\ r # 4) /\ \A d \in Dirs : d = "recv" \/ d = "send"
      BY DEF Ranks, Dirs
    <3>2. QED BY <1>1, <3>1, Names
  <2>2. \A r \in {3, 4} : Event("send", r) = "none"
    <3>1. 3 # 1 /\ 3 # 2 /\ 4 # 1 /\ 4 # 2 /\ "send" # "recv"
      OBVIOUS
    <3>2. QED BY <3>1 DEF Event
  <2>3. "none" # Event("recv", 4)
    BY Names
  <2>4. "none" \notin h.vect
    BY DEF ChanTypes, HandlerType, Events
  <2>5. QED BY <2>1, <2>2, <2>3, <2>4
<1>6. /\ Brings > 0 /\ Brings \in Nat /\ Brings' \in Nat /\ Brings' = Brings - 1
      /\ \A d \in Dirs : \A r \in 1 .. 2 : InH(d, r)' => InH(d, r)
      /\ ~InH("send", 3)' /\ ~InH("send", 4)'
  <2>1. CASE NewTxn
    <3>1. InH("recv", 3) /\ h'.vect = (h.vect \ {Event("recv", 3)}) \cup {Event("recv", 4)}
      BY <2>1, Names DEF NewTxn, First, InH, ChanTypes, HandlerType
    <3>2. Event("recv", 3) # Event("recv", 4)
      BY Names
    <3>3. Brings = 2 /\ Brings' = 1
      BY <3>1, <3>2 DEF Brings, InH
    <3>4. \A d \in Dirs : \A r \in 1 .. 2 : InH(d, r)' => InH(d, r)
      BY <1>5, <3>1 DEF InH
    <3>5. ~InH("send", 3)' /\ ~InH("send", 4)'
      BY <1>5, <3>1 DEF InH
    <3>6. QED BY <3>3, <3>4, <3>5
  <2>2. CASE NewTxnLen
    <3>1. InH("recv", 4) /\ ~InH("recv", 3) /\ h'.vect = h.vect \ {Event("recv", 4)}
      <4>1. First(Event("recv", 4)) /\ Processed(Event("recv", 4))
        BY <2>2, Names DEF NewTxnLen
      <4>2. ~(4 <= 3)
        OBVIOUS
      <4>3. InH("recv", 4) /\ ~InH("recv", 3)
        BY <1>1, <4>1, <4>2, FirstRank
      <4>4. QED BY <4>1, <4>3 DEF Processed, ChanTypes, HandlerType
    <3>2. Event("recv", 3) # Event("recv", 4)
      BY Names
    <3>3. Brings = 1 /\ Brings' = 0
      BY <3>1, <3>2 DEF Brings, InH
    <3>4. \A d \in Dirs : \A r \in 1 .. 2 : InH(d, r)' => InH(d, r)
      BY <3>1 DEF InH
    <3>5. ~InH("send", 3)' /\ ~InH("send", 4)'
      BY <1>5, <3>1 DEF InH
    <3>6. QED BY <3>3, <3>4, <3>5
  <2>3. QED BY <2>1, <2>2
<1>7. /\ Len(dir'["recv"].msgs) = len + 1
      /\ \A c \in Dirs : dir'[c].lost = dir[c].lost
  <2>1. len < Place("recv")
    <3>1. RecvPlaces \in Nat /\ RecvPlaces >= 4
      BY ChannelAssumption DEF Places
    <3>2. QED BY <1>2, <1>6, <3>1 DEF Place
  <2>2. ~(len >= Place("recv"))
    <3>1. Place("recv") \in Nat
      BY ChannelAssumption DEF Place
    <3>2. QED BY <1>2, <2>1, <3>1
  <2>3. dir'["recv"].msgs = Append(dir["recv"].msgs, m)
    BY <1>1, <1>3, <2>1, PushEffect
  <2>4. \A c \in Dirs : dir'[c].lost = dir[c].lost
    <3>1. dir["recv"].lost \in BOOLEAN
      BY <1>1 DEF ChanTypes, DirType
    <3>2. dir'["recv"].lost = dir["recv"].lost
      BY <1>1, <1>3, <2>2, <3>1, PushEffect
    <3>3. QED BY <1>1, <1>3, <3>2, PushEffect
  <2>5. QED BY <1>2, <2>3, <2>4
<1>8. StillFits'
  <2>1. Len(dir'["recv"].msgs) + Brings' <= 4
    BY <1>2, <1>6, <1>7
  <2>2. ~InH("recv", 1)' /\ ~InH("recv", 2)' /\ ~InH("send", 1)' /\ ~InH("send", 2)'
    BY <1>1, <1>6 DEF StillFits
  <2>3. \A r \in Ranks : r = 1 \/ r = 2 \/ r = 3 \/ r = 4
    BY DEF Ranks
  <2>4. \A r \in Ranks : ~InH("send", r)'
    BY <1>6, <2>2, <2>3
  <2>5. QED BY <1>4, <2>1, <2>2, <2>4 DEF StillFits
<1>9. QED BY <1>7, <1>8

LEMMA WaitingStep ==
  ASSUME ChanTypes, Places, ThreadRight, FpgaReset, StillFits, stale = FALSE,
         Resetting, Handler \/ Fpga \/ \E n \in TxnLens : AppSends(n)
  PROVE  StillFits' /\ stray' = stray
         /\ \A c \in Dirs : dir'[c].lost = dir[c].lost
<1>1. 1 \in Ranks /\ 2 \in Ranks /\ 3 \in Ranks /\ 4 \in Ranks /\ "recv" \in Dirs /\ "send" \in Dirs
  BY Names
<1>2. CASE HandlerEnter \/ HandlerReturn \/ Interrupt
  <2>1. /\ h'.vect = h.vect /\ (h'.pc = "read" => h.pc = "read") /\ irq'.vect = irq.vect
        /\ port' = port /\ due' = due /\ tag' = tag /\ stray' = stray
        /\ \A c \in Dirs : dir'[c].msgs = dir[c].msgs /\ dir'[c].lost = dir[c].lost
    <3>1. CASE HandlerEnter
      <4>1. disabled
        BY DEF ThreadRight
      <4>2. QED BY <3>1, <4>1
                DEF HandlerEnter, ChanTypes, IrqType, threadVars, callVars, historyVars
    <3>2. CASE HandlerReturn
      <4>1. \A c \in Dirs : dir'[c].msgs = dir[c].msgs /\ dir'[c].lost = dir[c].lost
        BY <3>2 DEF HandlerReturn, ChanTypes, DirType
      <4>2. QED BY <3>2, <4>1
                DEF HandlerReturn, ChanTypes, HandlerType, threadVars, callVars, fpgaVars, historyVars
    <3>3. CASE Interrupt
      BY <3>3 DEF Interrupt, ChanTypes, IrqType, threadVars, callVars, historyVars
    <3>4. QED BY <1>2, <3>1, <3>2, <3>3
  <2>2. Brings' = Brings /\ \A d \in Dirs : \A r \in Ranks : InH(d, r)' <=> InH(d, r)
    BY <2>1 DEF Brings, InH
  <2>3. StillFits'
    BY <1>1, <2>1, <2>2 DEF StillFits
  <2>4. QED BY <2>1, <2>3
<1>3. CASE HandlerRead
  <2>1. /\ h.pc = "read" /\ h'.vect = irq.vect /\ h'.pc = "work" /\ irq'.vect = {}
        /\ port' = port /\ due' = due /\ tag' = tag /\ stray' = stray /\ dir' = dir
    BY <1>3 DEF HandlerRead, ChanTypes, HandlerType, threadVars, callVars, historyVars
  <2>2. h'.vect \subseteq {"recv txn"}
    BY <2>1 DEF FpgaReset
  <2>3. /\ \A r \in Ranks : ~InH("send", r)'
        /\ ~InH("recv", 1)' /\ ~InH("recv", 2)'
    <3>1. \A r \in Ranks : Event("send", r) # "recv txn"
      BY DEF Event
    <3>2. Event("recv", 1) # "recv txn" /\ Event("recv", 2) # "recv txn"
      BY DEF Event
    <3>3. QED BY <2>2, <3>1, <3>2 DEF InH
  <2>4. Len(dir["recv"].msgs) <= 2 /\ Len(dir["recv"].msgs) \in Nat
    <3>1. dir["recv"].msgs \in Seq(Messages)
      BY <1>1 DEF ChanTypes, DirType
    <3>2. Len(dir["recv"].msgs) <= 2
      BY <2>1 DEF StillFits
    <3>3. QED BY <3>1, <3>2
  <2>5. Brings' \in Nat /\ Brings' <= 2
    BY DEF Brings, InH
  <2>6. Len(dir'["recv"].msgs) + Brings' <= 4
    BY <2>1, <2>4, <2>5
  <2>7. StillFits'
    BY <2>1, <2>3, <2>6 DEF StillFits
  <2>8. QED BY <2>1, <2>7
<1>4. CASE NewTxn \/ NewTxnLen
  <2>1. stray' = stray
    BY <1>4 DEF NewTxn, NewTxnLen, historyVars
  <2>2. QED BY <1>4, <2>1, WaitingPush
<1>5. ~\E d \in Dirs : FetchSg(d) \/ Moved(d) \/ PortDone(d)
  BY NoPortSteps
<1>6. ~(\/ SgBufRead("recv", "recv sg") \/ SgBufRead("send", "send sg")
        \/ TxnDone("recv", "recv done") \/ TxnDone("send", "send done"))
  <2>1. /\ "recv sg" \notin h.vect /\ "recv done" \notin h.vect
        /\ "send sg" \notin h.vect /\ "send done" \notin h.vect
    <3>1. ~InH("recv", 1) /\ ~InH("recv", 2) /\ ~InH("send", 1) /\ ~InH("send", 2)
      BY <1>1 DEF StillFits
    <3>2. /\ Event("recv", 1) = "recv sg" /\ Event("recv", 2) = "recv done"
          /\ Event("send", 1) = "send sg" /\ Event("send", 2) = "send done"
      BY DEF Event
    <3>3. QED BY <3>1, <3>2 DEF InH
  <2>2. QED BY <2>1 DEF SgBufRead, TxnDone, First
<1>7. CASE \E n \in TxnLens : AppSends(n)
  <2>1. PICK n \in TxnLens : AppSends(n)
    BY <1>7
  <2>2. h' = h /\ dir' = dir /\ stray' = stray
    BY <2>1 DEF AppSends
  <2>3. Brings' = Brings /\ \A d \in Dirs : \A r \in Ranks : InH(d, r)' <=> InH(d, r)
    BY <2>2 DEF Brings, InH
  <2>4. StillFits'
    BY <1>1, <2>2, <2>3 DEF StillFits
  <2>5. QED BY <2>2, <2>4
<1>8. QED BY <1>1, <1>2, <1>3, <1>4, <1>5, <1>6, <1>7 DEF Handler, Fpga, WritePage, ReadPage

-----------------------------------------------------------------------------
(* Every step keeps the invariant.  First where a step may leave from, and *)
(* what it does to the thread's place, stale and the histories.            *)

LEMMA Emptied ==
  ASSUME Emptying, [ChannelNext]_channelVars
  PROVE  \/ Handler \/ Fpga \/ \E n \in TxnLens : AppSends(n)
         \/ ResetQueues \/ UNCHANGED channelVars
<1>1. ~Expire /\ ~Calls
  BY DEF Emptying, Expire, Calls, chnl_recv, chnl_send, Begin, ResetBegin, At
<1>2. Thread => ResetQueues
  BY DEF Emptying, At, Thread, SendFill, Pop, PrepareToWait, PopAgain, Woken, FinishWait,
         RecvOffLast, RecvLen, RecvSgBufRead, RecvTxnDone, SendSgBufRead, SendTxnDone,
         MessageIs, ResetFpga, ResetEnd
<1>3. QED BY <1>1, <1>2 DEF ChannelNext

LEMMA NotEmptied ==
  ASSUME ChanTypes, [ChannelNext]_channelVars, ~Emptying, ~ResetFpga
  PROVE  ~Emptying'
<1>1. t \in ThreadType
  BY DEF ChanTypes
<1>2. CASE Handler \/ Fpga \/ (\E n \in TxnLens : AppSends(n)) \/ UNCHANGED channelVars
  <2>1. t' = t
    BY <1>2 DEF Handler, HandlerEnter, HandlerRead, HandlerReturn, SgBufRead, TxnDone, NewTxn,
                NewTxnLen, Fpga, Interrupt, FetchSg, PortDone, WritePage, ReadPage, AppSends,
                threadVars, channelVars
  <2>2. QED BY <2>1 DEF Emptying
<1>3. CASE Calls
  <2>1. t'.pc \in {"pop", "fill", "reset fpga"}
    <3>1. CASE ResetBegin
      BY <3>1 DEF ResetBegin, Idle
    <3>2. ASSUME NEW d \in Dirs, NEW n, Begin(d, n)
          PROVE  t'.pc \in {"pop", "fill"}
      BY <3>2 DEF Begin, Idle
    <3>3. ASSUME NEW n \in BufLens, chnl_recv(n) \/ chnl_send(n)
          PROVE  t'.pc \in {"pop", "fill"}
      BY <3>2, <3>3 DEF chnl_recv, chnl_send, Dirs
    <3>4. QED BY <1>3, <3>1, <3>3 DEF Calls
  <2>2. QED BY <2>1 DEF Emptying
<1>4. CASE \E how, n : Return(how, n)
  <2>1. t'.pc = "idle"
    BY <1>4 DEF Return, Idle
  <2>2. QED BY <2>1 DEF Emptying
<1>5. CASE t'.pc \in {"prepare", "pop again", "finish wait", "message", "asleep", "pop"}
  BY <1>5 DEF Emptying
<1>6. CASE Thread \/ Expire
  <2>1. CASE Pop \/ PopAgain
    BY <1>1, <1>5, <2>1 DEF Pop, PopAgain, TakeMessage, ThreadType
  <2>2. CASE PrepareToWait \/ Woken \/ Expire \/ RecvOffLast
    BY <1>1, <1>5, <2>2 DEF PrepareToWait, Woken, Expire, RecvOffLast, ThreadType
  <2>3. CASE SendFill \/ RecvLen
    BY <1>1, <1>4, <1>5, <2>3 DEF SendFill, RecvLen, ThreadType
  <2>4. CASE FinishWait
    BY <1>1, <1>4, <1>5, <2>4 DEF FinishWait, ThreadType
  <2>5. CASE RecvSgBufRead \/ RecvTxnDone \/ SendSgBufRead \/ SendTxnDone
    BY <1>1, <1>4, <1>5, <2>5 DEF RecvSgBufRead, RecvTxnDone, SendSgBufRead, SendTxnDone,
                                  Ignored, NextList, ThreadType
  <2>6. CASE ResetQueues \/ ResetEnd
    <3>1. CASE ResetEnd
      <4>1. t'.pc = "idle"
        BY <3>1 DEF ResetEnd, Idle
      <4>2. QED BY <4>1 DEF Emptying
    <3>2. CASE ResetQueues
      <4>1. t' = [t EXCEPT !.pc = "reset end"]
        BY <3>2 DEF ResetQueues
      <4>2. t'.pc = "reset end"
        BY <1>1, <4>1 DEF ThreadType
      <4>3. QED BY <4>2 DEF Emptying
    <3>3. QED BY <2>6, <3>1, <3>2
  <2>7. QED BY <1>6, <2>1, <2>2, <2>3, <2>4, <2>5, <2>6 DEF Thread
<1>7. QED BY <1>2, <1>3, <1>6 DEF ChannelNext

\* The abandonment of a transfer is forgotten when the queues are emptied only.
LEMMA StaleEnds ==
  ASSUME [ChannelNext]_channelVars, stale = TRUE, stale' = FALSE
  PROVE  ResetQueues
<1>1. ~ \E how, n : Return(how, n)
  BY DEF Return
<1>2. stale' = stale \/ ResetQueues
  BY <1>1 DEF ChannelNext, Thread, SendFill, Pop, PrepareToWait, PopAgain, Woken, FinishWait,
       RecvOffLast, RecvLen, RecvSgBufRead, RecvTxnDone, SendSgBufRead, SendTxnDone, Ignored,
       NextList, ResetFpga, ResetEnd, Expire, Calls, chnl_recv, chnl_send, Begin, ResetBegin,
       Handler, HandlerEnter, HandlerRead, HandlerReturn, SgBufRead, TxnDone, NewTxn,
       NewTxnLen, Fpga, Interrupt, FetchSg, PortDone, WritePage, ReadPage, AppSends,
       threadVars, callVars, channelVars
<1>3. QED BY <1>2

\* Only the handler drops an event, ...
LEMMA LostKept ==
  ASSUME ChanTypes,
         \/ Thread \/ Calls \/ Expire \/ Fpga \/ \E n \in TxnLens : AppSends(n)
         \/ UNCHANGED channelVars
  PROVE  \A c \in Dirs : dir'[c].lost = dir[c].lost
<1>1. CASE dir' = dir
  BY <1>1
<1>2. ASSUME NEW d, NEW n, NEW s, GiveList(d, n, s)
      PROVE  \A c \in Dirs : dir'[c].lost = dir[c].lost
  BY <1>2 DEF GiveList, ChanTypes, DirType
<1>3. CASE Fpga \/ (\E n \in TxnLens : AppSends(n)) \/ UNCHANGED channelVars
  <2>1. ASSUME NEW d \in Dirs, FetchSg(d)
        PROVE  \A c \in Dirs : dir'[c].lost = dir[c].lost
    BY <2>1, FetchEffect
  <2>2. QED BY <1>1, <1>3, <2>1 DEF Fpga, Interrupt, PortDone, WritePage, ReadPage, AppSends,
                                    channelVars
<1>4. CASE Calls
  <2>1. ASSUME NEW n \in BufLens, chnl_send(n)
        PROVE  \A c \in Dirs : dir'[c].lost = dir[c].lost
    <3>1. dir'["recv"].lost = dir["recv"].lost /\ dir'["send"].lost = dir["send"].lost
      BY <2>1, CallsSendEffect
    <3>2. QED BY <3>1 DEF Dirs
  <2>2. QED BY <1>1, <1>4, <2>1 DEF Calls, chnl_recv, ResetBegin
<1>5. CASE Pop \/ PrepareToWait \/ PopAgain \/ FinishWait \/ Woken \/ Expire
  BY <1>5, WaitEffect
<1>6. CASE SendFill \/ RecvLen
  BY <1>1, <1>2, <1>6, Zenon DEF SendFill, RecvLen
<1>7. CASE RecvSgBufRead \/ RecvTxnDone \/ SendSgBufRead \/ SendTxnDone
  BY <1>1, <1>2, <1>7, Zenon DEF RecvSgBufRead, RecvTxnDone, SendSgBufRead, SendTxnDone,
                                 Ignored, NextList
<1>8. CASE RecvOffLast \/ ResetFpga \/ ResetEnd
  BY <1>1, <1>8 DEF RecvOffLast, ResetFpga, ResetEnd
<1>9. CASE ResetQueues
  BY <1>9 DEF ResetQueues, ChanTypes, DirType
<1>10. QED BY <1>3, <1>4, <1>5, <1>6, <1>7, <1>8, <1>9 DEF Thread

\* ... and none that counts while an abandoned transfer may be under way.
LEMMA StaleLost ==
  ASSUME ChanTypes, Handler, stale = TRUE
  PROVE  \A c \in Dirs : dir'[c].lost = dir[c].lost
<1>1. ASSUME NEW d \in Dirs, NEW m, Push(d, m)
      PROVE  \A c \in Dirs : dir'[c].lost = dir[c].lost
  <2>1. dir[d].lost \in BOOLEAN
    BY DEF ChanTypes, DirType
  <2>2. dir'[d].lost = dir[d].lost
    BY <1>1, <2>1, PushEffect
  <2>3. QED BY <1>1, <2>2, PushEffect
<1>2. CASE dir' = dir
  BY <1>2
<1>3. CASE HandlerReturn
  BY <1>3 DEF HandlerReturn, ChanTypes, DirType
<1>4. "recv" \in Dirs /\ "send" \in Dirs
  BY Names
<1>5. QED BY <1>1, <1>2, <1>3, <1>4
             DEF Handler, HandlerEnter, HandlerRead, SgBufRead, TxnDone, NewTxn, NewTxnLen

\* A page is touched by WritePage and ReadPage only, and noted unless stale.
LEMMA StrayKept ==
  ASSUME \/ Thread \/ Calls \/ Expire \/ Handler \/ UNCHANGED channelVars
         \/ stale = TRUE /\ (Fpga \/ \E n \in TxnLens : AppSends(n))
  PROVE  stray' = stray
<1>1. CASE stale = TRUE /\ (Fpga \/ \E n \in TxnLens : AppSends(n))
  BY <1>1 DEF Fpga, WritePage, ReadPage, Moved, Interrupt, FetchSg, PortDone, AppSends,
              historyVars
<1>2. CASE Calls \/ Expire \/ UNCHANGED channelVars
  BY <1>2 DEF Calls, chnl_recv, chnl_send, ResetBegin, Expire, historyVars, channelVars
<1>3. CASE Handler
  BY <1>3 DEF Handler, HandlerEnter, HandlerRead, HandlerReturn, SgBufRead, TxnDone, NewTxn,
              NewTxnLen, historyVars
<1>4. CASE Thread
  BY <1>4 DEF Thread, SendFill, Pop, PrepareToWait, PopAgain, Woken, FinishWait, RecvOffLast,
              RecvLen, RecvSgBufRead, RecvTxnDone, SendSgBufRead, SendTxnDone, ResetFpga,
              ResetQueues, ResetEnd, historyVars
<1>5. QED BY <1>1, <1>2, <1>3, <1>4

-----------------------------------------------------------------------------
(* What a call has returned stays true until the next one begins.          *)

\* Between calls the FPGA has no list: it moves no page.
LEMMA NothingMoves ==
  ASSUME ChanTypes, ThreadRight, Underway, t.pc = "idle"
  PROVE  ~WritePage /\ ~ReadPage
<1>1. t.dir = "recv" /\ t.lists = 0 /\ "recv" # "send" /\ ~(0 > 0)
  <2>1. t.dir = "recv" /\ t.lists = 0
    BY DEF ThreadRight
  <2>2. "recv" # "send" /\ ~(0 > 0)
    OBVIOUS
  <2>3. QED BY <2>1, <2>2
<1>2. ~Serving("recv") /\ ~Serving("send")
  BY <1>1, Zenon DEF Serving
<1>3. port["recv"].sg = << >> /\ port["send"].sg = << >>
  BY <1>2 DEF Underway, Transfer, Quiet
<1>4. QED BY <1>3 DEF WritePage, ReadPage, Moved

\* Only the message that the transaction is over makes a call return a length.
LEMMA ResultOfDone ==
  ASSUME Thread \/ Expire, ret'.how = "done", ret' # ret
  PROVE  (RecvTxnDone \/ SendTxnDone) /\ stale = FALSE /\ stale' = FALSE
<1>1. ASSUME NEW how, NEW n, Return(how, n)
      PROVE  how = "done" /\ ~stale /\ stale' = FALSE
  BY <1>1 DEF Return, NoResult
<1>2. CASE \E how, n : how # "done" /\ Return(how, n)
  BY <1>1, <1>2
<1>3. CASE ret' = ret
  BY <1>3
<1>4. CASE RecvTxnDone \/ SendTxnDone
  <2>1. ~stale /\ stale' = FALSE
    BY <1>1, <1>3, <1>4 DEF RecvTxnDone, SendTxnDone, Ignored, callVars
  <2>2. QED BY <1>4, <2>1
<1>5. CASE SendFill \/ FinishWait \/ RecvLen
  BY <1>2, <1>3, <1>5 DEF SendFill, FinishWait, RecvLen, callVars
<1>6. CASE RecvSgBufRead \/ SendSgBufRead
  BY <1>2, <1>3, <1>6 DEF RecvSgBufRead, SendSgBufRead, Ignored, NextList, callVars
<1>7. CASE \/ Pop \/ PrepareToWait \/ PopAgain \/ Woken \/ RecvOffLast
           \/ ResetFpga \/ ResetQueues \/ ResetEnd \/ Expire
  BY <1>3, <1>7 DEF Pop, PrepareToWait, PopAgain, Woken, RecvOffLast, ResetFpga, ResetQueues,
                    ResetEnd, Expire, callVars
<1>8. QED BY <1>4, <1>5, <1>6, <1>7 DEF Thread

LEMMA ResultStep ==
  ASSUME ChanInv, [ChannelNext]_channelVars
  PROVE  ret'.how = "done" => ~stale' /\ Delivered' /\ t'.pc = "idle"
<1>1. /\ ChanTypes /\ ThreadRight
      /\ ret.how = "done" => ~stale /\ Delivered /\ t.pc = "idle"
      /\ ~stale => IF Emptying THEN StillFits ELSE Underway
      /\ stale \in BOOLEAN
  BY DEF ChanInv, ChanTypes
<1>2. SUFFICES ASSUME ret'.how = "done"
               PROVE  ~stale' /\ Delivered' /\ t'.pc = "idle"
  OBVIOUS
<1>3. CASE Calls
  <2>1. ret' = NoResult
    BY <1>3 DEF Calls, chnl_recv, chnl_send, Begin, ResetBegin
  <2>2. NoResult.how # "done"
    BY DEF NoResult
  <2>3. QED BY <1>2, <2>1, <2>2
<1>4. CASE Thread \/ Expire
  <2>1. t.pc # "idle"
    BY <1>4 DEF Thread, SendFill, Pop, PrepareToWait, PopAgain, Woken, FinishWait, RecvOffLast,
                RecvLen, RecvSgBufRead, RecvTxnDone, SendSgBufRead, SendTxnDone, MessageIs,
                ResetFpga, ResetQueues, ResetEnd, Expire, At
  <2>2. (RecvTxnDone \/ SendTxnDone) /\ stale = FALSE /\ stale' = FALSE
    <3>1. ret' # ret
      BY <1>1, <1>2, <2>1
    <3>2. QED BY <1>2, <1>4, <3>1, ResultOfDone
  <2>3. ~Emptying
    BY <2>2 DEF Emptying, RecvTxnDone, SendTxnDone, MessageIs, At
  <2>4. QED BY <1>1, <1>2, <2>2, <2>3, OverStep
<1>5. CASE Handler \/ Fpga \/ (\E n \in TxnLens : AppSends(n)) \/ UNCHANGED channelVars
  <2>1. t' = t /\ ret' = ret /\ stale' = stale
    BY <1>5 DEF Handler, HandlerEnter, HandlerRead, HandlerReturn, SgBufRead, TxnDone, NewTxn,
                NewTxnLen, Fpga, Interrupt, FetchSg, PortDone, WritePage, ReadPage, AppSends,
                threadVars, callVars, channelVars
  <2>2. ~stale /\ Delivered /\ t.pc = "idle"
    BY <1>1, <1>2, <2>1
  <2>3. ~Emptying
    BY <2>2 DEF Emptying
  <2>4. ~WritePage /\ ~ReadPage
    BY <1>1, <2>2, <2>3, NothingMoves
  <2>5. mem' = mem /\ took' = took
    BY <1>5, <2>4 DEF Handler, HandlerEnter, HandlerRead, HandlerReturn, SgBufRead, TxnDone,
                NewTxn, NewTxnLen, Fpga, Interrupt, FetchSg, PortDone, AppSends, threadVars,
                callVars, channelVars
  <2>6. QED BY <2>1, <2>2, <2>5 DEF Delivered
<1>6. QED BY <1>3, <1>4, <1>5 DEF ChannelNext

-----------------------------------------------------------------------------
(* A transfer under way stays right, or ends, or is given up.              *)

LEMMA CallStep ==
  ASSUME ChanTypes, ThreadRight, Underway, stale = FALSE, Calls
  PROVE  Underway'
<1>1. Announced
  BY DEF Underway
<1>2. CASE ResetBegin \/ \E n \in BufLens : chnl_recv(n)
  <2>1. Quietly
    BY <1>1, <1>2, QuietSteps
  <2>2. QED BY <2>1, QuietStep
<1>3. ASSUME NEW n \in BufLens, chnl_send(n)
      PROVE  Underway'
  BY <1>3, SendCallStep
<1>4. QED BY <1>2, <1>3 DEF Calls

LEMMA UnderwayStep ==
  ASSUME ChanTypes, Places, ListThere, ThreadRight, Underway, stale = FALSE, stale' = FALSE,
         ~Emptying, ~ResetFpga, [ChannelNext]_channelVars
  PROVE  Underway'
<1>1. Announced
  BY DEF Underway
<1>2. CASE \/ HandlerEnter \/ HandlerReturn \/ Interrupt \/ PrepareToWait \/ Woken \/ Expire
           \/ FinishWait \/ ResetEnd \/ UNCHANGED channelVars
  <2>1. CASE \/ HandlerEnter \/ HandlerReturn \/ Interrupt \/ PrepareToWait \/ Woken \/ Expire
             \/ ResetEnd
    BY <1>1, <2>1, QuietSteps, QuietStep
  <2>2. CASE FinishWait
    BY <1>1, <2>2, QuietSteps, QuietStep
  <2>3. CASE UNCHANGED channelVars
    BY <1>1, <2>3, QuietSteps, QuietStep
  <2>4. QED BY <1>2, <2>1, <2>2, <2>3
<1>3. CASE Pop \/ PopAgain
  <2>1. CASE Msgs = << >>
    <3>1. Quietly
      BY <1>1, <1>3, <2>1, QuietSteps
    <3>2. QED BY <3>1, QuietStep
  <2>2. CASE Msgs # << >>
    BY <1>3, <2>2, TakeStep
  <2>3. QED BY <2>1, <2>2
<1>4. CASE Handler /\ ~HandlerEnter /\ ~HandlerReturn
  BY <1>4, HandlerStep
<1>5. CASE (Fpga /\ ~Interrupt) \/ \E n \in TxnLens : AppSends(n)
  BY <1>5, FpgaStep DEF Fpga
<1>6. CASE \/ Calls \/ SendFill \/ RecvOffLast \/ RecvLen \/ RecvSgBufRead
           \/ RecvTxnDone \/ SendSgBufRead \/ SendTxnDone
  BY <1>6, CallStep, FillStep, OffLastStep, LenStep, NextStep, OverStep
<1>7. ~ResetQueues
  BY DEF ResetQueues, At, Emptying
<1>8. QED BY <1>2, <1>3, <1>4, <1>5, <1>6, <1>7 DEF ChannelNext, Thread, Fpga

\* The histories of a transfer that was not abandoned: an event is dropped, or a
\* page touched that is not pinned, by the handler or the FPGA only.
LEMMA HistoryStep ==
  ASSUME ChanTypes, Places, ListThere, ThreadRight, [ChannelNext]_channelVars,
         Emptying => FpgaReset,
         ~stale => IF Emptying THEN StillFits ELSE Underway
  PROVE  /\ "one list" \in stray' => "one list" \in stray
         /\ \A c \in Dirs : dir'[c].lost = dir[c].lost
<1>1. stale \in BOOLEAN
  BY DEF ChanTypes
<1>2. CASE stale = TRUE
  BY <1>2, LostKept, StaleLost, StrayKept DEF ChannelNext
<1>3. CASE stale = FALSE /\ Emptying
  <2>1. CASE Handler \/ Fpga \/ \E n \in TxnLens : AppSends(n)
    <3>1. Resetting
      BY <1>3 DEF Emptying, Resetting
    <3>2. QED BY <1>3, <2>1, <3>1, WaitingStep
  <2>2. CASE ResetQueues \/ UNCHANGED channelVars
    BY <2>2, LostKept, StrayKept DEF Thread
  <2>3. QED BY <1>3, <2>1, <2>2, Emptied
<1>4. CASE stale = FALSE /\ ~Emptying
  <2>1. CASE HandlerEnter \/ HandlerReturn
    <3>1. stray' = stray
      BY <2>1, StrayKept DEF Handler
    <3>2. \A c \in Dirs : dir'[c].lost = dir[c].lost
      <4>1. CASE HandlerEnter
        BY <4>1 DEF HandlerEnter
      <4>2. CASE HandlerReturn
        BY <4>2 DEF HandlerReturn, ChanTypes, DirType
      <4>3. QED BY <2>1, <4>1, <4>2
    <3>3. QED BY <3>1, <3>2
  <2>2. CASE Handler /\ ~HandlerEnter /\ ~HandlerReturn
    BY <1>4, <2>2, HandlerStep, StrayKept
  <2>3. CASE Interrupt
    <3>1. stray' = stray
      BY <2>3 DEF Interrupt, historyVars
    <3>2. QED BY <2>3, <3>1, LostKept DEF Fpga
  <2>4. CASE (Fpga /\ ~Interrupt) \/ \E n \in TxnLens : AppSends(n)
    BY <1>4, <2>4, FpgaStep DEF Fpga
  <2>5. CASE Thread \/ Calls \/ Expire \/ UNCHANGED channelVars
    BY <2>5, LostKept, StrayKept
  <2>6. QED BY <2>1, <2>2, <2>3, <2>4, <2>5 DEF ChannelNext
<1>5. QED BY <1>1, <1>2, <1>3, <1>4

\* What a reset has emptied, and what is under way.
LEMMA TransferStep ==
  ASSUME ChanTypes, Places, ListThere, ThreadRight, [ChannelNext]_channelVars,
         Emptying => FpgaReset,
         ~stale => IF Emptying THEN StillFits ELSE Underway
  PROVE  /\ Emptying' => FpgaReset'
         /\ ~stale' => IF Emptying' THEN StillFits' ELSE Underway'
<1>1. stale \in BOOLEAN /\ stale' \in BOOLEAN
  BY StepTypes DEF ChanTypes
<1>2. CASE ResetQueues
  <2>1. Emptying /\ ~Emptying'
    <3>1. Emptying
      BY <1>2 DEF ResetQueues, At, Emptying
    <3>2. ~ResetFpga
      BY <3>1 DEF ResetFpga, At, Emptying
    <3>3. t' = [t EXCEPT !.pc = "reset end"] /\ t \in ThreadType
      BY <1>2 DEF ResetQueues, ChanTypes
    <3>4. t'.pc = "reset end"
      BY <3>3 DEF ThreadType
    <3>5. QED BY <3>1, <3>4 DEF Emptying
  <2>2. QED BY <1>1, <1>2, <2>1, EmptyStep
<1>3. CASE Emptying /\ ~ResetQueues
  <2>1. CASE Handler \/ Fpga \/ \E n \in TxnLens : AppSends(n)
    <3>1. Resetting /\ FpgaReset
      BY <1>3 DEF Emptying, Resetting
    <3>2. t' = t /\ stale' = stale
      BY <2>1 DEF Handler, HandlerEnter, HandlerRead, HandlerReturn, SgBufRead, TxnDone, NewTxn,
                NewTxnLen, Fpga, Interrupt, FetchSg, PortDone, WritePage, ReadPage, AppSends,
                threadVars, callVars
    <3>3. Emptying'
      BY <1>3, <3>2 DEF Emptying
    <3>4. FpgaReset'
      BY <2>1, <3>1, ResetKept
    <3>5. ~stale => StillFits'
      BY <1>1, <1>3, <2>1, <3>1, WaitingStep
    <3>6. QED BY <3>2, <3>3, <3>4, <3>5
  <2>2. CASE UNCHANGED channelVars
    <3>1. /\ Emptying' /\ stale' = stale /\ (FpgaReset' <=> FpgaReset)
          /\ (StillFits' <=> StillFits)
      BY <1>3, <2>2 DEF channelVars, Emptying, FpgaReset, Quiet, StillFits, Brings, InH
    <3>2. QED BY <1>3, <3>1
  <2>3. QED BY <1>3, <2>1, <2>2, Emptied
<1>4. CASE ~Emptying /\ ResetFpga
  <2>1. Emptying' /\ stale' = stale
    BY <1>4 DEF ResetFpga, ChanTypes, ThreadType, Emptying
  <2>2. QED BY <1>4, <2>1, ResetPort, ResetStep
<1>5. CASE ~Emptying /\ ~ResetFpga
  <2>1. ~Emptying'
    BY <1>5, NotEmptied
  <2>2. ~stale /\ ~stale' => Underway'
    BY <1>1, <1>5, UnderwayStep
  <2>3. ~stale' => ~stale \/ ResetQueues
    BY <1>1, StaleEnds
  <2>4. ~ResetQueues
    BY <1>5 DEF ResetQueues, At, Emptying
  <2>5. QED BY <2>1, <2>2, <2>3, <2>4
<1>6. QED BY <1>2, <1>3, <1>4, <1>5

LEMMA ChanStep ==
  ASSUME Places, ChanInv, [ChannelNext]_channelVars
  PROVE  ChanInv'
<1>1. /\ ChanTypes /\ ListThere /\ ThreadRight
      /\ Emptying => FpgaReset
      /\ ~stale => IF Emptying THEN StillFits ELSE Underway
      /\ NoEventLost /\ OneListPinned
  BY DEF ChanInv
<1>2. ChanTypes' /\ ListThere' /\ ThreadRight'
  BY <1>1, StepTypes, StepThere, StepPlace
<1>3. /\ Emptying' => FpgaReset'
      /\ ~stale' => IF Emptying' THEN StillFits' ELSE Underway'
  BY <1>1, TransferStep
<1>4. NoEventLost' /\ OneListPinned'
  <2>1. /\ "one list" \in stray' => "one list" \in stray
        /\ \A c \in Dirs : dir'[c].lost = dir[c].lost
    BY <1>1, HistoryStep
  <2>2. OneListPinned'
    BY <1>1, <2>1 DEF OneListPinned
  <2>3. NoEventLost'
    <3>1. "recv" \in Dirs /\ "send" \in Dirs
      BY Names
    <3>2. QED BY <1>1, <2>1, <3>1 DEF NoEventLost
  <2>4. QED BY <2>2, <2>3
<1>5. ret'.how = "done" => ~stale' /\ Delivered' /\ t'.pc = "idle"
  BY ResultStep
<1>6. QED BY <1>2, <1>3, <1>4, <1>5 DEF ChanInv

LEMMA ChanInit ==
  ASSUME ChannelInit
  PROVE  ChanInv
<1>1. \A d \in Dirs : port[d] = IdlePort
  BY DEF ChannelInit
<1>2. \A d \in Dirs : dir[d] = [msgs |-> << >>, waiting |-> FALSE, buf |-> << >>, lost |-> FALSE]
  BY DEF ChannelInit
<1>3. ChanTypes
  <2>1. t \in ThreadType
    BY IdleType DEF ChannelInit
  <2>2. \A d \in Dirs : dir[d] \in DirType /\ port[d] \in PortType
    <3>1. << >> \in Seq(Messages) /\ << >> \in Seq(Nat)
      OBVIOUS
    <3>2. [msgs |-> << >>, waiting |-> FALSE, buf |-> << >>, lost |-> FALSE] \in DirType
      BY <3>1 DEF DirType
    <3>3. IdlePort \in PortType
      BY <3>1 DEF PortType, IdlePort
    <3>4. QED BY <1>1, <1>2, <3>2, <3>3, Zenon
  <2>3. dir \in [Dirs -> DirType] /\ port \in [Dirs -> PortType]
    BY <2>2 DEF ChannelInit
  <2>4. h \in HandlerType /\ irq \in IrqType
    BY DEF ChannelInit, HandlerType, IrqType, QuietIrq
  <2>5. mem \in [Pages -> BOOLEAN \X Nat] /\ took \in Seq(Nat)
    <3>1. <<FALSE, 0>> \in BOOLEAN \X Nat
      OBVIOUS
    <3>2. Untouched \in [Pages -> BOOLEAN \X Nat]
      BY <3>1, Zenon DEF Untouched
    <3>3. << >> \in Seq(Nat)
      OBVIOUS
    <3>4. QED BY <3>2, <3>3 DEF ChannelInit
  <2>6. QED BY <2>1, <2>3, <2>4, <2>5 DEF ChannelInit, ChanTypes
<1>4. ~(0 > 0) /\ 1 .. 0 = {} /\ Len(<< >>) = 0
  OBVIOUS
<1>5. ListThere
  BY <1>1, <1>4 DEF ListThere, IdlePort
<1>6. ThreadRight
  <2>1. PlaceRight(t)
    BY IdleRight DEF ChannelInit
  <2>2. h.vect = {} /\ t.pc = "idle"
    BY DEF ChannelInit, Idle
  <2>3. ~Resetting
    BY <2>2 DEF Resetting
  <2>4. QED BY <2>1, <2>2, <2>3, ThreadRightSplit
<1>7. /\ t.pc = "idle" /\ t.dir = "recv" /\ t.lists = 0 /\ h.vect = {} /\ irq.vect = {}
      /\ due = TRUE /\ tag = FALSE /\ stray = {} /\ ret.how = "none"
  BY DEF ChannelInit, Idle, QuietIrq, NoResult
<1>8. ~Emptying /\ ~Holding
  BY <1>7 DEF Emptying, Holding
<1>9. ~Serving("recv") /\ ~Serving("send")
  <2>1. "recv" # "send"
    OBVIOUS
  <2>2. QED BY <1>4, <1>7, <2>1, Zenon DEF Serving
<1>10. \A d \in Dirs : \A r : ~InT(d, r) /\ ~InQ(d, r) /\ ~InH(d, r) /\ ~InI(d, r) /\ ~Out(d, r)
  <2>1. \A d \in Dirs : Len(dir[d].msgs) = 0
    BY <1>2, <1>4
  <2>2. QED BY <1>4, <1>7, <1>8, <2>1 DEF InT, InQ, InH, InI, Out
<1>11. ASSUME NEW d \in Dirs
       PROVE  InOrder(d) /\ Told(d) /\ Transfer(d) /\ Quiet(d)
  <2>1. Len(dir[d].msgs) = 0
    BY <1>2, <1>4
  <2>2. InOrder(d)
    BY <1>4, <1>10, <2>1 DEF InOrder
  <2>3. Told(d)
    BY <1>4, <1>8, <2>1 DEF Told
  <2>4. Quiet(d)
    BY <1>1 DEF Quiet, IdlePort
  <2>5. Transfer(d)
    BY <1>9, <1>10, <2>4 DEF Transfer, Dirs
  <2>6. QED BY <2>2, <2>3, <2>4, <2>5
<1>12. "recv" \in Dirs /\ "send" \in Dirs
  BY Names
<1>13. Announced
  BY <1>7, <1>9, <1>10, <1>12 DEF Announced
<1>14. DueRight
  <2>1. port["recv"].st = "idle"
    BY <1>1, <1>12 DEF IdlePort
  <2>2. QED BY <1>7, <1>9, <2>1 DEF DueRight
<1>15. Underway
  BY <1>11, <1>12, <1>13, <1>14 DEF Underway
<1>16. NoEventLost
  BY <1>2, <1>12 DEF NoEventLost
<1>17. QED
  BY <1>3, <1>5, <1>6, <1>7, <1>8, <1>15, <1>16 DEF ChanInv, OneListPinned

-----------------------------------------------------------------------------
(* The theorems.  init_circ_queue is called for queues of 5 and of 4       *)
(* elements (riffa_driver.c, allocate_chnls), one of which stays free.     *)

LEMMA ChanInvariant ==
  ASSUME Places
  PROVE  ChannelSpec => []ChanInv
<1>1. ChannelInit => ChanInv
  BY ChanInit
<1>2. ChanInv /\ [ChannelNext]_channelVars => ChanInv'
  BY ChanStep
<1>3. QED BY <1>1, <1>2, PTL DEF ChannelSpec

\* A call that is still waiting is told of every event of its transfer: the
\* interrupt handler finds room for the message in the direction's queue
\* (process_intr_vector, push_circ_queue), also after a reset that did not wait
\* for it.
THEOREM NoEventIsLost ==
  ASSUME Places
  PROVE  ChannelSpec => []NoEventLost
<1>1. ChanInv => NoEventLost
  BY DEF ChanInv
<1>2. QED BY <1>1, ChanInvariant, PTL

\* A call that returns a length has moved its whole transaction, in order and to
\* the pages it belongs to (chnl_recv, chnl_send).
THEOREM TransfersDelivered ==
  ASSUME Places
  PROVE  ChannelSpec => []Delivered
<1>1. ChanInv => Delivered
  BY DEF ChanInv, Delivered
<1>2. QED BY <1>1, ChanInvariant, PTL

\* The pages of a call that gave the FPGA one list are released after the FPGA
\* has moved them (free_sg_buf of chnl_recv and chnl_send).
THEOREM OneListStaysPinned ==
  ASSUME Places
  PROVE  ChannelSpec => []OneListPinned
<1>1. ChanInv => OneListPinned
  BY DEF ChanInv
<1>2. QED BY <1>1, ChanInvariant, PTL
=============================================================================
