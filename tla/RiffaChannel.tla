---------------------------- MODULE RiffaChannel ----------------------------
(***************************************************************************)
(* A transfer between the host and the FPGA: chnl_send, chnl_recv, reset   *)
(* and the interrupt handler of the RIFFA Linux driver, with one channel   *)
(* of the RIFFA endpoint and the application behind it.  One thread makes  *)
(* the calls, one after another, as the programs in src/sw do; the handler *)
(* and the FPGA run beside it.  A message queue is the abstract queue that *)
(* CircQueue implements.                                                   *)
(*                                                                         *)
(* Lengths are counted in pages: a page is what a scatter gather element   *)
(* names, and page k of a buffer is the number k.  The FPGA's transactions *)
(* have offset 0 and are their channel's last (softMC_pcie_app.v).         *)
(***************************************************************************)
EXTENDS Integers, Sequences, FiniteSets

CONSTANTS
  NumSg,          \* elements a scatter gather list has room for: num_sg
  SgRoom,         \* elements the FPGA's FIFO has room for
  RecvPlaces,     \* messages the queue of recv holds, and that of send
  SendPlaces,
  TxnLens,        \* bounds: the lengths of the application's transactions
  BufLens,        \* and of the caller's buffers
  MaxCalls,       \* bound: the calls the thread makes, resets among them
  OnlyResetWhenStale, \* bound: the next call but one that was abandoned is reset
  MayAbandon,     \* bound: may a call end by a timeout, a signal, no memory
  QuietInReset    \* bound: the application starts nothing during a reset

ASSUME ChannelAssumption ==
  /\ NumSg \in Nat \ {0} /\ SgRoom \in Nat /\ SgRoom > NumSg
  /\ RecvPlaces \in Nat /\ SendPlaces \in Nat
  /\ TxnLens \subseteq Nat \ {0} /\ BufLens \subseteq Nat \ {0}
  /\ MaxCalls \in Nat
  /\ {OnlyResetWhenStale, MayAbandon, QuietInReset} \subseteq BOOLEAN

VARIABLES
  t,        \* the thread: its place and chnl_recv's or chnl_send's local variables
  dir,      \* per direction, struct chnl_dir: messages, sleeper, common buffer
  disabled, \* intr_disabled
  h,        \* the handler: place, events to process, the length it has read
  irq,      \* the interrupt controller and the vector
  port,     \* per direction, the FPGA's port: tx_port (recv), rx_port (send)
  mem,      \* what the FPGA has written into the buffer of recv: <<tag, page>>
  took,     \* what it has read from that of send
  tag,      \* history: of the last transaction the application began, ...
  due,      \* ... of the one the next recv should return,
  stale,    \* an abandoned transfer may still be under way,
  ret,      \* what the last call returned,
  left,     \* the calls still to be made,
  stray     \* and in which calls the FPGA touched a page that was not pinned

callVars == <<mem, took, due, stale, ret, left>>
threadVars == <<t, callVars>>
fpgaVars == <<irq, port>>
historyVars == <<tag, stray>>
channelVars == <<t, dir, disabled, h, irq, port, mem, took, tag, due, stale, ret, left, stray>>

Dirs == {"recv", "send"}
Lower(a, b) == IF a <= b THEN a ELSE b
Spill == 0
Pages == UNION { 1 .. n : n \in BufLens }
Untouched == [p \in Pages |-> <<FALSE, 0>>]
Pinned == t.map0 \cup t.map1

-----------------------------------------------------------------------------
(* The interrupt handler: the events of a vector in the order              *)
(* process_intr_vector looks at them.  "recv len" is the second half of a  *)
(* new transaction.                                                        *)
Order == <<"recv sg", "recv done", "recv txn", "recv len", "send sg", "send done">>
RecvEvents == {"recv sg", "recv done", "recv txn"}

PlaceOneLess(d) == IF d = "recv" THEN RecvPlaces - 1 ELSE SendPlaces - 1
Place(d) == IF d = "recv" THEN RecvPlaces ELSE SendPlaces

Message(type, val) == [type |-> type, val |-> val]

\* push_circ_queue; a full queue only leaves a line in the log.
Push(d, m) ==
  dir' = [dir EXCEPT ![d].msgs = IF Len(@) < Place(d) THEN Append(@, m) ELSE @,
                     ![d].lost = @ \/ (~stale /\ Len(dir[d].msgs) >= Place(d))]

\* The flag is read first: a disabled handler leaves the vector unread, and the
\* controller waits for the read (interrupt.v).
HandlerEnter ==
  /\ irq.st = "raised" /\ h.pc = "idle"
  /\ IF disabled
     THEN irq' = [irq EXCEPT !.st = "unread"] /\ h' = h
     ELSE irq' = [irq EXCEPT !.st = "unread"] /\ h' = [h EXCEPT !.pc = "read"]
  /\ UNCHANGED <<threadVars, dir, disabled, port, historyVars>>

HandlerRead ==
  /\ h.pc = "read"
  /\ h' = [h EXCEPT !.pc = "work", !.vect = irq.vect,
                    !.wake = { d \in Dirs : \E e \in irq.vect :
                                 (d = "recv") = (e \in RecvEvents) }]
  /\ irq' = [st |-> "idle", vect |-> {}]
  /\ UNCHANGED <<threadVars, dir, disabled, port, historyVars>>

First(e) ==
  /\ h.pc = "work" /\ e \in h.vect
  /\ \A k \in 1 .. Len(Order) : Order[k] \in h.vect =>
       k >= CHOOSE j \in 1 .. Len(Order) : Order[j] = e

Processed(e) == h' = [h EXCEPT !.vect = @ \ {e}]

SgBufRead(d, e) ==
  /\ First(e) /\ Processed(e)
  /\ Push(d, Message("SG_BUF_READ", 0))
  /\ UNCHANGED <<threadVars, disabled, fpgaVars, historyVars>>

\* The transferred length is read, which lets the port report its next.
TxnDone(d, e) ==
  /\ First(e) /\ Processed(e)
  /\ Push(d, Message("TXN_DONE", port[d].doneLen))
  /\ port' = [port EXCEPT ![d].doneRead = TRUE]
  /\ UNCHANGED <<threadVars, disabled, irq, historyVars>>

\* The reading of the length is the acknowledgement the tx_port waits for.
NewTxn ==
  /\ First("recv txn")
  /\ h' = [h EXCEPT !.vect = (@ \ {"recv txn"}) \cup {"recv len"}, !.len = port["recv"].len]
  /\ port' = [port EXCEPT !["recv"].st = IF @ = "new" THEN "write" ELSE @]
  /\ Push("recv", Message("TXN_OFFLAST", 1))
  /\ UNCHANGED <<threadVars, disabled, irq, historyVars>>
NewTxnLen ==
  /\ First("recv len") /\ Processed("recv len")
  /\ Push("recv", Message("TXN_LEN", h.len))
  /\ UNCHANGED <<threadVars, disabled, fpgaVars, historyVars>>

\* wake_up of whoever waits; the handler returns.
HandlerReturn ==
  /\ h.pc = "work" /\ h.vect = {}
  /\ dir' = [d \in Dirs |-> [dir[d] EXCEPT !.waiting = @ /\ d \notin h.wake]]
  /\ h' = [h EXCEPT !.pc = "idle", !.wake = {}, !.len = 0]
  /\ UNCHANGED <<threadVars, disabled, fpgaVars, historyVars>>

Handler == \/ HandlerEnter \/ HandlerRead \/ HandlerReturn
           \/ SgBufRead("recv", "recv sg") \/ SgBufRead("send", "send sg")
           \/ TxnDone("recv", "recv done") \/ TxnDone("send", "send done")
           \/ NewTxn \/ NewTxnLen

-----------------------------------------------------------------------------
(* The FPGA: the interrupt controller, the two ports and the application.  *)
Raise(e) == irq' = [irq EXCEPT !.vect = @ \cup {e}]

Interrupt ==
  /\ irq.st = "idle" /\ irq.vect # {}
  /\ irq' = [irq EXCEPT !.st = "raised"]
  /\ UNCHANGED <<threadVars, dir, disabled, h, port, historyVars>>

Resetting == t.pc \in {"reset fpga", "reset queues", "reset end"}

\* The application has a message for the host.
AppSends(n) ==
  /\ port["recv"].st = "idle" /\ (QuietInReset => ~Resetting)
  /\ port' = [port EXCEPT !["recv"].st = "new", !["recv"].len = n, !["recv"].moved = 0,
                          !["recv"].sg = << >>, !["recv"].request = 0]
  /\ Raise("recv txn")
  /\ tag' = ~tag
  /\ UNCHANGED <<threadVars, dir, disabled, h, stray>>

\* sg_list_requester.v: the list is fetched from the common buffer when there is
\* room for the longest one, though the last may not be used up, and the host is told
\* that it may write the next one there (nobody reads this one again).
FetchSg(d) ==
  /\ port[d].request > 0
  /\ Len(port[d].sg) < SgRoom - NumSg
  /\ port' = [port EXCEPT ![d].sg = @ \o SubSeq(dir[d].buf, 1, port[d].request),
                          ![d].request = 0]
  /\ dir' = [dir EXCEPT ![d].buf = << >>]
  /\ Raise(IF d = "recv" THEN "recv sg" ELSE "send sg")
  /\ UNCHANGED <<threadVars, disabled, h, historyVars>>

\* A page of a list is moved; history: was it one the driver still has pinned?
Moved(d) ==
  /\ port[d].st = "write" /\ port[d].sg # << >>
  /\ port' = [port EXCEPT ![d].sg = Tail(@), ![d].moved = @ + 1,
                          ![d].st = IF port[d].moved + 1 = port[d].len THEN "moved" ELSE @]
  /\ stray' = IF stale \/ Head(port[d].sg) \in Pinned \cup {Spill} THEN stray
              ELSE stray \cup {IF t.lists > 1 THEN "more lists" ELSE "one list"}

WritePage ==
  /\ Moved("recv")
  /\ LET page == Head(port["recv"].sg)
     IN  mem' = [p \in Pages |-> IF p = page THEN <<tag, port["recv"].moved + 1>> ELSE mem[p]]
  /\ UNCHANGED <<t, took, due, stale, ret, left, dir, disabled, h, irq, tag>>

ReadPage ==
  /\ Moved("send")
  /\ took' = Append(took, Head(port["send"].sg))
  /\ UNCHANGED <<t, mem, due, stale, ret, left, dir, disabled, h, irq, tag>>

\* The end of a transaction waits for the last length to have been read.
PortDone(d) ==
  /\ port[d].st = "moved" /\ port[d].doneRead
  /\ port' = [port EXCEPT ![d].st = "idle", ![d].doneRead = FALSE, ![d].doneLen = port[d].len]
  /\ Raise(IF d = "recv" THEN "recv done" ELSE "send done")
  /\ UNCHANGED <<threadVars, dir, disabled, h, historyVars>>

Fpga == \/ Interrupt
        \/ \E d \in Dirs : FetchSg(d) \/ PortDone(d)
        \/ WritePage \/ ReadPage

-----------------------------------------------------------------------------
(* The thread.                                                             *)
At(pc) == t.pc = pc

\* fill_sg_buf pins up to NumSg pages from page t.next on, or fewer; once the
\* buffer is exhausted the rest of the list is the spill buffer.
FillMaps(length) == IF length = 0 THEN {0} ELSE 1 .. Lower(length, NumSg)
Spills(n, length, overflow) == IF n = length THEN Lower(overflow, NumSg - n) ELSE 0

\* A list of n pages and s spill elements is given to the port of direction d.
GiveList(d, n, s) ==
  /\ dir' = [dir EXCEPT ![d].buf = [k \in 1 .. n |-> t.next + k - 1]
                                     \o [k \in 1 .. s |-> Spill]]
  /\ port' = [port EXCEPT ![d].request = n + s]

Filled(n) == t.next .. t.next + n - 1

\* The call returns: what became of it, and the length it returned.
Idle == [pc |-> "idle", dir |-> "recv", cap |-> 0, last |-> -1, length |-> 0, overflow |-> 0,
         next |-> 1, moved |-> 0, lists |-> 0, map0 |-> {}, map1 |-> {},
         expired |-> FALSE, nomsg |-> FALSE, msg |-> Message("none", 0)]
NoResult == [how |-> "none", dir |-> "recv", cap |-> 0, len |-> 0, tag |-> FALSE]
Result(how, n) == [how |-> how, dir |-> t.dir, cap |-> t.cap, len |-> n, tag |-> due]
Return(how, n) ==
  /\ t' = Idle
  /\ ret' = IF stale \/ how # "done" THEN NoResult ELSE Result(how, n)
  /\ stale' = (stale \/ how # "done")
  /\ due' = IF how = "done" /\ t.dir = "recv" THEN ~due ELSE due
  /\ UNCHANGED <<mem, took, left>>

Begin(d, n) ==
  /\ At("idle") /\ left > 0 /\ left' = left - 1
  /\ OnlyResetWhenStale => ~stale
  /\ t' = [Idle EXCEPT !.pc = IF d = "recv" THEN "pop" ELSE "fill", !.dir = d, !.cap = n,
                       !.length = IF d = "send" THEN n ELSE 0]
  /\ mem' = Untouched /\ took' = << >> /\ ret' = NoResult
  /\ UNCHANGED <<due, stale>>

chnl_recv(cap) ==
  /\ Begin("recv", cap)
  /\ UNCHANGED <<dir, disabled, h, fpgaVars, historyVars>>

\* The queue is emptied, and the port told of the transaction: it listens if it
\* has none (rx_port_reader.v).
chnl_send(len) ==
  /\ Begin("send", len)
  /\ dir' = [dir EXCEPT !["send"].msgs = << >>]
  /\ port' = IF port["send"].st # "idle" THEN port
             ELSE [port EXCEPT !["send"].st = "write", !["send"].len = len,
                               !["send"].moved = 0, !["send"].sg = << >>,
                               !["send"].request = 0]
  /\ UNCHANGED <<disabled, h, irq, historyVars>>

SendFill ==
  /\ At("fill")
  /\ \/ \E n \in FillMaps(t.length) :
          /\ GiveList("send", n, 0)
          /\ t' = [t EXCEPT !.pc = "pop", !.next = @ + n, !.length = @ - n, !.lists = 1,
                               !.map1 = Filled(n)]
          /\ UNCHANGED callVars
     \/ MayAbandon /\ Return("no memory", 0) /\ UNCHANGED <<dir, port>>
  /\ UNCHANGED <<disabled, h, irq, historyVars>>

(* The loop around pop_circ_queue, the same in both calls.                 *)
Msgs == dir[t.dir].msgs

TakeMessage(pc) ==
  /\ Msgs # << >>
  /\ t' = [t EXCEPT !.pc = pc, !.msg = Head(Msgs), !.nomsg = FALSE]
  /\ dir' = [dir EXCEPT ![t.dir].msgs = Tail(@)]

Pop ==
  /\ At("pop")
  /\ \/ TakeMessage("message")
     \/ Msgs = << >> /\ t' = [t EXCEPT !.pc = "prepare"] /\ dir' = dir
  /\ UNCHANGED <<callVars, disabled, h, fpgaVars, historyVars>>

PrepareToWait ==
  /\ At("prepare")
  /\ t' = [t EXCEPT !.pc = "pop again"]
  /\ dir' = [dir EXCEPT ![t.dir].waiting = TRUE]
  /\ UNCHANGED <<callVars, disabled, h, fpgaVars, historyVars>>

PopAgainNever ==
  /\ At("pop again")
  /\ t' = [t EXCEPT !.pc = "asleep", !.nomsg = TRUE]
  /\ UNCHANGED <<callVars, dir, disabled, h, fpgaVars, historyVars>>

\* "Another check before we schedule."
PopAgain ==
  /\ At("pop again")
  /\ \/ TakeMessage("finish wait")
     \/ /\ Msgs = << >>
        /\ t' = [t EXCEPT !.pc = "asleep", !.nomsg = TRUE]
        /\ dir' = dir
  /\ UNCHANGED <<callVars, disabled, h, fpgaVars, historyVars>>

\* schedule_timeout returns: the thread was woken, ...
Woken ==
  /\ At("asleep") /\ ~dir[t.dir].waiting
  /\ t' = [t EXCEPT !.pc = "finish wait"]
  /\ UNCHANGED <<callVars, dir, disabled, h, fpgaVars, historyVars>>
\* ... or the time is over, or there is a signal.
Expire ==
  /\ At("asleep") /\ MayAbandon
  /\ t' = [t EXCEPT !.pc = "finish wait", !.expired = TRUE]
  /\ UNCHANGED <<callVars, dir, disabled, h, fpgaVars, historyVars>>

\* A signal throws a message away that the second pop has found.
FinishWait ==
  /\ At("finish wait")
  /\ dir' = [dir EXCEPT ![t.dir].waiting = FALSE]
  /\ \/ MayAbandon /\ Return("signal", 0)
     \/ t.nomsg /\ t.expired /\ Return("timeout", t.moved)
     \/ /\ ~(t.nomsg /\ t.expired)
        /\ t' = [t EXCEPT !.pc = IF t.nomsg THEN "pop" ELSE "message"]
        /\ UNCHANGED callVars
  /\ UNCHANGED <<disabled, h, fpgaVars, historyVars>>

MessageIs(d, type) == At("message") /\ t.dir = d /\ t.msg.type = type

Ignored(d) == /\ t' = [t EXCEPT !.pc = "pop"]
              /\ UNCHANGED <<callVars, dir, port>>

(* chnl_recv's messages.                                                   *)
RecvOffLast ==
  /\ MessageIs("recv", "TXN_OFFLAST")
  /\ t' = [t EXCEPT !.pc = "pop", !.last = t.msg.val]
  /\ UNCHANGED <<callVars, dir, disabled, h, fpgaVars, historyVars>>

\* What exceeds the buffer goes to the spill buffer.
RecvLen ==
  /\ MessageIs("recv", "TXN_LEN")
  /\ LET length   == Lower(t.msg.val, t.cap)
         overflow == t.msg.val - length
     IN  \/ \E n \in FillMaps(length) :
              LET s == Spills(n, length, overflow)
              IN  /\ GiveList("recv", n, s)
                  /\ t' = [t EXCEPT !.pc = "pop", !.moved = 0, !.next = @ + n,
                                    !.length = length - n, !.overflow = overflow - s,
                                    !.lists = @ + 1, !.map1 = Filled(n)]
                  /\ UNCHANGED callVars
         \/ MayAbandon /\ Return("no memory", 0) /\ UNCHANGED <<dir, port>>
  /\ UNCHANGED <<disabled, h, irq, historyVars>>

NextListFreesBoth(d) ==
  IF t.length = 0 /\ t.overflow = 0
  THEN /\ t' = [t EXCEPT !.pc = "pop", !.map0 = {}, !.map1 = {}]
       /\ UNCHANGED <<callVars, dir, port>>
  ELSE \E n \in FillMaps(t.length) :
         LET s == Spills(n, t.length, t.overflow)
         IN  /\ GiveList(d, n, s)
             /\ t' = [t EXCEPT !.pc = "pop", !.next = @ + n, !.length = @ - n, !.overflow = @ - s,
                               !.map0 = {}, !.map1 = Filled(n)]
             /\ UNCHANGED callVars

\* The list before the last is released, and the next one filled.
NextList(d) ==
  IF t.length = 0 /\ t.overflow = 0
  THEN /\ t' = [t EXCEPT !.pc = "pop", !.moved = @ + Cardinality(t.map0), !.map0 = {}]
       /\ UNCHANGED <<callVars, dir, port>>
  ELSE \/ \E n \in FillMaps(t.length) :
            LET s == Spills(n, t.length, t.overflow)
            IN  /\ GiveList(d, n, s)
                /\ t' = [t EXCEPT !.pc = "pop", !.moved = @ + Cardinality(t.map0),
                                  !.next = @ + n, !.length = @ - n, !.overflow = @ - s,
                                  !.lists = @ + 1, !.map0 = t.map1, !.map1 = Filled(n)]
                /\ UNCHANGED callVars
       \/ /\ MayAbandon
          /\ Return("no memory", t.moved + Cardinality(t.map0))
          /\ UNCHANGED <<dir, port>>

RecvSgBufRead ==
  /\ MessageIs("recv", "SG_BUF_READ")
  /\ IF t.last = -1 THEN Ignored("recv") ELSE NextList("recv")
  /\ UNCHANGED <<disabled, h, irq, historyVars>>

RecvTxnDone ==
  /\ MessageIs("recv", "TXN_DONE")
  /\ IF t.last = -1 THEN Ignored("recv")
     ELSE Return("done", t.msg.val) /\ UNCHANGED <<dir, port>>
  /\ UNCHANGED <<disabled, h, irq, historyVars>>

(* chnl_send's messages.                                                   *)
SendSgBufRead ==
  /\ MessageIs("send", "SG_BUF_READ")
  /\ NextList("send")
  /\ UNCHANGED <<disabled, h, irq, historyVars>>

SendTxnDone ==
  /\ MessageIs("send", "TXN_DONE")
  /\ Return("done", t.msg.val)
  /\ UNCHANGED <<dir, port, disabled, h, irq, historyVars>>

-----------------------------------------------------------------------------
(* reset.                                                                  *)
IdlePort == [st |-> "idle", len |-> 0, moved |-> 0, sg |-> << >>, request |-> 0,
             doneLen |-> 0, doneRead |-> TRUE]
QuietIrq == [st |-> "idle", vect |-> {}]

ResetBegin ==
  /\ At("idle") /\ left > 0 /\ left' = left - 1
  /\ disabled' = TRUE
  /\ t' = [Idle EXCEPT !.pc = "reset fpga"] /\ ret' = NoResult
  /\ UNCHANGED <<mem, took, due, stale, dir, h, fpgaVars, historyVars>>

\* The reading of the information register resets the FPGA, and the application.
ResetFpga ==
  /\ At("reset fpga")
  /\ port' = [d \in Dirs |-> IdlePort] /\ irq' = QuietIrq
  /\ due' = ~tag
  /\ t' = [t EXCEPT !.pc = "reset queues"]
  /\ UNCHANGED <<mem, took, stale, ret, left, dir, disabled, h, historyVars>>

ResetQueuesKept ==
  /\ At("reset queues")
  /\ t' = [t EXCEPT !.pc = "reset end"]
  /\ stale' = (h.pc # "idle")
  /\ UNCHANGED <<mem, took, due, ret, left, dir, disabled, h, fpgaVars, historyVars>>

\* A handler that was past the flag may still push what the old vector held.
ResetQueues ==
  /\ At("reset queues")
  /\ dir' = [d \in Dirs |-> [dir[d] EXCEPT !.msgs = << >>, !.waiting = FALSE]]
  /\ t' = [t EXCEPT !.pc = "reset end"]
  /\ stale' = (h.pc # "idle")
  /\ UNCHANGED <<mem, took, due, ret, left, disabled, h, fpgaVars, historyVars>>

ResetEnd ==
  /\ At("reset end")
  /\ disabled' = FALSE
  /\ t' = Idle
  /\ UNCHANGED <<callVars, dir, h, fpgaVars, historyVars>>

Thread == \/ SendFill \/ Pop \/ PrepareToWait \/ PopAgain \/ Woken \/ FinishWait
          \/ RecvOffLast \/ RecvLen \/ RecvSgBufRead \/ RecvTxnDone
          \/ SendSgBufRead \/ SendTxnDone
          \/ ResetFpga \/ ResetQueues \/ ResetEnd

Calls == \/ \E n \in BufLens : chnl_recv(n) \/ chnl_send(n)
         \/ ResetBegin

ChannelInit ==
  /\ t = Idle /\ ret = NoResult /\ left = MaxCalls
  /\ dir = [d \in Dirs |-> [msgs |-> << >>, waiting |-> FALSE, buf |-> << >>, lost |-> FALSE]]
  /\ disabled = FALSE
  /\ h = [pc |-> "idle", vect |-> {}, wake |-> {}, len |-> 0]
  /\ irq = QuietIrq /\ port = [d \in Dirs |-> IdlePort]
  /\ mem = Untouched /\ took = << >>
  /\ tag = FALSE /\ due = TRUE /\ stale = FALSE /\ stray = {}

ChannelNext == Thread \/ Calls \/ Expire \/ Handler \/ Fpga \/ \E n \in TxnLens : AppSends(n)

ChannelSpec ==
  /\ ChannelInit /\ [][ChannelNext]_channelVars
  /\ WF_channelVars(Thread) /\ WF_channelVars(Handler)
  /\ WF_channelVars(Interrupt)
  /\ \A d \in Dirs : WF_channelVars(FetchSg(d)) /\ WF_channelVars(PortDone(d))
  /\ WF_channelVars(WritePage) /\ WF_channelVars(ReadPage)

-----------------------------------------------------------------------------
\* No event of a transfer is dropped at a full queue: the queue of recv has a
\* place for every event the FPGA can have raised and nobody taken, although
\* chnl_recv, unlike chnl_send, begins with what an abandoned call has left.
NoEventLost == ~dir["recv"].lost /\ ~dir["send"].lost

\* A call that returns the transferred length has moved its own transaction,
\* whole, in order and to where it belongs: a recv the transaction that is due,
\* the excess discarded, a send the caller's buffer.
Delivered ==
  ret.how = "done" /\ t.pc = "idle" =>
    IF ret.dir = "recv"
    THEN \A k \in 1 .. Lower(ret.len, ret.cap) : mem[k] = <<ret.tag, k>>
    ELSE ret.len = ret.cap /\ took = [k \in 1 .. ret.cap |-> k]

\* A call that has given the FPGA one list keeps its pages pinned until the FPGA
\* has moved them all.
OneListPinned == "one list" \notin stray

\* tx_port_writer.v: the host may release the mappings when a transaction is done,
\* so no page is released that the FPGA has still to move.
PagesPinned == stray = {}

\* A call whose transaction is under way ends: no event is lost between the look
\* into the queue and the sleep, and the two ports, the interrupt, the handler and
\* the thread do not wait for one another.
UnderWay == /\ ~stale /\ t.pc # "idle" /\ ~Resetting
            /\ t.dir = "send" \/ port["recv"].st # "idle"
TransferEnds == UnderWay ~> (t.pc = "idle" \/ stale)
=============================================================================
