------------------------------ MODULE ReadBack ------------------------------
(***************************************************************************)
(* The way of read data to the host: the PHY's fixed read latency,         *)
(* read_capturer.v, the read-back FIFO, the sender of softMC_pcie_app.v    *)
(* and the gate of its RIFFA channel, whose entries the PCIe clock domain  *)
(* takes one by one.  A read burst is two 256-bit words, a word is four    *)
(* 64-bit beats, and a message to the host is eight beats.                 *)
(*   phy     = read data on its way, the next to arrive first              *)
(*   half    = the second word of the read issued in the last clock        *)
(*   cap     = rd_data_r and its enables                                   *)
(*   stall_r = rdback_fifo_full_r, that is dfi_clk_disable and ~dfi_ready  *)
(*   sender  = recv_state = RECV_BUSY, send_data_r, sender_state and the   *)
(*             latch inferred for CHNL_TX_DATA_VALID                       *)
(*   gate    = rState, rChnlTx, rFifoWen/rFifoData, rPause and rClosed     *)
(*   evts    = the gate's asynchronous FIFO                                *)
(*   monitor = what the PCIe side has made of the entries it took: how     *)
(*             many beats the message has (len), its first word and whether *)
(*             they are the beats of two words in a row (burst)            *)
(*   oldest, newest = history: numbers of the next word to be sent and of  *)
(*             the next word to be read                                    *)
(***************************************************************************)
EXTENDS Integers, Sequences

CONSTANTS
  RdbackDepth,   \* words the read-back FIFO holds (1024 in rdback_fifo.xco)
  PhyLatency,    \* clocks from a read's enable to its data
  GateDepth,     \* entries the gate's FIFO holds (8)
  WordNumbers    \* bound: words are numbered modulo this

ASSUME ReadBackAssumption ==
  /\ {RdbackDepth, PhyLatency, GateDepth} \subseteq Nat \ {0}
  /\ WordNumbers \in Nat /\ WordNumbers > RdbackDepth

VARIABLES phy, half, cap, rdback, stall_r, sender, gate, evts, monitor,
          oldest, newest

readBackVars == <<phy, half, cap, rdback, stall_r, sender, gate, evts, monitor,
                  oldest, newest>>

\* CHNL_TX_LEN is 16 words of 32 bits; the gate moves 64 bits at a time.
MsgBeats == 8

\* The data of a clock: nothing, a periodic read's (odd), or a host word.
Nothing == [what |-> "none", n |-> 0]
Periodic == [what |-> "odd", n |-> 0]
Word(n) == [what |-> "word", n |-> n % WordNumbers]

\* An entry of the gate's FIFO: a marker, or beat b of word w.  again marks a
\* beat the sender did not mean to send; no circuit reads it.
Entry(kind) == [kind |-> kind, w |-> 0, b |-> 0, again |-> FALSE]
Beat(w, b, again) == [kind |-> "data", w |-> w, b |-> b, again |-> again]

SenderIdle == [busy |-> FALSE, data |-> 0, state |-> 0, valid |-> FALSE]
GateIdle == [state |-> "IDLE", tx |-> FALSE, wen |-> FALSE, data |-> Entry("none"),
             pause |-> FALSE, closed |-> FALSE]
MonitorIdle == [state |-> "NEXT", len |-> 0, first |-> 0, burst |-> TRUE]
NoReadData == [k \in 1..PhyLatency |-> Nothing]

ReadBackInit ==
  /\ phy = NoReadData /\ half = Nothing /\ cap = Nothing
  /\ rdback = << >> /\ stall_r = FALSE
  /\ sender = SenderIdle
  /\ gate = GateIdle /\ evts = << >> /\ monitor = MonitorIdle
  /\ oldest = 0 /\ newest = 0

-----------------------------------------------------------------------------
\* What is on its way to the FIFO, the next to arrive first.
Way ==
  [i \in 0 .. PhyLatency + 1 |->
     IF i = 0 THEN cap ELSE IF i = PhyLatency + 1 THEN half ELSE phy[i]]

\* How many words were read after the oldest one not sent yet and before word n.
Age(n) == (n - oldest) % WordNumbers

\* What the dispatcher may start in a clock: no read, a periodic read or, as
\* long as the host has room for the answer, a host's read.
Reads == {Nothing}
           \cup (IF stall_r \/ half # Nothing THEN {} ELSE {Periodic})
           \cup (IF stall_r \/ half # Nothing \/ Age(newest) + 2 > RdbackDepth
                 THEN {} ELSE {Word(newest)})

\* Both clocks of a burst enable the data path, also when dfi_ready has fallen
\* in between.
IssueRead(r) ==
  /\ phy' = Append(Tail(phy), IF half # Nothing THEN half ELSE r)
  /\ half' = CASE r = Nothing -> Nothing
               [] r = Periodic -> Periodic
               [] OTHER -> Word(newest + 1)
  /\ newest' = IF r.what = "word" THEN (newest + 2) % WordNumbers ELSE newest

\* read_capturer.v: data of periodic reads is not written.
CaptureKeepsOdd == cap # Nothing
Capture == cap.what = "word"

FifoPop == ~sender.busy /\ rdback # << >>

\* rdback_fifo: a write into the full FIFO is dropped.
RdbackNext == (IF FifoPop THEN Tail(rdback) ELSE rdback)
                \o (IF Capture /\ Len(rdback) < RdbackDepth THEN <<cap.n>> ELSE << >>)

StallNextSticky == stall_r \/ Len(rdback) >= RdbackDepth - 1
StallNext == Len(rdback) >= RdbackDepth - 1

CaptureClk(r) ==
  /\ IssueRead(r)
  /\ cap' = phy[1]
  /\ rdback' = RdbackNext
  /\ stall_r' = StallNext

-----------------------------------------------------------------------------
\* softMC_pcie_app.v: a word is popped, sent in four beats as the channel takes
\* them, and the next one is popped.
CHNL_TX == sender.busy \/ sender.state >= 4
CHNL_TX_DATA_VALID == sender.busy \/ sender.valid
TxFull == Len(evts) >= GateDepth
CHNL_TX_DATA_REN == gate.state = "OPEN" /\ ~TxFull
CHNL_TX_DATA == Beat(sender.data, sender.state % 4, ~sender.busy)

SenderNextNoRen ==
  IF sender.busy
  THEN [sender EXCEPT !.busy = sender.state % 4 # 3, !.state = (@ + 1) % 8, !.valid = TRUE]
  ELSE [sender EXCEPT !.busy = FifoPop, !.data = IF FifoPop THEN Head(rdback) ELSE @]
SenderNext ==
  IF sender.busy
  THEN [sender EXCEPT
          !.busy = ~(CHNL_TX_DATA_REN /\ sender.state % 4 = 3),
          !.state = IF CHNL_TX_DATA_REN THEN (@ + 1) % 8 ELSE @,
          !.valid = TRUE]
  ELSE [sender EXCEPT !.busy = FifoPop, !.data = IF FifoPop THEN Head(rdback) ELSE @]

SenderClk ==
  /\ sender' = SenderNext
  /\ oldest' = IF FifoPop THEN (oldest + 1) % WordNumbers ELSE oldest

\* tx_port_channel_gate_64.v: open marker (twice), data, end marker (twice).
\* rFifoWen and rFifoData keep their values where nothing is assigned.
GateIdleClk ==
  LET g == [gate EXCEPT !.pause = FALSE, !.closed = FALSE]
  IN  IF TxFull THEN g
      ELSE [g EXCEPT !.wen = gate.tx, !.data = Entry("open"),
                     !.state = IF gate.tx THEN "OPENING" ELSE "IDLE"]
GateOpeningClk ==
  LET closed == gate.closed \/ ~gate.tx
  IN  [gate EXCEPT !.closed = closed,
                   !.state = IF TxFull THEN @ ELSE IF closed THEN "CLOSED" ELSE "OPEN"]
GateOpenClk ==
  [gate EXCEPT !.wen = IF TxFull THEN @ ELSE CHNL_TX_DATA_VALID,
               !.data = IF TxFull THEN @ ELSE CHNL_TX_DATA,
               !.state = IF gate.tx THEN "OPEN" ELSE "CLOSED"]
GateClosedClk ==
  IF TxFull THEN gate
  ELSE [gate EXCEPT !.pause = TRUE, !.wen = TRUE, !.data = Entry("end"),
                    !.state = IF gate.pause THEN "IDLE" ELSE "CLOSED"]
GateNext ==
  CASE gate.state = "IDLE" -> GateIdleClk
    [] gate.state = "OPENING" -> GateOpeningClk
    [] gate.state = "OPEN" -> GateOpenClk
    [] gate.state = "CLOSED" -> GateClosedClk

GateClk ==
  /\ gate' = [GateNext EXCEPT !.tx = CHNL_TX]
  /\ evts' = IF gate.wen /\ ~TxFull THEN Append(evts, gate.data) ELSE evts

\* tx_port_monitor_64.v: of a transaction's beats the first MsgBeats make the
\* message, the others are skipped up to the end markers.
Accept(e) ==
  LET first == IF monitor.len = 0 THEN e.w ELSE monitor.first
  IN  [state |-> IF monitor.len + 1 = MsgBeats THEN "END_0" ELSE "READ",
       len   |-> monitor.len + 1,
       first |-> first,
       burst |-> /\ monitor.burst
                 /\ e.w = (first + monitor.len \div 4) % WordNumbers
                 /\ e.b = monitor.len % 4]
MonitorNext(e) ==
  CASE monitor.state = "NEXT" /\ e.kind = "open" -> [monitor EXCEPT !.state = "TXN"]
    [] monitor.state = "TXN" /\ e.kind = "open" -> [MonitorIdle EXCEPT !.state = "READ"]
    [] monitor.state = "READ" /\ e.kind = "data" -> Accept(e)
    [] monitor.state \in {"READ", "END_0"} /\ e.kind = "end" ->
         [monitor EXCEPT !.state = "END_1"]
    [] monitor.state = "END_1" /\ e.kind = "end" -> MonitorIdle
    [] OTHER -> monitor

-----------------------------------------------------------------------------
ReadBackClk ==
  /\ \E r \in Reads : CaptureClk(r)
  /\ SenderClk
  /\ GateClk
  /\ UNCHANGED monitor

\* The PCIe clock domain takes an entry.
MonitorRead ==
  /\ evts # << >>
  /\ evts' = Tail(evts)
  /\ monitor' = MonitorNext(Head(evts))
  /\ UNCHANGED <<phy, half, cap, rdback, stall_r, sender, gate, oldest, newest>>

\* rst of the memory side: the PHY, the capturer and the FIFO forget their data;
\* the sender belongs to the other reset and goes on.
ReadBackRst ==
  /\ phy' = NoReadData /\ half' = Nothing /\ cap' = Nothing
  /\ rdback' = << >> /\ stall_r' = FALSE
  /\ sender' = SenderNext
  /\ oldest' = newest
  /\ GateClk
  /\ UNCHANGED <<newest, monitor>>

\* riffa_reset, raised by the host: the sender and the channel.  In RECV_IDLE
\* rdback_fifo_rden is high all the same, so a word may be popped and lost.
RiffaRst ==
  /\ \E r \in Reads : CaptureClk(r)
  /\ sender' = [sender EXCEPT !.busy = FALSE, !.state = 0, !.valid = CHNL_TX_DATA_VALID]
  /\ oldest' = IF FifoPop THEN (oldest + 1) % WordNumbers ELSE oldest
  /\ gate' = GateIdle /\ evts' = << >> /\ monitor' = MonitorIdle

ReadBackNext == ReadBackClk \/ MonitorRead \/ ReadBackRst \/ RiffaRst

\* Both clocks run for ever; nothing waits for a reset.
ReadBackSpec == /\ ReadBackInit /\ [][ReadBackNext]_readBackVars
                /\ WF_readBackVars(ReadBackClk) /\ WF_readBackVars(MonitorRead)

-----------------------------------------------------------------------------
\* Between the dispatcher and the sender no word of a host's read is lost,
\* duplicated or reordered, no periodic read's data gets in, and the stall
\* comes and goes without disturbing a burst: the FIFO holds the words read since
\* the last one sent, in order, and those after them are on their way to it, each
\* once, in order.
WordsInOrder ==
  LET words == { i \in 0 .. PhyLatency + 1 : Way[i].what = "word" }
      age(i) == Age(Way[i].n)
  IN  /\ \A k \in 1 .. Len(rdback) : Age(rdback[k]) = k - 1
      /\ { age(i) : i \in words } = Len(rdback) .. Age(newest) - 1
      /\ \A i, j \in words : i < j => age(i) < age(j)

\* The four beats of a word enter the channel once each and in order, however
\* the gate's FIFO fills and whichever transactions they fall into: a beat follows
\* the one sent before it.  (What CHNL_TX_DATA_VALID lets in between two words is left
\* aside: BurstPerMessage.)
Entered == evts \o (IF gate.wen THEN <<gate.data>> ELSE << >>)
Sent(e) == e.kind = "data" /\ ~e.again
Follows(x, w, b) == IF x.b = 3 THEN b = 0 ELSE w = x.w /\ b = x.b + 1
BeatsInOrder ==
  \A i, j \in 1 .. Len(Entered) :
    /\ i < j /\ Sent(Entered[i]) /\ Sent(Entered[j])
    /\ \A k \in i + 1 .. j - 1 : ~Sent(Entered[k])
    => Follows(Entered[i], Entered[j].w, Entered[j].b)

\* Every message is one read burst: the four beats of a word, then those
\* of the word after it.
BurstPerMessage == monitor.state = "END_0" => monitor.burst

\* As long as the PCIe side takes entries, a word being sent is sent, and a
\* dispatcher stopped by a full FIFO is released.
ReadBackDrains ==
  /\ sender.busy ~> ~sender.busy
  /\ stall_r ~> ~stall_r
=============================================================================
