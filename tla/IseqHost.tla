----------------------------- MODULE IseqHost -----------------------------
(***************************************************************************)
(* The instruction path without maintenance, fed by a host that sends      *)
(* arbitrary sequences of at least one word and a closing END, one after   *)
(* another, its words arriving whenever the PCIe link delivers them.       *)
(*   sent = how many words of the current sequence have been delivered     *)
(***************************************************************************)
EXTENDS IseqPath

CONSTANTS
  Commands,     \* the DDR commands the host sends
  Waits,        \* the cycle counts of its WAITs
  MaxLen,       \* bound: the longest sequence, its END included
  DfiReadies    \* the values dfi_ready may take

ASSUME HostAssumption ==
  /\ Commands \subseteq DDR_INSTR
  /\ Waits \subseteq Nat
  /\ MaxLen \in Nat
  /\ DfiReadies \in (SUBSET BOOLEAN) \ {{}}

VARIABLE sent

hostVars == <<pathVars, sent>>

HostInit == PathInit /\ sent = 0

\* A DDR command's operand (its address) is its place in the sequence.
Words == { App(c, sent + 1) : c \in Commands } \cup { App("WAIT", n) : n \in Waits }
Offered == {NoInstr}
             \cup (IF sent < MaxLen - 1 THEN Words ELSE {})
             \cup (IF sent > 0 THEN {App("END", 0)} ELSE {})

Deliver(rx) ==
  sent' = IF rx = NoInstr THEN sent
          ELSE IF rx.op = "END" THEN 0 ELSE sent + 1

\* A word is offered only when the register takes it: the channel keeps it
\* until then, which looks the same.
HostClk ==
  \E dfi_ready \in DfiReadies, rx \in Offered :
    /\ rx # NoInstr => RxDataRen
    /\ PathClk(rx, NoInstr, dfi_ready, FALSE)
    /\ Deliver(rx)
HostRst ==
  \E dfi_ready \in DfiReadies, rx \in Offered :
    /\ rx # NoInstr => RxDataRen
    /\ PathRst(rx, dfi_ready, FALSE)
    /\ Deliver(rx)

HostNext == HostClk \/ HostRst

\* The clock never stops.  rst is raised by the board's button or by the loss
\* of the clock; nothing waits for it, so only HostClk is fair.
HostSpec == HostInit /\ [][HostNext]_hostVars /\ WF_hostVars(HostClk)

-----------------------------------------------------------------------------
\* Once the first instruction of a sequence is loaded, a command slot is left
\* empty only under a WAIT, or where nothing but the closing END is left: the
\* commands are spaced exactly as the host's WAITs say.
OnlyEndIn(p) == \A k \in 1..Len(p) : p[k].op = "END"
NoBubble ==
  [][Loaded /\ DfiReadies = {TRUE} /\ HostClk =>
       LET p == InOrder!Rest(Program, Owed, TRUE)
           o == InOrder!Owed(Program, Owed, TRUE)
       IN  \/ OnlyEndIn(Program)
           \/ /\ dfi'.cmd[1] = InOrder!Issued(Program, Owed, TRUE)
              /\ \/ dfi'.cmd[2] = InOrder!Issued(p, o, TRUE)
                 \/ OnlyEndIn(p)
              /\ Loaded' \/ OnlyEndIn(Program')]_hostVars

\* Two commands issued in the same clock stand in their slots in the order the
\* host wrote them.
SlotsInOrder ==
  (\A k \in 1..2 : dfi.cmd[k].op \in DDR_INSTR) => dfi.cmd[1].arg < dfi.cmd[2].arg

\* A completed sequence is dispatched to its end, and the dispatcher then
\* becomes free for the next one, unless a reset intervenes.
SequencesFinish == process_iseq_r ~> (~dispatcher_busy_r /\ Program = << >>)
=============================================================================
