----------------------------- MODULE MCSoftMC -----------------------------
(* Small instances of SoftMC.                                              *)
EXTENDS SoftMC

End == App("END", 0)

\* One sequence switches auto-refresh on, reads and leaves the bus in write
\* mode; the other switches auto-refresh off and writes.
EvenTrfc ==
  { << App("SET_TRFC", 4), App("SET_TREFI", 1), App("BUSDIR", BUS_DIR_READ),
       App("RD", 0), App("BUSDIR", BUS_DIR_WRITE), End >>,
    << App("SET_TREFI", 0), App("WR", 0), End >> }

\* A refresh time that is odd and outlasts the handover to the next sequence,
\* and a sequence that turns the bus before it writes.
OddTrfc ==
  { << App("SET_TRFC", 31), App("SET_TREFI", 1), App("BUSDIR", BUS_DIR_READ), End >>,
    << App("BUSDIR", BUS_DIR_WRITE), App("WR", 0), End >> }

\* One short sequence that asks for every kind of maintenance.
Refreshing == { << App("SET_TREFI", 1), App("RD", 0), End >> }
=============================================================================
