--------------------------- MODULE TwoPlaceFifo ---------------------------
(***************************************************************************)
(* What a register stage promises: a FIFO of at most two data that loses,  *)
(* duplicates and reorders nothing.  took and gave are the data that       *)
(* crossed its ports in the last clock.                                    *)
(***************************************************************************)
EXTENDS Naturals, Sequences

CONSTANTS Data, NoData

VARIABLES queue, took, gave

Init == queue = << >> /\ took = NoData /\ gave = NoData

\* The consumer takes the oldest datum, or nothing; a producer adds one, or none.
Transfer(in, out) ==
  LET rest  == IF out = NoData THEN queue ELSE Tail(queue)
      queue1 == IF in = NoData THEN rest ELSE Append(rest, in)
  IN  /\ out # NoData => queue # << >> /\ out = Head(queue)
      /\ Len(queue1) <= 2
      /\ queue' = queue1
      /\ took' = in
      /\ gave' = out

Clear == queue' = << >> /\ took' = NoData /\ gave' = NoData

Next == \/ \E in, out \in Data \cup {NoData} : Transfer(in, out)
        \/ Clear

Spec == Init /\ [][Next]_<<queue, took, gave>>
=============================================================================
