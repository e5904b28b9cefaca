---------------------------- MODULE MessageQueue ----------------------------
(***************************************************************************)
(* What circ_queue.h promises: a bounded queue of pairs.  The n-th message *)
(* pushed is the pair <<n, n>>, so that a lost, doubled or torn one shows. *)
(*   got[c] = the pair consumer c popped last                              *)
(***************************************************************************)
EXTENDS Naturals, Sequences

CONSTANTS Capacity, Consumers

VARIABLES queue, pushed, got

Init == queue = << >> /\ pushed = 0 /\ got = [c \in Consumers |-> <<0, 0>>]

Push == /\ Len(queue) < Capacity
        /\ pushed' = pushed + 1
        /\ queue' = Append(queue, <<pushed + 1, pushed + 1>>)
        /\ UNCHANGED got

Pop(c) == /\ queue # << >>
          /\ got' = [got EXCEPT ![c] = Head(queue)]
          /\ queue' = Tail(queue)
          /\ UNCHANGED pushed

Next == Push \/ \E c \in Consumers : Pop(c)

Spec == Init /\ [][Next]_<<queue, pushed, got>>
=============================================================================
