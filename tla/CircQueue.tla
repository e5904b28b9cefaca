----------------------------- MODULE CircQueue -----------------------------
(***************************************************************************)
(* circ_queue.c of the RIFFA Linux driver: the queue in which the          *)
(* interrupt handler, its only producer, leaves events for the threads in  *)
(* chnl_send, chnl_recv and reset.  There is no lock: a step is one access *)
(* to shared memory, in program order (the atomic operations order the     *)
(* plain stores and loads around them on the driver's target).             *)
(*   push   = push_circ_queue's program counter and local variables        *)
(*   pop[c] = pop_circ_queue's, in thread c                                *)
(*   got[c] = what *val1 and *val2 held when thread c's pop last returned 0 *)
(* The n-th message pushed is <<n, n>>.  The 32-bit counters do not wrap   *)
(* within the bound MaxPush.                                               *)
(***************************************************************************)
EXTENDS Integers, Sequences

CONSTANTS
  QLen,        \* places in the array (4 or 5)
  Consumers,   \* threads that pop
  MaxPush      \* bound: messages pushed

ASSUME QueueAssumption == QLen \in Nat /\ QLen > 1 /\ MaxPush \in Nat

VARIABLES writeIndex, readIndex, vals, push, pop, got

queueVars == <<writeIndex, readIndex, vals, push, pop, got>>

queue_count_to_index(count) == count % QLen
Places == 0 .. QLen - 1

QueueInit ==
  /\ writeIndex = 0
  /\ readIndex = 0
  /\ vals = [i \in Places |-> <<0, 0>>]
  /\ push = [pc |-> "idle", w |-> 0]
  /\ pop = [c \in Consumers |-> [pc |-> "idle", r |-> 0, val1 |-> 0, val2 |-> 0]]
  /\ got = [c \in Consumers |-> <<0, 0>>]

-----------------------------------------------------------------------------
(* push_circ_queue, by the interrupt handler.                              *)

FullLate(w, r) == w - r = QLen
Full(w, r) == queue_count_to_index(w + 1) = queue_count_to_index(r)

PushBegin ==
  /\ push.pc = "idle" /\ writeIndex < MaxPush
  /\ push' = [pc |-> "check", w |-> writeIndex]
  /\ UNCHANGED <<writeIndex, readIndex, vals, pop, got>>

\* Returns 1 if the queue is full.
PushCheck ==
  /\ push.pc = "check"
  /\ push' = [push EXCEPT !.pc = IF Full(push.w, readIndex) THEN "idle" ELSE "val1"]
  /\ UNCHANGED <<writeIndex, readIndex, vals, pop, got>>

Store(field, next) ==
  /\ vals' = [vals EXCEPT ![queue_count_to_index(push.w)][field] = push.w + 1]
  /\ push' = [push EXCEPT !.pc = next]
  /\ UNCHANGED <<writeIndex, readIndex, pop, got>>
PushVal1 == push.pc = "val1" /\ Store(1, "val2")
PushVal2 == push.pc = "val2" /\ Store(2, "inc")

PushInc ==
  /\ push.pc = "inc"
  /\ writeIndex' = writeIndex + 1
  /\ push' = [push EXCEPT !.pc = "idle"]
  /\ UNCHANGED <<readIndex, vals, pop, got>>

Push == PushBegin \/ PushCheck \/ PushVal1 \/ PushVal2 \/ PushInc

-----------------------------------------------------------------------------
(* pop_circ_queue, by thread c.                                            *)

Empty(r, w) == queue_count_to_index(r) = queue_count_to_index(w)

Step(c, p) == /\ pop' = [pop EXCEPT ![c] = p]
              /\ UNCHANGED <<writeIndex, vals, push>>

\* A call, or another round of its loop.
PopBegin(c) ==
  /\ pop[c].pc \in {"idle", "retry"}
  /\ Step(c, [pop[c] EXCEPT !.pc = "check", !.r = readIndex])
  /\ UNCHANGED <<readIndex, got>>

\* Returns 1 if the queue is empty.
PopCheck(c) ==
  /\ pop[c].pc = "check"
  /\ Step(c, [pop[c] EXCEPT !.pc = IF Empty(pop[c].r, writeIndex) THEN "idle" ELSE "val1"])
  /\ UNCHANGED <<readIndex, got>>

Place(c) == vals[queue_count_to_index(pop[c].r)]
PopVal1(c) ==
  /\ pop[c].pc = "val1"
  /\ Step(c, [pop[c] EXCEPT !.pc = "val2", !.val1 = Place(c)[1]])
  /\ UNCHANGED <<readIndex, got>>
PopVal2(c) ==
  /\ pop[c].pc = "val2"
  /\ Step(c, [pop[c] EXCEPT !.pc = "cas", !.val2 = Place(c)[2]])
  /\ UNCHANGED <<readIndex, got>>

\* atomic_cmpxchg: only the thread whose count is still current takes the pair.
PopCasAlways(c) ==
  /\ pop[c].pc = "cas"
  /\ readIndex' = pop[c].r + 1
  /\ got' = [got EXCEPT ![c] = <<pop[c].val1, pop[c].val2>>]
  /\ Step(c, [pop[c] EXCEPT !.pc = "idle"])
PopCas(c) ==
  /\ pop[c].pc = "cas"
  /\ \/ /\ readIndex = pop[c].r
        /\ readIndex' = readIndex + 1
        /\ got' = [got EXCEPT ![c] = <<pop[c].val1, pop[c].val2>>]
        /\ Step(c, [pop[c] EXCEPT !.pc = "idle"])
     \/ /\ readIndex # pop[c].r
        /\ Step(c, [pop[c] EXCEPT !.pc = "retry"])
        /\ UNCHANGED <<readIndex, got>>

Pop(c) == PopBegin(c) \/ PopCheck(c) \/ PopVal1(c) \/ PopVal2(c) \/ PopCas(c)

QueueNext == Push \/ \E c \in Consumers : Pop(c)

QueueSpec == QueueInit /\ [][QueueNext]_queueVars

-----------------------------------------------------------------------------
\* The pairs between the two counters.
QueueContent == [k \in 1 .. writeIndex - readIndex |->
                   vals[queue_count_to_index(readIndex + k - 1)]]

\* Every message pushed is popped by exactly one thread, whole and in order, and
\* the queue never holds more than its places less one, although the producer
\* and the consumers read one another's counter at different moments.
Queue == INSTANCE MessageQueue
           WITH Capacity <- QLen - 1, queue <- QueueContent, pushed <- writeIndex
ImplementsQueue == Queue!Spec

\* A push is refused only by a full queue, and a pop is refused only by an empty
\* one, or when other threads have popped since it read readIndex (the stale
\* count may then match a writeIndex a whole round ahead).
RefusalsHonest ==
  [][/\ push.pc = "check" /\ push'.pc = "idle" => writeIndex - readIndex = QLen - 1
     /\ \A c \in Consumers : pop[c].pc = "check" /\ pop'[c].pc = "idle" =>
          readIndex = writeIndex \/ readIndex > pop[c].r]_queueVars
=============================================================================
