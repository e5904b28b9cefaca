----------------------------- MODULE WinChannel -----------------------------
(***************************************************************************)
(* One direction of one channel in the RIFFA driver for Windows, riffa.c:  *)
(* the call that starts a transfer, the interrupt's deferred procedure     *)
(* call, the timer and the cancel callback work on one CHNL_DIR_STATE, and *)
(* each may be interrupted by the others between two of its steps.  What a *)
(* thread has still to do is a stack of functions, each the sequence of    *)
(* the steps it has left.                                                  *)
(*                                                                         *)
(* The framework (requests, timer, DMA transaction) and the FPGA are       *)
(* external.  Lengths are counted in pages: an element of a scatter gather *)
(* list names one, and page k of a buffer is the number k.  Offsets are 0. *)
(***************************************************************************)
EXTENDS Integers, Sequences, FiniteSets

CONSTANTS
  MaxNumScatterGatherElems, \* elements of a list the FPGA takes at a time
  MapRegs,          \* pages the framework maps in one transfer of a transaction
  SgRoom,           \* elements the FPGA's FIFO has room for
  Lengths,          \* bounds: the lengths of transactions
  Capacities,       \* and of the buffers of recv
  Lasts,            \* bound: the values of a transaction's last flag
  MaxCalls,         \* bound: the calls an application makes, resets among them
  MayCancel,        \* bounds: may the I/O manager cancel a request,
  MayTimeOut,       \* may a call have a timeout,
  DmaMayFail,       \* may the start of a DMA transaction fail
  QuickCall,        \* bound: no interrupt, deferred procedure call, timer or cancel
                    \* callback begins while a call's handler runs
  CallsWhenIdle,    \* bound: a call begins when every other thread is through
  OnlyResetWhenStale \* bound: the next call but one that was abandoned is reset

ASSUME WinAssumption ==
  /\ {MaxNumScatterGatherElems, MapRegs} \subseteq Nat \ {0}
  /\ SgRoom \in Nat /\ SgRoom > MaxNumScatterGatherElems
  /\ Lengths \subseteq Nat /\ Capacities \subseteq Nat \ {0} /\ Lasts \subseteq BOOLEAN
  /\ MaxCalls \in Nat
  /\ {MayCancel, MayTimeOut, DmaMayFail, QuickCall, CallsWhenIdle,
      OnlyResetWhenStale} \subseteq BOOLEAN

VARIABLES
  way,    \* "send" or "recv": the direction, which does not change
  chnl,   \* its CHNL_DIR_STATE; Request is the number of a call, or 0
  wdf,    \* the framework's timer and DMA transaction
  req,    \* the requests of the calls, in the order of the calls
  intr,   \* IntrData of the direction
  stack,  \* per thread, its functions, the innermost first
  local,  \* local variables, forgotten when their function has used them
  port,   \* the FPGA's port and the interrupts it has raised
  left,   \* the calls still to be made
  data,   \* history: the tags of the application's transaction, of the next to be
          \* received and of the call's, and what the port has moved for the call
  stale   \* history: a transfer was abandoned and the FPGA has not been reset

fpgaVars == <<port, data>>
callerVars == <<way, left>>
winVars == <<callerVars, chnl, wdf, req, intr, stack, local, fpgaVars, stale>>

Threads == {"ioctl", "dpc", "timer", "cancel"}
Least(a, b) == IF a <= b THEN a ELSE b
Spill == 0
NoIntr == [NewTxn |-> FALSE, Length |-> 0, Last |-> FALSE, SgRead |-> FALSE, Done |-> FALSE]

-----------------------------------------------------------------------------
(* Threads.  A step is at the head of a thread's innermost function.       *)
At(t, step) == stack[t] # << >> /\ Head(Head(stack[t])) = step

Rest(t) == IF Len(Head(stack[t])) = 1 THEN Tail(stack[t])
           ELSE <<Tail(Head(stack[t]))>> \o Tail(stack[t])

Proceed(t) == stack' = [stack EXCEPT ![t] = Rest(t)]
Call(t, function) == stack' = [stack EXCEPT ![t] = <<function>> \o Rest(t)]
Return(t) == stack' = [stack EXCEPT ![t] = Tail(@)]
Resting(t) == stack[t] = << >>

RiffaProgramScatterGather == <<"stop_timer", "enter", "program", "exit", "start_timer">>
RiffaStartRecvTransaction == <<"stop_timer", "enter", "start_recv", "exit">>
RiffaTransactionComplete  == <<"stop_timer", "enter", "release", "complete_or_repeat", "exit">>
RiffaIoctlSend  == <<"claim", "set_up_send", "execute", "mark">>
RiffaIoctlRecv  == <<"claim", "set_up_recv", "ready", "mark">>
RiffaIoctlReset == <<"reset_fpga", "reset_channel", "reset_request", "reset_interrupt_data">>
RiffaEvtTimerFunc     == <<"timer_looks", "timer_cancels">>
RiffaEvtRequestCancel == <<"cancel_looks", "cancel_cancels">>

-----------------------------------------------------------------------------
(* The framework's requests and its DMA transaction.                       *)
Request(timed) == [mark |-> "no", cancelled |-> FALSE, timed |-> timed,
                   done |-> 0, status |-> "pending", info |-> 0]
Current == Len(req)

Complete(r, status, info) ==
  req' = [req EXCEPT ![r].done = Least(@ + 1, 2), ![r].status = status, ![r].info = info]

\* An unsuccessful end leaves the FPGA with what it has been given.
Leaves(status) == stale' = (stale \/ status # "success")

Moved == chnl.ConfirmedPrev + chnl.Confirmed

\* RiffaCompleteRequest: a request the framework is cancelling is left to the callback.
RiffaCompleteRequest(c, status) ==
  IF c.Request = 0 \/ req[c.Request].mark = "cancelling"
  THEN chnl' = c /\ UNCHANGED <<req, stale>>
  ELSE /\ chnl' = [c EXCEPT !.Request = 0]
       /\ Complete(c.Request, status, c.ConfirmedPrev + c.Confirmed)
       /\ Leaves(status)

Released == [wdf EXCEPT !.executing = FALSE]

\* The I/O manager cancels the request; the callback runs if it was marked.
IoManagerCancels ==
  /\ MayCancel /\ req # << >>
  /\ QuickCall => Resting("ioctl")
  /\ LET r == req[Current]
     IN  /\ r.done = 0 /\ ~r.cancelled
         /\ req' = [req EXCEPT ![Current].cancelled = TRUE,
                               ![Current].mark = IF @ = "yes" THEN "cancelling" ELSE @]
         /\ stack' = [stack EXCEPT !["cancel"] = IF r.mark = "yes" THEN <<RiffaEvtRequestCancel>>
                                                 ELSE @]
  /\ UNCHANGED <<callerVars, chnl, wdf, intr, local, port, data, stale>>

TimerExpires ==
  /\ wdf.timer /\ Resting("timer")
  /\ QuickCall => Resting("ioctl")
  /\ wdf' = [wdf EXCEPT !.timer = FALSE]
  /\ stack' = [stack EXCEPT !["timer"] = <<RiffaEvtTimerFunc>>]
  /\ UNCHANGED <<callerVars, chnl, req, intr, local, port, data, stale>>

-----------------------------------------------------------------------------
(* Entering and leaving a function that works on a transfer; the timer.    *)
StopTimer(t) ==
  /\ At(t, "stop_timer") /\ Proceed(t)
  /\ wdf' = [wdf EXCEPT !.timer = FALSE]
  /\ UNCHANGED <<callerVars, chnl, req, intr, local, fpgaVars, stale>>

StartTimer(t) ==
  /\ At(t, "start_timer") /\ Proceed(t)
  /\ wdf' = [wdf EXCEPT !.timer = @ \/ chnl.Timeout]
  /\ UNCHANGED <<callerVars, chnl, req, intr, local, fpgaVars, stale>>

RiffaThreadEnterCountsFirst(t) ==
  /\ At(t, "enter")
  /\ chnl' = [chnl EXCEPT !.ActiveCount = @ + 1]
  /\ IF chnl.Request # 0 THEN Proceed(t) ELSE Return(t)
  /\ UNCHANGED <<callerVars, wdf, req, intr, local, fpgaVars, stale>>

RiffaThreadEnter(t) ==
  /\ At(t, "enter")
  /\ \/ chnl.Request # 0 /\ chnl' = [chnl EXCEPT !.ActiveCount = @ + 1] /\ Proceed(t)
     \/ chnl.Request = 0 /\ chnl' = chnl /\ Return(t)
  /\ UNCHANGED <<callerVars, wdf, req, intr, local, fpgaVars, stale>>

RiffaThreadExit(t) ==
  /\ At(t, "exit") /\ Proceed(t)
  /\ LET c == [chnl EXCEPT !.ActiveCount = @ - 1]
     IN  IF c.ActiveCount = 0 /\ c.Cancel = 1
         THEN RiffaCompleteRequest(c, "cancelled")
         ELSE chnl' = c /\ UNCHANGED <<req, stale>>
  /\ UNCHANGED <<callerVars, wdf, intr, local, fpgaVars>>

-----------------------------------------------------------------------------
(* The FPGA's registers, as the driver writes and reads them.              *)
\* A length for the port is a new transfer, or, in the middle of one, the request
\* to be told when the given lists are used up (rx_port_reader.v).
RxLength(len, last) ==
  IF port.st # "idle" THEN [port EXCEPT !.partial = TRUE]
  ELSE IF len = 0 /\ ~last THEN port
  ELSE [port EXCEPT !.st = IF len = 0 THEN "moved" ELSE "write", !.len = len, !.moved = 0,
                    !.sg = << >>, !.request = << >>, !.partial = FALSE]

\* RiffaProgramSend
RiffaProgramSend == port' = RxLength(chnl.Length, chnl.Last)

\* A transfer that could not be started: the call itself completes its request, other
\* threads do so by RiffaCompleteRequest; of a send's call nothing is left to do.
NotStarted(t) ==
  /\ wdf' = Released
  /\ IF t # "ioctl" THEN RiffaCompleteRequest(chnl, "failed")
     ELSE Complete(Current, "failed", 0) /\ Leaves("failed") /\ chnl' = chnl
  /\ IF t = "ioctl" /\ way = "send" THEN stack' = [stack EXCEPT ![t] = << >>] ELSE Proceed(t)

\* The framework maps the first pages, or fails.
RiffaStartDmaTransaction(t) ==
  /\ At(t, "execute")
  /\ \E started \in {TRUE, ~DmaMayFail} :
       IF started
       THEN /\ wdf' = [wdf EXCEPT !.executing = TRUE, !.from = 0,
                                  !.total = IF way = "send" THEN chnl.Length
                                            ELSE Least(chnl.Capacity, chnl.Length)]
            /\ Call(t, <<"program_dma">>) /\ UNCHANGED <<chnl, req, stale>>
       ELSE NotStarted(t)
  /\ UNCHANGED <<callerVars, intr, local, fpgaVars>>

RiffaEvtProgramDma(t) ==
  /\ At(t, "program_dma") /\ Call(t, RiffaProgramScatterGather)
  /\ chnl' = [chnl EXCEPT !.SgPos = 0,
                          !.SgList = [k \in 1 .. Least(MapRegs, wdf.total - wdf.from) |->
                                        wdf.from + k]]
  /\ IF way = "send" /\ wdf.from = 0 THEN RiffaProgramSend ELSE port' = port
  /\ UNCHANGED <<callerVars, wdf, req, intr, local, data, stale>>

\* The next elements of the list, then the spill buffer; with nothing to give and
\* data missing, the FPGA is asked for a TXN_DONE.
Program(t) ==
  /\ At(t, "program") /\ Proceed(t)
  /\ LET elements == LET rest == Least(Len(chnl.SgList) - chnl.SgPos,
                                       chnl.SpillAfter - chnl.Provided)
                     IN  IF rest < 0 THEN 0 ELSE Least(MaxNumScatterGatherElems, rest)
         given    == chnl.Provided + elements
         spilled  == IF given < chnl.SpillAfter \/ chnl.Length <= given THEN 0
                     ELSE Least(MaxNumScatterGatherElems - elements, chnl.Length - given)
         provided == given + spilled
         list     == [k \in 1 .. elements |-> chnl.SgList[chnl.SgPos + k]]
                       \o [k \in 1 .. spilled |-> Spill]
         reqd     == list = << >> /\ provided < chnl.Length
     IN  /\ chnl' = [chnl EXCEPT !.Confirmed = @ + chnl.ProvidedPrev,
                                 !.ProvidedPrev = provided - chnl.Provided,
                                 !.Provided = provided, !.SgPos = @ + elements,
                                 !.ReqdDone = IF reqd THEN 1 ELSE @]
         /\ port' = IF list # << >> THEN [port EXCEPT !.request = list]
                    ELSE IF ~reqd THEN port
                    ELSE IF way = "send" THEN RxLength(provided, chnl.Last)
                    ELSE [port EXCEPT !.partial = (port.st # "idle")]
  /\ UNCHANGED <<callerVars, wdf, req, intr, local, data, stale>>

-----------------------------------------------------------------------------
(* The call.  One at a time is made on a channel and direction.            *)
Begin(function) ==
  /\ Resting("ioctl") /\ left > 0
  /\ CallsWhenIdle => \A t \in Threads : Resting(t)
  /\ left' = left - 1
  /\ stack' = [stack EXCEPT !["ioctl"] = <<function>>]

BeginTransfer(n, timed) ==
  /\ Begin(IF way = "send" THEN RiffaIoctlSend ELSE RiffaIoctlRecv)
  /\ req # << >> => req[Current].done > 0
  /\ OnlyResetWhenStale => ~stale
  /\ req' = Append(req, Request(timed))
  /\ local' = [local EXCEPT !.size = n]
  /\ data' = [data EXCEPT !.mine = data.due, !.pages = << >>]
  /\ UNCHANGED <<way, chnl, wdf, intr, port, stale>>

Sizes == IF way = "send" THEN Lengths ELSE Capacities

\* A channel in use refuses the call.
Claim ==
  /\ At("ioctl", "claim")
  /\ chnl' = [chnl EXCEPT !.InUse = 1]
  /\ IF chnl.InUse = 1
     THEN Return("ioctl") /\ Complete(Current, "refused", 0)
     ELSE Proceed("ioctl") /\ UNCHANGED req
  /\ UNCHANGED <<callerVars, wdf, intr, local, fpgaVars, stale>>

Fresh(c) == [c EXCEPT !.Timeout = req[Current].timed, !.Provided = 0, !.ProvidedPrev = 0,
                      !.Confirmed = 0, !.ConfirmedPrev = 0, !.ActiveCount = 0, !.Cancel = 0,
                      !.Request = Current, !.ReqdDone = 0]

\* A send of nothing is complete when the FPGA has been told.
SetUpSend ==
  /\ At("ioctl", "set_up_send")
  /\ \E last \in Lasts :
       IF local.size > 0
       THEN /\ chnl' = [Fresh(chnl) EXCEPT !.Length = local.size, !.SpillAfter = local.size,
                                           !.Last = last]
            /\ Proceed("ioctl") /\ UNCHANGED <<req, port>>
       ELSE /\ Return("ioctl") /\ chnl' = chnl
            /\ Complete(Current, IF last THEN "success" ELSE "refused", 0)
            /\ port' = IF last THEN RxLength(0, TRUE) ELSE port
  /\ UNCHANGED <<callerVars, wdf, intr, local, data, stale>>

SetUpRecv ==
  /\ At("ioctl", "set_up_recv") /\ Proceed("ioctl")
  /\ chnl' = [Fresh(chnl) EXCEPT !.Capacity = local.size]
  /\ UNCHANGED <<callerVars, wdf, req, intr, local, fpgaVars, stale>>

ReadyUntimed ==
  /\ At("ioctl", "ready")
  /\ chnl' = [chnl EXCEPT !.Ready = IF @ = 2 THEN 0 ELSE 1]
  /\ IF chnl.Ready = 2 THEN Call("ioctl", <<"start_recv">>) ELSE Proceed("ioctl")
  /\ UNCHANGED <<callerVars, wdf, req, intr, local, fpgaVars, stale>>

\* The call meets the transaction the FPGA has announced, or waits for it.
Ready ==
  /\ At("ioctl", "ready")
  /\ IF chnl.Ready = 2
     THEN /\ chnl' = [chnl EXCEPT !.Ready = 0]
          /\ Call("ioctl", <<"start_recv">>) /\ wdf' = wdf
     ELSE /\ chnl' = [chnl EXCEPT !.Ready = 1]
          /\ wdf' = [wdf EXCEPT !.timer = @ \/ chnl.Timeout]
          /\ Proceed("ioctl")
  /\ UNCHANGED <<callerVars, req, intr, local, fpgaVars, stale>>

\* Without data there is nothing to start.  The call itself completes its request
\* at once, other threads by RiffaCompleteRequest.
StartRecv(t) ==
  /\ At(t, "start_recv")
  /\ IF chnl.Length > 0
     THEN /\ chnl' = [chnl EXCEPT !.SpillAfter = chnl.Capacity]
          /\ Call(t, <<"execute">>) /\ UNCHANGED <<req, stale>>
     ELSE LET status == IF chnl.Last THEN "success" ELSE "cancelled"
          IN  /\ Proceed(t)
              /\ IF t # "ioctl" THEN RiffaCompleteRequest(chnl, status)
                 ELSE Complete(Current, status, 0) /\ Leaves(status) /\ chnl' = chnl
  /\ UNCHANGED <<callerVars, wdf, intr, local, fpgaVars>>

\* WdfRequestMarkCancelableEx; it fails for a request that has been cancelled.
Mark ==
  /\ At("ioctl", "mark") /\ Proceed("ioctl")
  /\ IF req[Current].done = 0 /\ ~req[Current].cancelled
     THEN req' = [req EXCEPT ![Current].mark = "yes"] /\ stale' = stale
     ELSE Complete(Current, "cancelled", 0) /\ Leaves("cancelled")
  /\ UNCHANGED <<callerVars, chnl, wdf, intr, local, fpgaVars>>

-----------------------------------------------------------------------------
(* The timer and the cancel callback: cancel now, or leave it to the last  *)
(* thread that is active.                                                  *)
LooksOnly(t) ==
  IF chnl.ActiveCount = 0
  THEN chnl' = chnl /\ Proceed(t)
  ELSE chnl' = [chnl EXCEPT !.Cancel = 1] /\ Return(t)

Looks(t) ==
  IF chnl.ActiveCount = 0
  THEN chnl' = [chnl EXCEPT !.Request = 0] /\ Proceed(t)
  ELSE chnl' = [chnl EXCEPT !.Cancel = 1] /\ Return(t)

CancelsInUse(r) ==
  /\ chnl' = [chnl EXCEPT !.Ready = 0, !.ActiveCount = 0, !.Cancel = 0]
  /\ wdf' = [Released EXCEPT !.timer = FALSE]
  /\ Complete(r, "cancelled", Moved) /\ Leaves("cancelled")

Cancels(r) ==
  /\ chnl' = [chnl EXCEPT !.Ready = 0, !.InUse = 0, !.ActiveCount = 0, !.Cancel = 0]
  /\ wdf' = [Released EXCEPT !.timer = FALSE]
  /\ Complete(r, "cancelled", Moved) /\ Leaves("cancelled")

TimerLooks ==
  /\ At("timer", "timer_looks")
  /\ local' = [local EXCEPT !.request = IF chnl.ActiveCount = 0 THEN chnl.Request ELSE 0]
  /\ IF chnl.Request = 0 THEN Return("timer") /\ chnl' = chnl ELSE Looks("timer")
  /\ UNCHANGED <<callerVars, wdf, req, intr, fpgaVars, stale>>

TimerCancels ==
  /\ At("timer", "timer_cancels") /\ Proceed("timer")
  /\ IF req[local.request].mark = "cancelling"
     THEN UNCHANGED <<chnl, wdf, req, stale>>
     ELSE Cancels(local.request)
  /\ local' = [local EXCEPT !.request = 0]
  /\ UNCHANGED <<callerVars, intr, fpgaVars>>

CancelLooks ==
  /\ At("cancel", "cancel_looks") /\ Looks("cancel")
  /\ UNCHANGED <<callerVars, wdf, req, intr, local, fpgaVars, stale>>

CancelCancels ==
  /\ At("cancel", "cancel_cancels") /\ Proceed("cancel") /\ Cancels(Current)
  /\ UNCHANGED <<callerVars, intr, local, fpgaVars>>

-----------------------------------------------------------------------------
(* The interrupt and its deferred procedure call.                          *)
\* The interrupt registers are read and cleared; reading the length of a new
\* transaction is the acknowledgement the tx_port waits for.
RiffaEvtInterruptIsr ==
  /\ port.vect # {}
  /\ QuickCall => Resting("ioctl")
  /\ intr' = [intr EXCEPT !.SgRead = @ \/ "sg" \in port.vect, !.Done = @ \/ "done" \in port.vect,
                          !.NewTxn = @ \/ "txn" \in port.vect,
                          !.Length = IF "txn" \in port.vect THEN port.len ELSE @,
                          !.Last = IF "txn" \in port.vect THEN port.last ELSE @]
  /\ port' = [port EXCEPT !.vect = {},
                          !.st = IF "txn" \notin port.vect \/ @ # "new" THEN @
                                 ELSE IF port.len = 0 THEN "moved" ELSE "write"]
  /\ UNCHANGED <<callerVars, chnl, wdf, req, stack, local, data, stale>>

\* The data is copied and cleared under the interrupt's lock.
RiffaEvtInterruptDpc ==
  /\ intr # NoIntr /\ Resting("dpc")
  /\ QuickCall => Resting("ioctl")
  /\ local' = [local EXCEPT !.intr = IF intr.NewTxn THEN intr ELSE NoIntr]
  /\ intr' = NoIntr
  /\ LET todo == (IF intr.SgRead THEN <<"sg_read">> ELSE << >>)
                   \o (IF intr.Done THEN <<"done">> ELSE << >>)
                   \o (IF intr.NewTxn THEN <<"new_txn">> ELSE << >>)
     IN  stack' = [stack EXCEPT !["dpc"] = <<todo>>]
  /\ UNCHANGED <<callerVars, chnl, wdf, req, fpgaVars, stale>>

DpcSgRead ==
  /\ At("dpc", "sg_read") /\ Call("dpc", RiffaProgramScatterGather)
  /\ UNCHANGED <<callerVars, chnl, wdf, req, intr, local, fpgaVars, stale>>

DpcDone ==
  /\ At("dpc", "done")
  /\ IF chnl.Request # 0 THEN Call("dpc", <<"reqd_done", "dma_completed">>) ELSE Proceed("dpc")
  /\ UNCHANGED <<callerVars, chnl, wdf, req, intr, local, fpgaVars, stale>>

DpcReqdDone ==
  /\ At("dpc", "reqd_done") /\ Proceed("dpc")
  /\ local' = [local EXCEPT !.doneReqd = chnl.ReqdDone]
  /\ chnl' = [chnl EXCEPT !.ReqdDone = 0]
  /\ UNCHANGED <<callerVars, wdf, req, intr, fpgaVars, stale>>

\* The register of the transferred length is read, and the transaction ends.
EndsTransaction(status) ==
  /\ local' = [local EXCEPT !.tnfr = port.doneLen, !.status = status]
  /\ port' = [port EXCEPT !.doneRead = TRUE]
  /\ Call("dpc", RiffaTransactionComplete)

\* WdfDmaTransactionDmaCompleted: the framework maps the next pages, or there are none.
DpcDmaCompleted ==
  /\ At("dpc", "dma_completed")
  /\ IF wdf.executing /\ wdf.from + MapRegs < wdf.total
     THEN /\ wdf' = [wdf EXCEPT !.from = @ + MapRegs]
          /\ Call("dpc", <<"program_dma", "not_complete">>)
          /\ UNCHANGED <<local, port>>
     ELSE EndsTransaction("success") /\ wdf' = wdf
  /\ UNCHANGED <<callerVars, chnl, req, intr, data, stale>>

DpcNotComplete ==
  /\ At("dpc", "not_complete")
  /\ IF local.doneReqd = 0 THEN EndsTransaction("aborted")
     ELSE Proceed("dpc") /\ UNCHANGED <<local, port>>
  /\ UNCHANGED <<callerVars, chnl, wdf, req, intr, data, stale>>

DpcRelease ==
  /\ At("dpc", "release") /\ Proceed("dpc")
  /\ wdf' = Released
  /\ UNCHANGED <<callerVars, chnl, req, intr, local, fpgaVars, stale>>

DpcCompleteAdding ==
  /\ At("dpc", "complete_or_repeat") /\ Call("dpc", <<"complete">>)
  /\ chnl' = [chnl EXCEPT !.Confirmed = @ + local.tnfr, !.InUse = 0]
  /\ UNCHANGED <<callerVars, wdf, req, intr, local, fpgaVars, stale>>

\* A send is complete, and a recv with its last transaction or after an error.
DpcCompleteOrRepeat ==
  /\ At("dpc", "complete_or_repeat")
  /\ IF way = "send" \/ chnl.Last \/ local.status # "success"
     THEN /\ chnl' = [chnl EXCEPT !.Confirmed = local.tnfr, !.InUse = 0]
          /\ Call("dpc", <<"complete">>)
     ELSE /\ chnl' = [chnl EXCEPT !.ConfirmedPrev = @ + local.tnfr, !.Confirmed = 0,
                                  !.ProvidedPrev = 0, !.Provided = 0,
                                  !.Ready = IF @ = 0 THEN 1 ELSE 0]
          /\ IF chnl.Ready # 0 THEN Call("dpc", RiffaStartRecvTransaction) ELSE Proceed("dpc")
  /\ UNCHANGED <<callerVars, wdf, req, intr, local, fpgaVars, stale>>

DpcComplete ==
  /\ At("dpc", "complete") /\ Proceed("dpc")
  /\ RiffaCompleteRequest(chnl, local.status)
  /\ data' = [data EXCEPT !.due = IF local.status = "success" THEN ~data.mine ELSE @]
  /\ local' = [local EXCEPT !.tnfr = 0, !.doneReqd = 0]
  /\ UNCHANGED <<callerVars, wdf, intr, port>>

DpcNewTxn ==
  /\ At("dpc", "new_txn")
  /\ chnl' = [chnl EXCEPT !.Length = local.intr.Length, !.Last = local.intr.Last,
                          !.Ready = IF @ = 1 THEN 0 ELSE 2]
  /\ IF chnl.Ready = 1 THEN Call("dpc", RiffaStartRecvTransaction) ELSE Proceed("dpc")
  /\ local' = [local EXCEPT !.intr = NoIntr]
  /\ UNCHANGED <<callerVars, wdf, req, intr, fpgaVars, stale>>

-----------------------------------------------------------------------------
(* RiffaIoctlReset.                                                        *)
IdlePort == [st |-> "idle", len |-> 0, last |-> TRUE, moved |-> 0, sg |-> << >>,
             request |-> << >>, partial |-> FALSE, doneLen |-> 0, doneRead |-> TRUE, vect |-> {}]

ResetFpga ==
  /\ At("ioctl", "reset_fpga") /\ Proceed("ioctl")
  /\ port' = IdlePort
  /\ data' = [data EXCEPT !.due = ~data.tag]
  /\ UNCHANGED <<callerVars, chnl, wdf, req, intr, local, stale>>

ResetChannel ==
  /\ At("ioctl", "reset_channel") /\ Proceed("ioctl")
  /\ chnl' = [chnl EXCEPT !.Ready = 0, !.InUse = 0, !.ReqdDone = 0, !.ActiveCount = 0,
                          !.Cancel = 0]
  /\ wdf' = Released
  /\ UNCHANGED <<callerVars, req, intr, local, fpgaVars, stale>>

ResetRequest ==
  /\ At("ioctl", "reset_request") /\ Proceed("ioctl")
  /\ RiffaCompleteRequest(chnl, "cancelled")
  /\ wdf' = [wdf EXCEPT !.timer = FALSE]
  /\ UNCHANGED <<callerVars, intr, local, fpgaVars>>

ResetInterruptData ==
  /\ At("ioctl", "reset_interrupt_data") /\ Proceed("ioctl")
  /\ intr' = NoIntr
  /\ stale' = \E t \in Threads \ {"ioctl"} : ~Resting(t)
  /\ UNCHANGED <<callerVars, chnl, wdf, req, local, fpgaVars>>

-----------------------------------------------------------------------------
(* The FPGA.                                                               *)
Raises(e) == port.vect \cup {e}

AppSends(n, last) ==
  /\ way = "recv" /\ port.st = "idle"
  /\ port' = [port EXCEPT !.st = "new", !.len = n, !.last = last, !.moved = 0, !.sg = << >>,
                          !.request = << >>, !.partial = FALSE, !.vect = Raises("txn")]
  /\ data' = [data EXCEPT !.tag = ~@]
  /\ UNCHANGED <<callerVars, chnl, wdf, req, intr, stack, local, stale>>

\* sg_list_requester.v
FetchSg ==
  /\ port.request # << >> /\ Len(port.sg) < SgRoom - MaxNumScatterGatherElems
  /\ port' = [port EXCEPT !.sg = @ \o port.request, !.request = << >>, !.vect = Raises("sg")]
  /\ UNCHANGED <<callerVars, chnl, wdf, req, intr, stack, local, data, stale>>

MovePage ==
  /\ port.st = "write" /\ port.sg # << >>
  /\ port' = [port EXCEPT !.sg = Tail(@), !.moved = @ + 1,
                          !.st = IF port.moved + 1 = port.len THEN "moved" ELSE @]
  /\ data' = [data EXCEPT !.pages = Append(@, <<data.tag, Head(port.sg)>>)]
  /\ UNCHANGED <<callerVars, chnl, wdf, req, intr, stack, local, stale>>

\* What the port was given is used up, and the host has asked to be told.
PartialDone ==
  /\ port.st = "write" /\ port.partial /\ port.sg = << >> /\ port.request = << >>
  /\ port' = [port EXCEPT !.partial = FALSE, !.vect = Raises("done")]
  /\ UNCHANGED <<callerVars, chnl, wdf, req, intr, stack, local, data, stale>>

\* A transaction with data waits for its last length to have been read.
PortDone ==
  /\ port.st = "moved" /\ (port.len = 0 \/ port.doneRead)
  /\ port' = [port EXCEPT !.st = "idle", !.doneRead = FALSE, !.vect = Raises("done"),
                          !.doneLen = IF port.len = 0 THEN @ ELSE port.len]
  /\ UNCHANGED <<callerVars, chnl, wdf, req, intr, stack, local, data, stale>>

-----------------------------------------------------------------------------
AnyThread(t) == \/ StopTimer(t) \/ StartTimer(t) \/ RiffaThreadEnter(t) \/ RiffaThreadExit(t)
          \/ RiffaStartDmaTransaction(t) \/ RiffaEvtProgramDma(t) \/ Program(t) \/ StartRecv(t)

Ioctl == \/ AnyThread("ioctl") \/ Claim \/ SetUpSend \/ SetUpRecv \/ Ready \/ Mark
         \/ ResetFpga \/ ResetChannel \/ ResetRequest \/ ResetInterruptData
Dpc == \/ RiffaEvtInterruptDpc
       \/ AnyThread("dpc") \/ DpcSgRead \/ DpcDone \/ DpcReqdDone \/ DpcDmaCompleted
       \/ DpcNotComplete \/ DpcRelease \/ DpcCompleteOrRepeat \/ DpcComplete \/ DpcNewTxn
Timer == TimerExpires \/ TimerLooks \/ TimerCancels
Cancel == CancelLooks \/ CancelCancels

Calls == \/ \E n \in Sizes, timed \in {FALSE, MayTimeOut} : BeginTransfer(n, timed)
         \/ /\ Begin(RiffaIoctlReset)
            /\ UNCHANGED <<way, chnl, wdf, req, intr, local, fpgaVars, stale>>

WinInit ==
  /\ way \in {"send", "recv"}
  /\ chnl = [Ready |-> 0, InUse |-> 0, ReqdDone |-> 0, Length |-> 0, Last |-> FALSE,
             Timeout |-> FALSE, Capacity |-> 0, Provided |-> 0, ProvidedPrev |-> 0,
             Confirmed |-> 0, ConfirmedPrev |-> 0, SpillAfter |-> 0, SgList |-> << >>,
             SgPos |-> 0, ActiveCount |-> 0, Cancel |-> 0, Request |-> 0]
  /\ wdf = [timer |-> FALSE, executing |-> FALSE, from |-> 0, total |-> 0]
  /\ req = << >> /\ intr = NoIntr /\ stack = [t \in Threads |-> << >>]
  /\ local = [intr |-> NoIntr, size |-> 0, request |-> 0, doneReqd |-> 0, tnfr |-> 0,
              status |-> "success"]
  /\ port = IdlePort /\ left = MaxCalls /\ stale = FALSE
  /\ data = [tag |-> FALSE, due |-> TRUE, mine |-> TRUE, pages |-> << >>]

WinNext ==
  \/ Ioctl \/ Dpc \/ Timer \/ Cancel \/ Calls \/ IoManagerCancels \/ RiffaEvtInterruptIsr
  \/ FetchSg \/ MovePage \/ PartialDone \/ PortDone
  \/ \E n \in Lengths, last \in Lasts : AppSends(n, last)

WinSpec ==
  /\ WinInit /\ [][WinNext]_winVars
  /\ WF_winVars(Ioctl) /\ WF_winVars(Dpc) /\ WF_winVars(Timer) /\ WF_winVars(Cancel)
  /\ WF_winVars(RiffaEvtInterruptIsr)
  /\ WF_winVars(FetchSg) /\ WF_winVars(MovePage)
  /\ WF_winVars(PartialDone) /\ WF_winVars(PortDone)

-----------------------------------------------------------------------------
\* A request is completed once: the call, the deferred procedure call, the timer and
\* the cancel callback do not complete one another's, nor leave it to nobody twice.
CompletedOnce == \A r \in DOMAIN req : req[r].done < 2

\* ActiveCount is the number of functions between RiffaThreadEnter and
\* RiffaThreadExit, on which cancelling and the deferred cancel rely.
Has(f, step) == \E k \in DOMAIN f : f[k] = step
IsInside(f) == Has(f, "exit") /\ ~Has(f, "enter")
Inside(t) == { k \in DOMAIN stack[t] : IsInside(stack[t][k]) }
ActiveCounted ==
  chnl.ActiveCount = Cardinality(Inside("ioctl")) + Cardinality(Inside("dpc"))

\* A request that succeeds reports what the FPGA has moved for it: the whole
\* transaction, each page in its place, and what exceeds the buffer discarded.
ReportedAsMoved ==
  req # << >> /\ req[Current].status = "success" =>
    LET info == req[Current].info
    IN  IF way = "send"
        THEN info = local.size /\ data.pages = [k \in 1 .. info |-> <<data.tag, k>>]
        ELSE data.pages = [k \in 1 .. info |->
                             <<data.mine, IF k <= local.size THEN k ELSE Spill>>]

\* When every thread is through, the channel is in use if and only if it has a
\* request; a cancel that was left to the last thread is excepted.
Deferred == \/ chnl.Cancel = 1
            \/ chnl.Request # 0 /\ req[chnl.Request].mark = "cancelling"
InUseForRequest ==
  (\A t \in Threads : Resting(t)) /\ ~Deferred => (chnl.InUse = 1 <=> chnl.Request # 0)

\* "Set the cancel flag so that the last active thread cancels for us": when the
\* last thread has left, the request is completed.
DeferredCancelServed ==
  chnl.Cancel = 1 /\ chnl.ActiveCount = 0 => chnl.Request = 0

\* A call whose transaction is under way, or that has a timeout, ends, unless it is
\* cancelled from outside.
UnderWay == /\ req # << >> /\ req[Current].done = 0 /\ ~stale
            /\ req[Current].timed \/ way = "send" \/ port.st # "idle"
RequestEnds == UnderWay ~> (req # << >> /\ (req[Current].done > 0 \/ req[Current].cancelled))
=============================================================================
