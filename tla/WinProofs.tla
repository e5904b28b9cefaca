------------------------------ MODULE WinProofs ------------------------------
(***************************************************************************)
(* A channel of the Windows driver: which thread may complete its request, *)
(* and what the channel's flags and counters say of the threads.           *)
(***************************************************************************)
EXTENDS WinChannel, SequenceTheorems, FunctionTheorems, FiniteSetTheorems, TLAPS

\* What the runs assume of the environment (the README says what happens else).
OneAtATime ==
  /\ QuickCall = TRUE /\ CallsWhenIdle = TRUE /\ DmaMayFail = FALSE
  /\ 0 \notin Lengths

-----------------------------------------------------------------------------
(* The fields of the records, and the types of what matters below.         *)
ChnlFields == {"Ready", "InUse", "ReqdDone", "Length", "Last", "Timeout", "Capacity",
               "Provided", "ProvidedPrev", "Confirmed", "ConfirmedPrev", "SpillAfter",
               "SgList", "SgPos", "ActiveCount", "Cancel", "Request"}
ReqFields == {"mark", "cancelled", "timed", "done", "status", "info"}
IntrFields == {"NewTxn", "Length", "Last", "SgRead", "Done"}
LocalFields == {"intr", "size", "request", "doneReqd", "tnfr", "status"}
PortFields == {"st", "len", "last", "moved", "sg", "request", "partial", "doneLen", "doneRead",
               "vect"}

IsSequence(s) == s \in Seq({ s[k] : k \in DOMAIN s })

WinTypes ==
  /\ DOMAIN chnl = ChnlFields /\ DOMAIN intr = IntrFields
  /\ DOMAIN local = LocalFields /\ DOMAIN port = PortFields
  /\ IsSequence(req) /\ \A r \in DOMAIN req : DOMAIN req[r] = ReqFields
  /\ chnl.Length \in Nat
  /\ intr.NewTxn \in BOOLEAN /\ intr.SgRead \in BOOLEAN /\ intr.Done \in BOOLEAN
  /\ intr = NoIntr \/ intr.NewTxn \/ intr.SgRead \/ intr.Done
  /\ port.vect \subseteq {"txn", "sg", "done"}

-----------------------------------------------------------------------------
(* What a thread has still to do: functions, of which the innermost ones   *)
(* are helpers and the last is the one the thread began with.              *)
Steps == {"stop_timer", "enter", "program", "exit", "start_timer", "start_recv", "release",
          "complete_or_repeat", "reqd_done", "dma_completed", "program_dma", "not_complete",
          "complete", "execute", "mark", "ready", "sg_read", "done", "new_txn", "claim",
          "set_up_send", "set_up_recv", "reset_fpga", "reset_channel", "reset_request",
          "reset_interrupt_data"}

\* What may be left of a function with as many steps.
Left1(a) == {<<a>>}
Left2(a, b) == {<<a, b>>, <<b>>}
Left4(a, b, c, d) == {<<a, b, c, d>>, <<b, c, d>>, <<c, d>>, <<d>>}
Left5(a, b, c, d, e) == {<<a, b, c, d, e>>, <<b, c, d, e>>, <<c, d, e>>, <<d, e>>, <<e>>}

Adding == Left5("stop_timer", "enter", "program", "exit", "start_timer")
Starting == Left4("stop_timer", "enter", "start_recv", "exit")
Ending == Left5("stop_timer", "enter", "release", "complete_or_repeat", "exit")
Mapping == Left1("program_dma") \cup Left1("execute")

IoctlHelpers == Adding \cup Mapping \cup Left1("start_recv")
Works == Left2("execute", "mark") \cup Left2("ready", "mark")

DpcHelpers ==
  Adding \cup Mapping \cup Starting \cup Ending \cup Left1("complete")
    \cup Left2("reqd_done", "dma_completed") \cup Left2("program_dma", "not_complete")
DpcEvents ==
  { <<"sg_read", "done", "new_txn">>, <<"done", "new_txn">>, <<"new_txn">> }
    \cup Left2("sg_read", "new_txn") \cup Left2("sg_read", "done") \cup Left1("sg_read")

\* No function is below the completion of a request but those that were.
Tower(s, helpers, bases) ==
  /\ s \in Seq(helpers \cup bases)
  /\ \A k \in 1 .. Len(s) : /\ k < Len(s) => s[k] \in helpers
                            /\ k = Len(s) => s[k] \in bases
                            /\ k > 1 => s[k] # <<"complete">>

Claiming == stack["ioctl"] \in {<<RiffaIoctlSend>>, <<RiffaIoctlRecv>>}
SettingUp == stack["ioctl"] \in { << <<"set_up_send", "execute", "mark">> >>,
                                  << <<"set_up_recv", "ready", "mark">> >> }
Working == Tower(stack["ioctl"], IoctlHelpers, Works) /\ stack["ioctl"] # << >>
Resets == { << <<"reset_request", "reset_interrupt_data">> >>, << <<"reset_interrupt_data">> >> }
Resetting == \/ stack["ioctl"] \in Resets
             \/ stack["ioctl"] \in { << RiffaIoctlReset >>,
                  << <<"reset_channel", "reset_request", "reset_interrupt_data">> >> }

ControlInv ==
  /\ DOMAIN stack = Threads
  /\ Resting("ioctl") \/ Claiming \/ SettingUp \/ Working \/ Resetting
  /\ Claiming \/ SettingUp => local.size \in Nat \ {0}
  /\ Tower(stack["dpc"], DpcHelpers, DpcEvents \cup DpcHelpers)
  /\ stack["timer"] \in {<< >>, <<RiffaEvtTimerFunc>>, << <<"timer_cancels">> >>}
  /\ stack["cancel"] \in {<< >>, <<RiffaEvtRequestCancel>>, << <<"cancel_cancels">> >>}
  /\ Resting("ioctl") \/ (Resting("dpc") /\ Resting("timer") /\ Resting("cancel"))

-----------------------------------------------------------------------------
(* Nothing is begun without data.                                          *)
Announcing(s) == s # << >> /\ Has(s[Len(s)], "new_txn")

LengthInv ==
  /\ chnl.Length = 0 =>
       /\ chnl.Ready # 2
       /\ stack["dpc"] \in {<< >>, << <<"new_txn">> >>}
       /\ Working => stack["ioctl"] \in {<< <<"ready", "mark">> >>, << <<"mark">> >>}
       /\ port.sg = << >> /\ port.request = << >> /\ ~port.partial /\ port.st # "moved"
       /\ port.vect \subseteq {"txn"} /\ ~intr.SgRead /\ ~intr.Done
  /\ "txn" \in port.vect => way = "recv" /\ port.len \in Nat \ {0}
  /\ intr.NewTxn => intr.Length \in Nat \ {0}
  /\ Announcing(stack["dpc"]) => local.intr.Length \in Nat \ {0}

-----------------------------------------------------------------------------
(* Whose the request is.                                                   *)
RequestInv ==
  /\ chnl.Request \in {0, Current}
  /\ \A r \in 1 .. Current : req[r].done \in 0 .. 1
  /\ chnl.Request # 0 => req[Current].done = 0
  /\ Claiming \/ SettingUp => chnl.Request = 0 /\ Current > 0 /\ req[Current].done = 0
  /\ Working => chnl.Request = Current /\ Current > 0 /\ chnl.Cancel = 0
  /\ Claiming \/ SettingUp \/ Working => ~req[Current].cancelled /\ req[Current].mark = "no"
  /\ ~Resting("cancel") =>
       Current > 0 /\ req[Current].mark = "cancelling" /\ req[Current].done = 0
  /\ At("cancel", "cancel_cancels") => chnl.Request = 0 /\ chnl.ActiveCount = 0
  /\ At("timer", "timer_cancels") =>
       /\ chnl.Request = 0 /\ chnl.ActiveCount = 0
       /\ Current > 0 /\ local.request = Current
       /\ req[Current].mark = "cancelling" \/ req[Current].done = 0

IsCancelling == Current > 0 /\ req[Current].mark = "cancelling"

InUseInv ==
  /\ chnl.Request # 0 => \/ chnl.InUse = 1 \/ IsCancelling
                           \/ At("dpc", "complete") \/ At("ioctl", "reset_request")
  /\ At("dpc", "complete") => chnl.InUse = 0
  /\ chnl.Request = 0 /\ chnl.InUse = 1 =>
       \/ chnl.Cancel = 1 \/ SettingUp \/ ~Resting("cancel") \/ At("timer", "timer_cancels")
  /\ IsCancelling /\ chnl.InUse = 1 => chnl.Cancel = 1 \/ ~Resting("cancel")
  /\ SettingUp \/ Working => chnl.InUse = 1
  /\ stack["ioctl"] \in Resets => chnl.InUse = 0

WinInv == WinTypes /\ ControlInv /\ LengthInv /\ RequestInv /\ InUseInv /\ ActiveCounted

-----------------------------------------------------------------------------
(* Stacks.                                                                 *)
RestOf(s) == IF Len(Head(s)) = 1 THEN Tail(s) ELSE <<Tail(Head(s))>> \o Tail(s)

\* A set of functions of which what is left after a step is one, or nothing.
Closed(F) ==
  \A f \in F : f \in Seq(Steps) /\ f # << >> /\ (Len(f) > 1 => Tail(f) \in F)

\* A sequence with one more element in front.
LEMMA Push ==
  ASSUME NEW S, NEW s \in Seq(S), NEW f
  PROVE  /\ <<f>> \o s \in Seq(S \cup {f}) /\ <<f>> \o s # << >> /\ Head(<<f>> \o s) = f
         /\ Len(<<f>> \o s) = Len(s) + 1 /\ Len(s) \in Nat
         /\ (<<f>> \o s)[1] = f /\ \A k \in 1 .. Len(s) : (<<f>> \o s)[k + 1] = s[k]
<1>1. <<f>> \in Seq(S \cup {f}) /\ Len(<<f>>) = 1 /\ <<f>>[1] = f
  OBVIOUS
<1>2. s \in Seq(S \cup {f}) /\ Len(s) \in Nat
  OBVIOUS
<1>3. /\ <<f>> \o s \in Seq(S \cup {f}) /\ Len(<<f>> \o s) = Len(<<f>>) + Len(s)
      /\ \A k \in 1 .. Len(<<f>>) + Len(s) :
           (<<f>> \o s)[k] = IF k <= Len(<<f>>) THEN <<f>>[k] ELSE s[k - Len(<<f>>)]
  BY <1>1, <1>2, ConcatProperties, Zenon
<1>4. (<<f>> \o s)[1] = f
  BY <1>1, <1>2, <1>3
<1>5. \A k \in 1 .. Len(s) : (<<f>> \o s)[k + 1] = s[k]
  BY <1>1, <1>2, <1>3
<1>6. <<f>> \o s # << >> /\ Head(<<f>> \o s) = f
  BY <1>1, <1>2, <1>3, <1>4
<1>7. QED BY <1>1, <1>2, <1>3, <1>4, <1>5, <1>6

\* A sequence without its first element.
LEMMA Pop ==
  ASSUME NEW S, NEW s \in Seq(S), s # << >>
  PROVE  /\ Tail(s) \in Seq(S) /\ Len(Tail(s)) = Len(s) - 1 /\ Len(s) \in Nat /\ Len(s) > 0
         /\ Head(s) = s[1] /\ Head(s) \in S
         /\ \A k \in 1 .. Len(s) - 1 : Tail(s)[k] = s[k + 1]
  OBVIOUS

\* What is left after a step is a tower again, of which the completion is no part.
LEMMA TowerRest ==
  ASSUME NEW helpers, NEW bases, NEW s, Tower(s, helpers, bases), s # << >>,
         Closed(helpers), Closed(bases),
         \A f \in helpers \cup bases : Len(f) > 1 => Tail(f) # <<"complete">>
  PROVE  /\ Tower(RestOf(s), helpers, bases)
         /\ \A k \in 1 .. Len(RestOf(s)) : RestOf(s)[k] # <<"complete">>
<1> DEFINE F == helpers \cup bases
           f == Head(s)
           l == Len(s)
<1>1. s \in Seq(F)
  BY DEF Tower
<1>2. /\ Tail(s) \in Seq(F) /\ Len(Tail(s)) = l - 1 /\ l \in Nat /\ l > 0
      /\ f = s[1] /\ f \in F /\ \A k \in 1 .. l - 1 : Tail(s)[k] = s[k + 1]
  BY <1>1, Pop
<1>3. \A k \in 1 .. l : /\ k < l => s[k] \in helpers
                        /\ k = l => s[k] \in bases
                        /\ k > 1 => s[k] # <<"complete">>
  BY DEF Tower
<1>4. CASE Len(f) = 1
  <2>1. RestOf(s) = Tail(s)
    BY <1>4 DEF RestOf
  <2>2. \A k \in 1 .. l - 1 : /\ k < l - 1 => Tail(s)[k] \in helpers
                              /\ k = l - 1 => Tail(s)[k] \in bases
                              /\ Tail(s)[k] # <<"complete">>
    <3> HIDE DEF l
    <3> TAKE k \in 1 .. l - 1
    <3>1. k + 1 \in 1 .. l /\ k + 1 > 1 /\ (k < l - 1 => k + 1 < l) /\ (k = l - 1 => k + 1 = l)
      BY <1>2
    <3>2. Tail(s)[k] = s[k + 1]
      BY <1>2
    <3>3. QED BY <1>3, <3>1, <3>2
  <2>3. QED BY <1>2, <2>1, <2>2 DEF Tower
<1>5. CASE Len(f) # 1
  <2> DEFINE g == Tail(f)
  <2>1. Len(f) > 1
    <3>1. f \in Seq(Steps) /\ f # << >>
      BY <1>2 DEF Closed
    <3> HIDE DEF f
    <3>2. Len(f) \in Nat /\ Len(f) > 0
      BY <3>1
    <3> DEFINE n == Len(f)
    <3>3. n \in Nat /\ n > 0 /\ n # 1
      BY <1>5, <3>2
    <3> HIDE DEF n
    <3>4. n > 1
      BY <3>3
    <3>5. QED BY <3>4 DEF n
  <2>2. (f \in helpers => g \in helpers) /\ (f \in bases => g \in bases) /\ g # <<"complete">>
    BY <1>2, <2>1 DEF Closed
  <2>3. RestOf(s) = <<g>> \o Tail(s)
    BY <1>5 DEF RestOf
  <2>4. /\ <<g>> \o Tail(s) \in Seq(F \cup {g}) /\ Len(<<g>> \o Tail(s)) = l
        /\ (<<g>> \o Tail(s))[1] = g
        /\ \A k \in 1 .. l - 1 : (<<g>> \o Tail(s))[k + 1] = s[k + 1]
    BY <1>2, Push
  <2>5. g \in F /\ F \cup {g} = F
    BY <1>2, <2>2
  <2> HIDE DEF g, f, l
  <2>6. ASSUME NEW k \in 1 .. l
        PROVE  /\ k < l => (<<g>> \o Tail(s))[k] \in helpers
               /\ k = l => (<<g>> \o Tail(s))[k] \in bases
               /\ (<<g>> \o Tail(s))[k] # <<"complete">>
    <3>1. CASE k = 1
      BY <1>2, <1>3, <2>2, <2>4, <3>1
    <3>2. CASE k # 1
      <4>1. k - 1 \in 1 .. l - 1 /\ (k - 1) + 1 = k
        BY <1>2, <3>2
      <4>2. (<<g>> \o Tail(s))[k] = s[k]
        BY <2>4, <4>1
      <4>3. k > 1
        BY <4>1
      <4>4. QED BY <1>3, <4>2, <4>3
    <3>3. QED BY <3>1, <3>2
  <2>7. QED BY <2>3, <2>4, <2>5, <2>6 DEF Tower
<1>6. QED BY <1>4, <1>5

\* A call puts a helper in front of what is left, unless a request is being completed.
LEMMA TowerPush ==
  ASSUME NEW helpers, NEW bases, NEW s, Tower(s, helpers, bases), NEW f \in helpers,
         s # << >> \/ f \in bases, \A k \in 1 .. Len(s) : s[k] # <<"complete">>
  PROVE  /\ Tower(<<f>> \o s, helpers, bases) /\ Head(<<f>> \o s) = f /\ <<f>> \o s # << >>
<1> DEFINE F == helpers \cup bases
           p == <<f>> \o s
           l == Len(s)
<1>1. s \in Seq(F) /\ F \cup {f} = F
  BY DEF Tower
<1>2. /\ p \in Seq(F) /\ Head(p) = f /\ p # << >> /\ Len(p) = l + 1 /\ p[1] = f /\ l \in Nat
      /\ \A k \in 1 .. l : p[k + 1] = s[k]
  BY <1>1, Push
<1>3. s # << >> => l > 0
  BY <1>1
<1>4. \A k \in 1 .. l : /\ k < l => s[k] \in helpers
                        /\ k = l => s[k] \in bases
  BY DEF Tower
<1> HIDE DEF p, l
<1>5. ASSUME NEW k \in 1 .. l + 1
      PROVE  /\ k < l + 1 => p[k] \in helpers
             /\ k = l + 1 => p[k] \in bases
             /\ k > 1 => p[k] # <<"complete">>
  <2>1. CASE k = 1
    BY <1>2, <1>3, <2>1
  <2>2. CASE k # 1
    <3>1. k - 1 \in 1 .. l /\ (k - 1) + 1 = k
      BY <1>2, <2>2
    <3>2. p[k] = s[k - 1] /\ s[k - 1] # <<"complete">>
      BY <1>2, <3>1 DEF l
    <3>3. QED BY <1>2, <1>4, <3>1, <3>2
  <2>3. QED BY <2>1, <2>2
<1>6. QED BY <1>2, <1>5 DEF Tower, p

\* Without its innermost function a tower is a tower still.
LEMMA TowerPop ==
  ASSUME NEW helpers, NEW bases, NEW s, Tower(s, helpers, bases), s # << >>
  PROVE  /\ Tower(Tail(s), helpers, bases)
         /\ \A k \in 1 .. Len(Tail(s)) : Tail(s)[k] # <<"complete">>
<1> DEFINE F == helpers \cup bases
           l == Len(s)
<1>1. s \in Seq(F)
  BY DEF Tower
<1>2. /\ Tail(s) \in Seq(F) /\ Len(Tail(s)) = l - 1 /\ l \in Nat /\ l > 0
      /\ \A k \in 1 .. l - 1 : Tail(s)[k] = s[k + 1]
  BY <1>1, Pop
<1>3. \A k \in 1 .. l : /\ k < l => s[k] \in helpers
                        /\ k = l => s[k] \in bases
                        /\ k > 1 => s[k] # <<"complete">>
  BY DEF Tower
<1> HIDE DEF l
<1>4. ASSUME NEW k \in 1 .. l - 1
      PROVE  /\ k < l - 1 => Tail(s)[k] \in helpers
             /\ k = l - 1 => Tail(s)[k] \in bases
             /\ Tail(s)[k] # <<"complete">>
  <2>1. k + 1 \in 1 .. l /\ k + 1 > 1 /\ (k < l - 1 => k + 1 < l) /\ (k = l - 1 => k + 1 = l)
    BY <1>2
  <2>2. Tail(s)[k] = s[k + 1]
    BY <1>2
  <2>3. QED BY <1>3, <2>1, <2>2
<1>5. QED BY <1>2, <1>4 DEF Tower

-----------------------------------------------------------------------------
(* How many functions a stack has between enter and exit.                  *)
InsideOf(s) == { k \in DOMAIN s : IsInside(s[k]) }
Count(s) == Cardinality(InsideOf(s))
One(f) == IF IsInside(f) THEN 1 ELSE 0

\* A function in front is counted exactly if it is between enter and exit.
LEMMA CountPush ==
  ASSUME NEW S, NEW s \in Seq(S), NEW f
  PROVE  Count(s) \in Nat /\ Count(<<f>> \o s) = One(f) + Count(s)
<1> DEFINE p == <<f>> \o s
           l == Len(s)
           A == InsideOf(s)
           B == { k + 1 : k \in A }
<1>1. /\ p \in Seq(S \cup {f}) /\ Len(p) = l + 1 /\ p[1] = f /\ l \in Nat
      /\ \A k \in 1 .. l : p[k + 1] = s[k]
  BY Push
<1>2. DOMAIN s = 1 .. l /\ DOMAIN p = 1 .. l + 1
  BY <1>1
<1>3. A \subseteq 1 .. l /\ IsFiniteSet(1 .. l)
  BY <1>2, <1>1, FS_Interval DEF InsideOf
<1>4. IsFiniteSet(A) /\ Cardinality(A) \in Nat
  BY <1>3, FS_Subset, FS_CardinalityType
<1> HIDE DEF A
<1>5. IsFiniteSet(B) /\ Cardinality(B) = Cardinality(A)
  <2> DEFINE h == [k \in A |-> k + 1]
  <2>1. \A a, b \in A : a + 1 = b + 1 => a = b
    BY <1>3
  <2>2. h \in Bijection(A, B)
    <3>1. h \in [A -> B]
      OBVIOUS
    <3>2. \A a, b \in A : h[a] = h[b] => a = b
      BY <2>1
    <3>3. \A b \in B : \E a \in A : h[a] = b
      OBVIOUS
    <3> HIDE DEF h, B
    <3>4. QED BY <3>1, <3>2, <3>3, Fun_IsBij
  <2>3. ExistsBijection(A, B)
    BY <2>2 DEF ExistsBijection
  <2>4. QED BY <1>4, <2>3, FS_Bijection
<1>6. InsideOf(p) = IF IsInside(f) THEN B \cup {1} ELSE B
  <2>1. \A k \in 1 .. l + 1 : k = 1 \/ (k - 1 \in 1 .. l /\ (k - 1) + 1 = k)
    BY <1>1
  <2>2. \A k \in 1 .. l : k \in A <=> IsInside(s[k])
    BY <1>2 DEF A, InsideOf
  <2> HIDE DEF p
  <2>3. ASSUME NEW k \in InsideOf(p) PROVE k \in IF IsInside(f) THEN B \cup {1} ELSE B
    <3>1. k \in 1 .. l + 1 /\ IsInside(p[k])
      BY <1>2 DEF InsideOf
    <3>2. CASE k = 1
      BY <1>1, <3>1, <3>2
    <3>3. CASE k # 1
      <4>1. k - 1 \in 1 .. l /\ (k - 1) + 1 = k
        BY <2>1, <3>1, <3>3
      <4>2. k - 1 \in A
        BY <1>1, <2>2, <3>1, <4>1
      <4>3. QED BY <4>1, <4>2
    <3>4. QED BY <3>2, <3>3
  <2>4. ASSUME NEW k \in B PROVE k \in InsideOf(p)
    <3>1. PICK a \in A : k = a + 1
      OBVIOUS
    <3>2. a \in 1 .. l /\ a + 1 \in 1 .. l + 1
      BY <1>1, <1>3, <3>1
    <3>3. IsInside(p[k])
      BY <1>1, <2>2, <3>1, <3>2
    <3>4. QED BY <1>2, <3>1, <3>2, <3>3 DEF InsideOf
  <2>5. IsInside(f) => 1 \in InsideOf(p)
    BY <1>1, <1>2 DEF InsideOf
  <2>6. QED BY <2>3, <2>4, <2>5
<1>7. 1 \notin B
  <2>1. \A k \in A : k + 1 # 1
    BY <1>3
  <2>2. QED BY <2>1
<1> HIDE DEF B
<1>8. Cardinality(B \cup {1}) = Cardinality(B) + 1
  BY <1>5, <1>7, FS_AddElement
<1>9. CASE IsInside(f)
  <2>1. InsideOf(p) = B \cup {1} /\ One(f) = 1
    BY <1>6, <1>9 DEF One
  <2>2. Count(p) = Cardinality(A) + 1 /\ Count(s) = Cardinality(A)
    BY <1>5, <1>8, <2>1 DEF Count, A
  <2>3. QED BY <1>4, <2>1, <2>2
<1>10. CASE ~IsInside(f)
  <2>1. InsideOf(p) = B /\ One(f) = 0
    BY <1>6, <1>10 DEF One
  <2>2. QED BY <1>4, <1>5, <2>1 DEF Count, A
<1>11. QED BY <1>9, <1>10

-----------------------------------------------------------------------------
(* The functions, step by step.                                            *)

\* The names of the steps.
LEMMA StepNames ==
  /\ "stop_timer" \in Steps /\ "enter" \in Steps /\ "program" \in Steps /\ "exit" \in Steps
  /\ "start_timer" \in Steps /\ "start_recv" \in Steps /\ "release" \in Steps
  /\ "complete_or_repeat" \in Steps /\ "reqd_done" \in Steps /\ "dma_completed" \in Steps
  /\ "program_dma" \in Steps /\ "not_complete" \in Steps /\ "complete" \in Steps
  /\ "execute" \in Steps /\ "mark" \in Steps /\ "ready" \in Steps /\ "sg_read" \in Steps
  /\ "done" \in Steps /\ "new_txn" \in Steps /\ "claim" \in Steps
  /\ "set_up_send" \in Steps /\ "set_up_recv" \in Steps /\ "reset_fpga" \in Steps
  /\ "reset_channel" \in Steps /\ "reset_request" \in Steps
  /\ "reset_interrupt_data" \in Steps
  BY DEF Steps

\* Tuples of one to five: their length, head and tail.
LEMMA Tuple1 ==
  ASSUME NEW S, NEW a \in S
  PROVE  /\ <<a>> \in Seq(S) /\ Len(<<a>>) = 1 /\ Head(<<a>>) = a /\ <<a>> # << >>
         /\ Tail(<<a>>) = << >>
  OBVIOUS

LEMMA Tuple2 ==
  ASSUME NEW S, NEW a \in S, NEW b \in S
  PROVE  /\ <<a, b>> \in Seq(S) /\ Len(<<a, b>>) = 2 /\ Head(<<a, b>>) = a
         /\ Tail(<<a, b>>) = <<b>> /\ <<a, b>> # << >>
  OBVIOUS

LEMMA Tuple3 ==
  ASSUME NEW S, NEW a \in S, NEW b \in S, NEW c \in S
  PROVE  /\ <<a, b, c>> \in Seq(S) /\ Len(<<a, b, c>>) = 3 /\ Head(<<a, b, c>>) = a
         /\ Tail(<<a, b, c>>) = <<b, c>> /\ <<a, b, c>> # << >>
  OBVIOUS

LEMMA Tuple4 ==
  ASSUME NEW S, NEW a \in S, NEW b \in S, NEW c \in S, NEW d \in S
  PROVE  /\ <<a, b, c, d>> \in Seq(S) /\ Len(<<a, b, c, d>>) = 4
         /\ Head(<<a, b, c, d>>) = a /\ Tail(<<a, b, c, d>>) = <<b, c, d>>
         /\ <<a, b, c, d>> # << >>
  OBVIOUS

LEMMA Tuple5 ==
  ASSUME NEW S, NEW a \in S, NEW b \in S, NEW c \in S, NEW d \in S, NEW e \in S
  PROVE  /\ <<a, b, c, d, e>> \in Seq(S) /\ Len(<<a, b, c, d, e>>) = 5
         /\ Head(<<a, b, c, d, e>>) = a /\ Tail(<<a, b, c, d, e>>) = <<b, c, d, e>>
         /\ <<a, b, c, d, e>> # << >>
  OBVIOUS

\* Sets of functions closed under a step, put together.
LEMMA ClosedUnion ==
  ASSUME NEW F, NEW G, Closed(F), Closed(G)
  PROVE  Closed(F \cup G)
  BY DEF Closed

\* The sets LeftN are closed under a step.
LEMMA Closed1 ==
  ASSUME NEW a \in Steps
  PROVE  Closed(Left1(a))
<1> SUFFICES ASSUME NEW f \in Left1(a)
             PROVE  f \in Seq(Steps) /\ f # << >> /\ (Len(f) > 1 => Tail(f) \in Left1(a))
  BY DEF Closed
<1>1. f = <<a>>
  BY DEF Left1
<1>2. QED BY <1>1, Tuple1

LEMMA Closed2 ==
  ASSUME NEW a \in Steps, NEW b \in Steps
  PROVE  Closed(Left2(a, b))
<1> SUFFICES ASSUME NEW f \in Left2(a, b)
             PROVE  f \in Seq(Steps) /\ f # << >> /\ (Len(f) > 1 => Tail(f) \in Left2(a, b))
  BY DEF Closed
<1>1. CASE f = <<a, b>>
  BY <1>1, Tuple2 DEF Left2
<1>2. CASE f = <<b>>
  BY <1>2, Tuple1
<1>3. QED BY <1>1, <1>2 DEF Left2

LEMMA Closed4 ==
  ASSUME NEW a \in Steps, NEW b \in Steps, NEW c \in Steps, NEW d \in Steps
  PROVE  Closed(Left4(a, b, c, d))
<1> SUFFICES ASSUME NEW f \in Left4(a, b, c, d)
             PROVE  /\ f \in Seq(Steps) /\ f # << >>
                    /\ Len(f) > 1 => Tail(f) \in Left4(a, b, c, d)
  BY DEF Closed
<1>1. CASE f = <<a, b, c, d>>
  BY <1>1, Tuple4 DEF Left4
<1>2. CASE f = <<b, c, d>>
  BY <1>2, Tuple3 DEF Left4
<1>3. CASE f = <<c, d>>
  BY <1>3, Tuple2 DEF Left4
<1>4. CASE f = <<d>>
  BY <1>4, Tuple1
<1>5. QED BY <1>1, <1>2, <1>3, <1>4 DEF Left4

LEMMA Closed5 ==
  ASSUME NEW a \in Steps, NEW b \in Steps, NEW c \in Steps, NEW d \in Steps, NEW e \in Steps
  PROVE  Closed(Left5(a, b, c, d, e))
<1> SUFFICES ASSUME NEW f \in Left5(a, b, c, d, e)
             PROVE  /\ f \in Seq(Steps) /\ f # << >>
                    /\ Len(f) > 1 => Tail(f) \in Left5(a, b, c, d, e)
  BY DEF Closed
<1>1. CASE f = <<a, b, c, d, e>>
  BY <1>1, Tuple5 DEF Left5
<1>2. CASE f = <<b, c, d, e>>
  BY <1>2, Tuple4 DEF Left5
<1>3. CASE f = <<c, d, e>>
  BY <1>3, Tuple3 DEF Left5
<1>4. CASE f = <<d, e>>
  BY <1>4, Tuple2 DEF Left5
<1>5. CASE f = <<e>>
  BY <1>5, Tuple1
<1>6. QED BY <1>1, <1>2, <1>3, <1>4, <1>5 DEF Left5

\* So are the helpers and the functions the threads begin with.
LEMMA ClosedSets ==
  /\ Closed(IoctlHelpers) /\ Closed(Works)
  /\ Closed(DpcHelpers) /\ Closed(DpcEvents)
<1>1. Closed(Adding) /\ Closed(Starting) /\ Closed(Ending)
  BY StepNames, Closed4, Closed5 DEF Adding, Starting, Ending
<1>2. /\ Closed(Left1("program_dma")) /\ Closed(Left1("execute")) /\ Closed(Left1("complete"))
      /\ Closed(Left1("start_recv"))
  BY StepNames, Closed1
<1>3. Closed(Mapping)
  BY <1>2, ClosedUnion DEF Mapping
<1>4. Closed(IoctlHelpers)
  <2>1. Closed(Adding \cup Mapping)
    BY <1>1, <1>3, ClosedUnion
  <2>2. QED BY <1>2, <2>1, ClosedUnion DEF IoctlHelpers
<1>5. Closed(Works)
  <2>1. Closed(Left2("execute", "mark")) /\ Closed(Left2("ready", "mark"))
    BY StepNames, Closed2
  <2>2. QED BY <2>1, ClosedUnion DEF Works
<1>6. Closed(DpcHelpers)
  <2> DEFINE A == Adding \cup Mapping
             B == A \cup Starting
             C == B \cup Ending
             D == C \cup Left1("complete")
             E == D \cup Left2("reqd_done", "dma_completed")
  <2>1. Closed(A)
    BY <1>1, <1>3, ClosedUnion
  <2>2. Closed(B)
    BY <1>1, <2>1, ClosedUnion
  <2>3. Closed(C)
    BY <1>1, <2>2, ClosedUnion
  <2>4. Closed(D)
    BY <1>2, <2>3, ClosedUnion
  <2>5. Closed(Left2("reqd_done", "dma_completed")) /\ Closed(Left2("program_dma", "not_complete"))
    BY StepNames, Closed2
  <2>6. Closed(E)
    BY <2>4, <2>5, ClosedUnion
  <2>7. QED BY <2>5, <2>6, ClosedUnion DEF DpcHelpers
<1>7. Closed(DpcEvents)
  <2> DEFINE A == { <<"sg_read", "done", "new_txn">>, <<"done", "new_txn">>, <<"new_txn">> }
  <2>1. Closed(A)
    <3> SUFFICES ASSUME NEW f \in A
                 PROVE  f \in Seq(Steps) /\ f # << >> /\ (Len(f) > 1 => Tail(f) \in A)
      BY DEF Closed
    <3>1. CASE f = <<"sg_read", "done", "new_txn">>
      BY <3>1, Tuple3, StepNames
    <3>2. CASE f = <<"done", "new_txn">>
      BY <3>2, Tuple2, StepNames
    <3>3. CASE f = <<"new_txn">>
      BY <3>3, Tuple1, StepNames
    <3>4. QED BY <3>1, <3>2, <3>3
  <2>2. Closed(Left2("sg_read", "new_txn")) /\ Closed(Left2("sg_read", "done"))
    BY StepNames, Closed2
  <2> HIDE DEF A
  <2>3. Closed(A \cup Left2("sg_read", "new_txn"))
    BY <2>1, <2>2, ClosedUnion
  <2>4. Closed((A \cup Left2("sg_read", "new_txn")) \cup Left2("sg_read", "done"))
    BY <2>2, <2>3, ClosedUnion
  <2>5. Closed(Left1("sg_read"))
    BY StepNames, Closed1
  <2>6. QED BY <2>4, <2>5, ClosedUnion DEF DpcEvents, A
<1>8. QED BY <1>4, <1>5, <1>6, <1>7

\* The next step of a member of LeftN, and what is left after it.
LEMMA Heads1 ==
  ASSUME NEW a \in Steps, NEW f \in Left1(a)
  PROVE  Head(f) = a /\ Tail(f) = << >> /\ f = <<a>>
  BY Tuple1 DEF Left1

LEMMA Heads2 ==
  ASSUME NEW a, NEW b, {a, b} \subseteq Steps, NEW f \in Left2(a, b)
  PROVE  \/ Head(f) = a /\ Tail(f) = <<b>>
         \/ Head(f) = b /\ Tail(f) = << >> /\ f = <<b>>
<1>1. CASE f = <<a, b>>
  BY <1>1, Tuple2
<1>2. CASE f = <<b>>
  BY <1>2, Tuple1
<1>3. QED BY <1>1, <1>2 DEF Left2

LEMMA Heads4 ==
  ASSUME NEW a, NEW b, NEW c, NEW d, {a, b, c, d} \subseteq Steps,
         NEW f \in Left4(a, b, c, d)
  PROVE  \/ Head(f) = a /\ Tail(f) = <<b, c, d>>
         \/ Head(f) = b /\ Tail(f) = <<c, d>>
         \/ Head(f) = c /\ Tail(f) = <<d>>
         \/ Head(f) = d /\ Tail(f) = << >>
<1>1. CASE f = <<a, b, c, d>>
  BY <1>1, Tuple4
<1>2. CASE f = <<b, c, d>>
  BY <1>2, Tuple3
<1>3. CASE f = <<c, d>>
  BY <1>3, Tuple2
<1>4. CASE f = <<d>>
  BY <1>4, Tuple1
<1>5. QED BY <1>1, <1>2, <1>3, <1>4 DEF Left4

LEMMA Heads5 ==
  ASSUME NEW a, NEW b, NEW c, NEW d, NEW e, {a, b, c, d, e} \subseteq Steps,
         NEW f \in Left5(a, b, c, d, e)
  PROVE  \/ Head(f) = a /\ Tail(f) = <<b, c, d, e>>
         \/ Head(f) = b /\ Tail(f) = <<c, d, e>>
         \/ Head(f) = c /\ Tail(f) = <<d, e>>
         \/ Head(f) = d /\ Tail(f) = <<e>>
         \/ Head(f) = e /\ Tail(f) = << >>
<1>1. CASE f = <<a, b, c, d, e>>
  BY <1>1, Tuple5
<1>2. CASE f = <<b, c, d, e>>
  BY <1>2, Tuple4
<1>3. CASE f = <<c, d, e>>
  BY <1>3, Tuple3
<1>4. CASE f = <<d, e>>
  BY <1>4, Tuple2
<1>5. CASE f = <<e>>
  BY <1>5, Tuple1
<1>6. QED BY <1>1, <1>2, <1>3, <1>4, <1>5 DEF Left5

\* No step is left in an empty function.
LEMMA HasNothing ==
  ASSUME NEW x
  PROVE  ~Has(<< >>, x)
  BY DEF Has

\* A step is left if it is the next one or left after the next one.
LEMMA HasFirst ==
  ASSUME NEW S, NEW f \in Seq(S), f # << >>, NEW x
  PROVE  Has(f, x) <=> Head(f) = x \/ Has(Tail(f), x)
<1> DEFINE l == Len(f)
<1>1. /\ Tail(f) \in Seq(S) /\ Len(Tail(f)) = l - 1 /\ l \in Nat /\ l > 0
      /\ Head(f) = f[1] /\ \A k \in 1 .. l - 1 : Tail(f)[k] = f[k + 1]
  BY Pop
<1>2. DOMAIN f = 1 .. l /\ DOMAIN Tail(f) = 1 .. l - 1
  BY <1>1
<1> HIDE DEF l
<1>3. ASSUME NEW k \in 1 .. l, f[k] = x PROVE Head(f) = x \/ Has(Tail(f), x)
  <2>1. CASE k = 1
    BY <1>1, <1>3, <2>1
  <2>2. CASE k # 1
    <3>1. k - 1 \in 1 .. l - 1 /\ (k - 1) + 1 = k
      BY <1>1, <2>2
    <3>2. Tail(f)[k - 1] = x
      BY <1>1, <1>3, <3>1
    <3>3. QED BY <1>2, <3>1, <3>2 DEF Has
  <2>3. QED BY <2>1, <2>2
<1>4. ASSUME NEW k \in 1 .. l - 1, Tail(f)[k] = x PROVE Has(f, x)
  <2>1. k + 1 \in 1 .. l /\ f[k + 1] = x
    BY <1>1, <1>4
  <2>2. QED BY <1>2, <2>1 DEF Has
<1>5. Head(f) = x => Has(f, x)
  BY <1>1, <1>2 DEF Has
<1>6. QED BY <1>2, <1>3, <1>4, <1>5 DEF Has

\* Short sequences put together, as the deferred procedure call puts its list of events.
LEMMA Joined ==
  ASSUME NEW S, NEW a \in S, NEW b \in S
  PROVE  <<a>> \o <<b>> = <<a, b>>
<1> DEFINE p == <<a>> \o <<b>>
<1>1. /\ <<a>> \in Seq(S) /\ <<b>> \in Seq(S) /\ <<a, b>> \in Seq(S)
      /\ Len(<<a>>) = 1 /\ Len(<<b>>) = 1 /\ Len(<<a, b>>) = 2
      /\ <<a>>[1] = a /\ <<b>>[1] = b /\ <<a, b>>[1] = a /\ <<a, b>>[2] = b
  OBVIOUS
<1>2. /\ p \in Seq(S) /\ Len(p) = Len(<<a>>) + Len(<<b>>)
      /\ \A i \in 1 .. Len(<<a>>) + Len(<<b>>) :
           p[i] = IF i <= Len(<<a>>) THEN <<a>>[i] ELSE <<b>>[i - Len(<<a>>)]
  BY <1>1, ConcatProperties, Zenon
<1>3. p[1] = a /\ p[2] = b /\ Len(p) = 2
  BY <1>1, <1>2
<1> HIDE DEF p
<1>4. \A i \in 1 .. Len(p) : p[i] = <<a, b>>[i]
  BY <1>1, <1>3
<1>5. p = <<a, b>>
  BY <1>1, <1>2, <1>3, <1>4, SeqEqual
<1>6. QED BY <1>5 DEF p

LEMMA JoinedTwoAndOne ==
  ASSUME NEW S, NEW a \in S, NEW b \in S, NEW c \in S
  PROVE  <<a, b>> \o <<c>> = <<a, b, c>>
<1> DEFINE p == <<a, b>> \o <<c>>
<1>1. /\ <<a, b>> \in Seq(S) /\ <<c>> \in Seq(S) /\ <<a, b, c>> \in Seq(S)
      /\ Len(<<a, b>>) = 2 /\ Len(<<c>>) = 1 /\ Len(<<a, b, c>>) = 3
      /\ <<a, b>>[1] = a /\ <<a, b>>[2] = b /\ <<c>>[1] = c
      /\ <<a, b, c>>[1] = a /\ <<a, b, c>>[2] = b /\ <<a, b, c>>[3] = c
  OBVIOUS
<1>2. /\ p \in Seq(S) /\ Len(p) = Len(<<a, b>>) + Len(<<c>>)
      /\ \A i \in 1 .. Len(<<a, b>>) + Len(<<c>>) :
           p[i] = IF i <= Len(<<a, b>>) THEN <<a, b>>[i] ELSE <<c>>[i - Len(<<a, b>>)]
  BY <1>1, ConcatProperties, Zenon
<1>3. p[1] = a /\ p[2] = b /\ p[3] = c /\ Len(p) = 3
  BY <1>1, <1>2
<1> HIDE DEF p
<1>4. \A i \in 1 .. Len(p) : p[i] = <<a, b, c>>[i]
  BY <1>1, <1>3
<1>5. p = <<a, b, c>>
  BY <1>1, <1>2, <1>3, <1>4, SeqEqual
<1>6. QED BY <1>5 DEF p

LEMMA JoinedWithNone ==
  ASSUME NEW a \in Steps, NEW b \in Steps
  PROVE  /\ << >> \o <<a>> = <<a>> /\ <<a>> \o << >> = <<a>> /\ << >> \o << >> = << >>
         /\ <<a, b>> \o << >> = <<a, b>>
  BY ConcatEmptySeq

\* The steps left in tuples of one to five.
LEMMA Has1 ==
  ASSUME NEW a \in Steps, NEW x
  PROVE  Has(<<a>>, x) <=> x = a
<1>1. Has(<<a>>, x) <=> Head(<<a>>) = x \/ Has(Tail(<<a>>), x)
  BY Tuple1, HasFirst
<1>2. QED BY <1>1, Tuple1, HasNothing

LEMMA Has2 ==
  ASSUME NEW a, NEW b, {a, b} \subseteq Steps, NEW x
  PROVE  Has(<<a, b>>, x) <=> x \in {a, b}
<1>1. Has(<<a, b>>, x) <=> Head(<<a, b>>) = x \/ Has(Tail(<<a, b>>), x)
  <2>1. <<a, b>> \in Seq(Steps) /\ <<a, b>> # << >>
    BY Tuple2
  <2>2. QED BY <2>1, HasFirst
<1>2. Head(<<a, b>>) = a /\ Tail(<<a, b>>) = <<b>>
  BY Tuple2
<1>3. QED BY <1>1, <1>2, Has1

LEMMA Has3 ==
  ASSUME NEW a, NEW b, NEW c, {a, b, c} \subseteq Steps, NEW x
  PROVE  Has(<<a, b, c>>, x) <=> x \in {a, b, c}
<1>1. Has(<<a, b, c>>, x) <=> Head(<<a, b, c>>) = x \/ Has(Tail(<<a, b, c>>), x)
  <2>1. <<a, b, c>> \in Seq(Steps) /\ <<a, b, c>> # << >>
    BY Tuple3
  <2>2. QED BY <2>1, HasFirst
<1>2. Head(<<a, b, c>>) = a /\ Tail(<<a, b, c>>) = <<b, c>>
  BY Tuple3
<1>3. QED BY <1>1, <1>2, Has2

LEMMA Has4 ==
  ASSUME NEW a, NEW b, NEW c, NEW d, {a, b, c, d} \subseteq Steps, NEW x
  PROVE  Has(<<a, b, c, d>>, x) <=> x \in {a, b, c, d}
<1>1. Has(<<a, b, c, d>>, x) <=> Head(<<a, b, c, d>>) = x \/ Has(Tail(<<a, b, c, d>>), x)
  <2>1. <<a, b, c, d>> \in Seq(Steps) /\ <<a, b, c, d>> # << >>
    BY Tuple4
  <2>2. QED BY <2>1, HasFirst
<1>2. Head(<<a, b, c, d>>) = a /\ Tail(<<a, b, c, d>>) = <<b, c, d>>
  BY Tuple4
<1>3. QED BY <1>1, <1>2, Has3

LEMMA Has5 ==
  ASSUME NEW a, NEW b, NEW c, NEW d, NEW e, {a, b, c, d, e} \subseteq Steps, NEW x
  PROVE  Has(<<a, b, c, d, e>>, x) <=> x \in {a, b, c, d, e}
<1>1. Has(<<a, b, c, d, e>>, x) <=> Head(<<a, b, c, d, e>>) = x \/ Has(Tail(<<a, b, c, d, e>>), x)
  <2>1. <<a, b, c, d, e>> \in Seq(Steps) /\ <<a, b, c, d, e>> # << >>
    BY Tuple5
  <2>2. QED BY <2>1, HasFirst
<1>2. Head(<<a, b, c, d, e>>) = a /\ Tail(<<a, b, c, d, e>>) = <<b, c, d, e>>
  BY Tuple5
<1>3. QED BY <1>1, <1>2, Has4

\* A function of each kind: what is left after its first step.
LEMMA AddingHeads ==
  ASSUME NEW f \in Adding
  PROVE  \/ Head(f) = "stop_timer" /\ Tail(f) = <<"enter", "program", "exit", "start_timer">>
         \/ Head(f) = "enter" /\ Tail(f) = <<"program", "exit", "start_timer">>
         \/ Head(f) = "program" /\ Tail(f) = <<"exit", "start_timer">>
         \/ Head(f) = "exit" /\ Tail(f) = <<"start_timer">>
         \/ Head(f) = "start_timer" /\ Tail(f) = << >>
<1>1. f \in Left5("stop_timer", "enter", "program", "exit", "start_timer")
  BY DEF Adding
<1>2. {"stop_timer", "enter", "program", "exit", "start_timer"} \subseteq Steps
  BY DEF Steps
<1>3. QED BY <1>1, <1>2, Heads5

LEMMA StartingHeads ==
  ASSUME NEW f \in Starting
  PROVE  \/ Head(f) = "stop_timer" /\ Tail(f) = <<"enter", "start_recv", "exit">>
         \/ Head(f) = "enter" /\ Tail(f) = <<"start_recv", "exit">>
         \/ Head(f) = "start_recv" /\ Tail(f) = <<"exit">>
         \/ Head(f) = "exit" /\ Tail(f) = << >>
<1>1. f \in Left4("stop_timer", "enter", "start_recv", "exit")
  BY DEF Starting
<1>2. {"stop_timer", "enter", "start_recv", "exit"} \subseteq Steps
  BY DEF Steps
<1>3. QED BY <1>1, <1>2, Heads4

LEMMA EndingHeads ==
  ASSUME NEW f \in Ending
  PROVE  \/ Head(f) = "stop_timer" /\ Tail(f) = <<"enter", "release", "complete_or_repeat", "exit">>
         \/ Head(f) = "enter" /\ Tail(f) = <<"release", "complete_or_repeat", "exit">>
         \/ Head(f) = "release" /\ Tail(f) = <<"complete_or_repeat", "exit">>
         \/ Head(f) = "complete_or_repeat" /\ Tail(f) = <<"exit">>
         \/ Head(f) = "exit" /\ Tail(f) = << >>
<1>1. f \in Left5("stop_timer", "enter", "release", "complete_or_repeat", "exit")
  BY DEF Ending
<1>2. {"stop_timer", "enter", "release", "complete_or_repeat", "exit"} \subseteq Steps
  BY DEF Steps
<1>3. QED BY <1>1, <1>2, Heads5

LEMMA OtherHeads ==
  ASSUME NEW f \in Mapping \cup Left1("start_recv") \cup Left1("complete")
                     \cup Left2("reqd_done", "dma_completed")
                     \cup Left2("program_dma", "not_complete") \cup Works
  PROVE  /\ Head(f) \in {"program_dma", "execute", "start_recv", "complete", "reqd_done",
                         "dma_completed", "not_complete", "mark", "ready"}
         /\ Tail(f) \in {<< >>, <<"dma_completed">>, <<"not_complete">>, <<"mark">>}
         /\ Head(f) = "complete" => f = <<"complete">>
         /\ Head(f) = "mark" => f = <<"mark">>
         /\ Head(f) = "ready" => Tail(f) = <<"mark">>
<1>1. CASE f \in Left1("program_dma") \cup Left1("execute")
  BY <1>1, Heads1, StepNames
<1>2. CASE f \in Left1("start_recv") \cup Left1("complete")
  BY <1>2, Heads1, StepNames
<1>3. CASE f \in Left2("reqd_done", "dma_completed")
  <2>1. {"reqd_done", "dma_completed"} \subseteq Steps
    BY DEF Steps
  <2>2. QED BY <1>3, <2>1, Heads2
<1>4. CASE f \in Left2("program_dma", "not_complete")
  <2>1. {"program_dma", "not_complete"} \subseteq Steps
    BY DEF Steps
  <2>2. QED BY <1>4, <2>1, Heads2
<1>5. CASE f \in Left2("execute", "mark")
  <2>1. {"execute", "mark"} \subseteq Steps
    BY DEF Steps
  <2>2. QED BY <1>5, <2>1, Heads2
<1>6. CASE f \in Left2("ready", "mark")
  <2>1. {"ready", "mark"} \subseteq Steps
    BY DEF Steps
  <2>2. QED BY <1>6, <2>1, Heads2
<1>7. QED BY <1>1, <1>2, <1>3, <1>4, <1>5, <1>6 DEF Mapping, Works

\* The deferred procedure call looks at SgRead, Done and NewTxn in this order.
LEMMA EventHeads ==
  ASSUME NEW f \in DpcEvents
  PROVE  /\ Head(f) \in {"sg_read", "done", "new_txn"}
         /\ Tail(f) \in {<< >>, <<"done", "new_txn">>, <<"new_txn">>, <<"done">>}
         /\ Head(f) = "new_txn" => f = <<"new_txn">>
<1>1. CASE f = <<"sg_read", "done", "new_txn">>
  BY <1>1, Tuple3, StepNames
<1>2. CASE f = <<"done", "new_txn">>
  BY <1>2, Tuple2, StepNames
<1>3. CASE f = <<"new_txn">>
  BY <1>3, Tuple1, StepNames
<1>4. CASE f \in Left2("sg_read", "new_txn")
  <2>1. {"sg_read", "new_txn"} \subseteq Steps
    BY DEF Steps
  <2>2. QED BY <1>4, <2>1, Heads2
<1>5. CASE f \in Left2("sg_read", "done")
  <2>1. {"sg_read", "done"} \subseteq Steps
    BY DEF Steps
  <2>2. QED BY <1>5, <2>1, Heads2
<1>6. CASE f \in Left1("sg_read")
  BY <1>6, Heads1, StepNames
<1>7. QED BY <1>1, <1>2, <1>3, <1>4, <1>5, <1>6 DEF DpcEvents

-----------------------------------------------------------------------------
(* Between enter and exit.                                                 *)
Functions == IoctlHelpers \cup Works \cup DpcHelpers \cup DpcEvents

\* The functions a channel's threads run, by their kind.
LEMMA FunctionKinds ==
  ASSUME NEW f \in Functions
  PROVE  \/ f \in Adding \/ f \in Starting \/ f \in Ending \/ f \in DpcEvents
         \/ f \in Mapping \cup Left1("start_recv") \cup Left1("complete")
                     \cup Left2("reqd_done", "dma_completed")
                     \cup Left2("program_dma", "not_complete") \cup Works
  BY DEF Functions, IoctlHelpers, DpcHelpers

\* Functions are sequences of steps, never empty.
LEMMA FunctionType ==
  ASSUME NEW f \in Functions
  PROVE  f \in Seq(Steps) /\ f # << >> /\ Tail(f) \in Seq(Steps)
<1>1. f \in Seq(Steps) /\ f # << >>
  BY ClosedSets DEF Closed, Functions
<1>2. QED BY <1>1

\* A step that is no enter and no exit does not change where a function is.
LEMMA InsideKept ==
  ASSUME NEW f \in Seq(Steps), f # << >>, Head(f) \notin {"enter", "exit"}
  PROVE  One(Tail(f)) = One(f)
<1>1. Has(f, "exit") <=> Has(Tail(f), "exit")
  BY HasFirst
<1>2. Has(f, "enter") <=> Has(Tail(f), "enter")
  BY HasFirst
<1>3. QED BY <1>1, <1>2 DEF One, IsInside

\* RiffaThreadEnter is not inside before, and inside after.
LEMMA Entering ==
  ASSUME NEW f \in Functions, Head(f) = "enter"
  PROVE  One(f) = 0 /\ One(Tail(f)) = 1
<1>1. One(f) = 0
  <2>1. Has(f, "enter")
    BY FunctionType, HasFirst
  <2>2. QED BY <2>1 DEF One, IsInside
<1>2. \/ Tail(f) = <<"program", "exit", "start_timer">>
      \/ Tail(f) = <<"start_recv", "exit">>
      \/ Tail(f) = <<"release", "complete_or_repeat", "exit">>
  <2>1. CASE f \in Adding
    BY <2>1, AddingHeads
  <2>2. CASE f \in Starting
    BY <2>2, StartingHeads
  <2>3. CASE f \in Ending
    BY <2>3, EndingHeads
  <2>4. CASE f \in DpcEvents
    BY <2>4, EventHeads
  <2>5. CASE f \in Mapping \cup Left1("start_recv") \cup Left1("complete")
                     \cup Left2("reqd_done", "dma_completed")
                     \cup Left2("program_dma", "not_complete") \cup Works
    BY <2>5, OtherHeads
  <2>6. QED BY <2>1, <2>2, <2>3, <2>4, <2>5, FunctionKinds
<1>3. Has(Tail(f), "exit") /\ ~Has(Tail(f), "enter")
  <2>1. CASE Tail(f) = <<"program", "exit", "start_timer">>
    <3>1. {"program", "exit", "start_timer"} \subseteq Steps
      BY DEF Steps
    <3>2. \A x : Has(<<"program", "exit", "start_timer">>, x)
                   <=> x \in {"program", "exit", "start_timer"}
      BY <3>1, Has3
    <3>3. QED BY <2>1, <3>2
  <2>2. CASE Tail(f) = <<"start_recv", "exit">>
    <3>1. {"start_recv", "exit"} \subseteq Steps
      BY DEF Steps
    <3>2. \A x : Has(<<"start_recv", "exit">>, x) <=> x \in {"start_recv", "exit"}
      BY <3>1, Has2
    <3>3. QED BY <2>2, <3>2
  <2>3. CASE Tail(f) = <<"release", "complete_or_repeat", "exit">>
    <3>1. {"release", "complete_or_repeat", "exit"} \subseteq Steps
      BY DEF Steps
    <3>2. \A x : Has(<<"release", "complete_or_repeat", "exit">>, x)
                   <=> x \in {"release", "complete_or_repeat", "exit"}
      BY <3>1, Has3
    <3>3. QED BY <2>3, <3>2
  <2>4. QED BY <1>2, <2>1, <2>2, <2>3
<1>4. QED BY <1>1, <1>3 DEF One, IsInside

\* RiffaThreadExit is inside before, and not after.
LEMMA Exiting ==
  ASSUME NEW f \in Functions, Head(f) = "exit"
  PROVE  One(f) = 1 /\ One(Tail(f)) = 0
<1>1. Tail(f) = <<"start_timer">> \/ Tail(f) = << >>
  <2>1. CASE f \in Adding
    BY <2>1, AddingHeads
  <2>2. CASE f \in Starting
    BY <2>2, StartingHeads
  <2>3. CASE f \in Ending
    BY <2>3, EndingHeads
  <2>4. CASE f \in DpcEvents
    BY <2>4, EventHeads
  <2>5. CASE f \in Mapping \cup Left1("start_recv") \cup Left1("complete")
                     \cup Left2("reqd_done", "dma_completed")
                     \cup Left2("program_dma", "not_complete") \cup Works
    BY <2>5, OtherHeads
  <2>6. QED BY <2>1, <2>2, <2>3, <2>4, <2>5, FunctionKinds
<1>2. ~Has(Tail(f), "exit") /\ ~Has(Tail(f), "enter")
  <2>1. CASE Tail(f) = <<"start_timer">>
    <3>1. "start_timer" \in Steps
      BY DEF Steps
    <3>2. \A x : Has(<<"start_timer">>, x) <=> x = "start_timer"
      BY <3>1, Has1
    <3>3. QED BY <2>1, <3>2
  <2>2. CASE Tail(f) = << >>
    BY <2>2, HasNothing
  <2>3. QED BY <1>1, <2>1, <2>2
<1>3. Has(f, "exit") /\ ~Has(f, "enter")
  <2>1. f \in Seq(Steps) /\ f # << >>
    BY FunctionType
  <2>2. /\ Has(f, "exit") <=> Head(f) = "exit" \/ Has(Tail(f), "exit")
        /\ Has(f, "enter") <=> Head(f) = "enter" \/ Has(Tail(f), "enter")
    BY <2>1, HasFirst
  <2>3. QED BY <1>2, <2>2
<1>4. QED BY <1>2, <1>3 DEF One, IsInside

\* The count of what is left of a stack after a step of its innermost function.
LEMMA CountRest ==
  ASSUME NEW s \in Seq(Functions), s # << >>
  PROVE  /\ Count(Tail(s)) \in Nat
         /\ Count(s) = One(Head(s)) + Count(Tail(s))
         /\ Count(RestOf(s)) = One(Tail(Head(s))) + Count(Tail(s))
<1> DEFINE f == Head(s)
<1>1. Tail(s) \in Seq(Functions) /\ f \in Functions /\ s = <<f>> \o Tail(s)
  <2>1. Tail(s) \in Seq(Functions) /\ f \in Functions
    BY Pop
  <2>2. s = <<f>> \o Tail(s)
    OBVIOUS
  <2>3. QED BY <2>1, <2>2
<1>2. f \in Seq(Steps) /\ f # << >>
  BY <1>1, FunctionType
<1> HIDE DEF f
<1>3. Count(Tail(s)) \in Nat /\ Count(<<f>> \o Tail(s)) = One(f) + Count(Tail(s))
  BY <1>1, CountPush
<1>4. Count(<<Tail(f)>> \o Tail(s)) = One(Tail(f)) + Count(Tail(s))
  BY <1>1, CountPush
<1>5. CASE Len(f) = 1
  <2>1. Tail(f) = << >>
    <3>1. Tail(f) \in Seq(Steps) /\ Len(Tail(f)) = 0
      BY <1>2, <1>5
    <3>2. QED BY <3>1, EmptySeq
  <2>2. One(Tail(f)) = 0
    BY <2>1, HasNothing DEF One, IsInside
  <2>3. RestOf(s) = Tail(s)
    BY <1>5 DEF RestOf, f
  <2>4. Count(s) = One(f) + Count(Tail(s))
    BY <1>1, <1>3
  <2>5. QED BY <1>3, <2>2, <2>3, <2>4 DEF f
<1>6. CASE Len(f) # 1
  <2>1. RestOf(s) = <<Tail(f)>> \o Tail(s)
    BY <1>6 DEF RestOf, f
  <2>2. Count(s) = One(f) + Count(Tail(s))
    BY <1>1, <1>3
  <2>3. QED BY <1>3, <1>4, <2>1, <2>2 DEF f
<1>7. QED BY <1>5, <1>6

-----------------------------------------------------------------------------
(* What a step makes of the stack of the deferred procedure call.          *)
DpcTower(s) == Tower(s, DpcHelpers, DpcEvents \cup DpcHelpers)
Completing(s) == s # << >> /\ Head(Head(s)) = "complete"

\* A completion is a function of its own.
LEMMA Completions ==
  ASSUME NEW f \in Functions
  PROVE  /\ Len(f) > 1 => Tail(f) # <<"complete">>
         /\ Head(f) = "complete" => f = <<"complete">>
<1>1. f \in Seq(Steps) /\ f # << >>
  BY FunctionType
<1>3. CASE f \in Adding
  BY <1>3, AddingHeads
<1>4. CASE f \in Starting
  BY <1>4, StartingHeads
<1>5. CASE f \in Ending
  BY <1>5, EndingHeads
<1>6. CASE f \in DpcEvents
  BY <1>6, EventHeads
<1>7. CASE f \in Mapping \cup Left1("start_recv") \cup Left1("complete")
                   \cup Left2("reqd_done", "dma_completed")
                   \cup Left2("program_dma", "not_complete") \cup Works
  BY <1>7, OtherHeads
<1>8. QED BY <1>3, <1>4, <1>5, <1>6, <1>7, FunctionKinds

\* A step does not put a new transaction on the list of events.
LEMMA AnnouncingRest ==
  ASSUME NEW s \in Seq(Functions), s # << >>, Announcing(RestOf(s)) \/ Announcing(Tail(s))
  PROVE  Announcing(s)
<1> DEFINE f == Head(s)
           l == Len(s)
<1>1. /\ Tail(s) \in Seq(Functions) /\ Len(Tail(s)) = l - 1 /\ l \in Nat /\ l > 0
      /\ f = s[1] /\ f \in Functions /\ \A k \in 1 .. l - 1 : Tail(s)[k] = s[k + 1]
  BY Pop
<1>2. f \in Seq(Steps) /\ f # << >>
  BY <1>1, FunctionType
<1>3. CASE Announcing(Tail(s))
  <2>1. Tail(s) # << >> /\ Has(Tail(s)[l - 1], "new_txn")
    BY <1>1, <1>3 DEF Announcing
  <2>2. l - 1 > 0
    BY <1>1, <2>1, EmptySeq
  <2> HIDE DEF l
  <2>3. l - 1 \in 1 .. l - 1 /\ (l - 1) + 1 = l
    BY <1>1, <2>2
  <2>4. Tail(s)[l - 1] = s[l]
    BY <1>1, <2>3
  <2>5. QED BY <2>1, <2>4 DEF Announcing, l
<1>4. CASE ~Announcing(Tail(s))
  <2>1. Announcing(RestOf(s)) /\ Len(f) # 1
    BY <1>4 DEF RestOf
  <2> DEFINE p == <<Tail(f)>> \o Tail(s)
  <2>2. RestOf(s) = p
    BY <2>1 DEF RestOf
  <2>3. /\ Len(p) = Len(Tail(s)) + 1 /\ p[1] = Tail(f)
        /\ \A k \in 1 .. Len(Tail(s)) : p[k + 1] = Tail(s)[k]
    BY <1>1, Push
  <2> HIDE DEF p
  <2>4. Has(p[l], "new_txn")
    BY <1>1, <2>1, <2>2, <2>3 DEF Announcing
  <2>5. CASE l = 1
    <3>1. Has(Tail(f), "new_txn")
      BY <2>3, <2>4, <2>5
    <3>2. Has(f, "new_txn")
      <4> HIDE DEF f
      <4>1. QED BY <1>2, <3>1, HasFirst
    <3>3. s[l] = f
      BY <1>1, <2>5
    <3>4. QED BY <3>2, <3>3 DEF Announcing
  <2>6. CASE l # 1
    <3> HIDE DEF l
    <3>1. l - 1 \in 1 .. l - 1 /\ (l - 1) + 1 = l
      BY <1>1, <2>6
    <3>2. p[l] = s[l]
      BY <1>1, <2>3, <3>1
    <3>3. QED BY <2>4, <3>2 DEF Announcing, l
  <2>7. QED BY <2>5, <2>6
<1>5. QED BY <1>3, <1>4

\* Nor does the call of a helper.
LEMMA AnnouncingPush ==
  ASSUME NEW s \in Seq(Functions), NEW f \in Functions, ~Has(f, "new_txn"),
         Announcing(<<f>> \o s)
  PROVE  Announcing(s)
<1> DEFINE p == <<f>> \o s
           l == Len(s)
<1>1. /\ Len(p) = l + 1 /\ p[1] = f /\ l \in Nat
      /\ \A k \in 1 .. l : p[k + 1] = s[k]
  BY Push
<1> HIDE DEF p
<1>2. Has(p[l + 1], "new_txn")
  BY <1>1 DEF Announcing, p
<1>3. l # 0
  BY <1>1, <1>2
<1> HIDE DEF l
<1>4. l \in 1 .. l
  BY <1>1, <1>3
<1>5. Has(s[l], "new_txn")
  BY <1>1, <1>2, <1>4
<1>6. s # << >>
  BY <1>3, EmptySeq DEF l
<1>7. QED BY <1>5, <1>6 DEF Announcing, l

\* The stack of the deferred procedure call after a step.
LEMMA DpcRest ==
  ASSUME NEW s, DpcTower(s), s # << >>
  PROVE  /\ s \in Seq(Functions) /\ Head(s) \in Functions
         /\ RestOf(s) \in Seq(Functions) /\ Tail(s) \in Seq(Functions)
         /\ DpcTower(RestOf(s)) /\ DpcTower(Tail(s))
         /\ ~Completing(RestOf(s)) /\ ~Completing(Tail(s))
         /\ \A k \in 1 .. Len(RestOf(s)) : RestOf(s)[k] # <<"complete">>
         /\ Announcing(RestOf(s)) \/ Announcing(Tail(s)) => Announcing(s)
<1> DEFINE F == DpcEvents \cup DpcHelpers
<1>1. DpcHelpers \cup F \subseteq Functions
  BY DEF Functions
<1>2. Closed(DpcHelpers) /\ Closed(F)
  BY ClosedSets, ClosedUnion
<1>3. \A f \in DpcHelpers \cup F : Len(f) > 1 => Tail(f) # <<"complete">>
  BY <1>1, Completions
<1>4. s \in Seq(DpcHelpers \cup F)
  BY DEF DpcTower, Tower
<1>5. s \in Seq(Functions) /\ Head(s) \in Functions
  BY <1>1, <1>4
<1>6. /\ DpcTower(RestOf(s))
      /\ \A k \in 1 .. Len(RestOf(s)) : RestOf(s)[k] # <<"complete">>
  <2> HIDE DEF F
  <2>1. Tower(s, DpcHelpers, F)
    BY DEF DpcTower, F
  <2>2. /\ Tower(RestOf(s), DpcHelpers, F)
        /\ \A k \in 1 .. Len(RestOf(s)) : RestOf(s)[k] # <<"complete">>
    BY <1>2, <1>3, <2>1, TowerRest
  <2>3. QED BY <2>2 DEF DpcTower, F
<1>7. /\ DpcTower(Tail(s))
      /\ \A k \in 1 .. Len(Tail(s)) : Tail(s)[k] # <<"complete">>
  <2> HIDE DEF F
  <2>1. Tower(s, DpcHelpers, F)
    BY DEF DpcTower, F
  <2>2. /\ Tower(Tail(s), DpcHelpers, F)
        /\ \A k \in 1 .. Len(Tail(s)) : Tail(s)[k] # <<"complete">>
    BY <2>1, TowerPop
  <2>3. QED BY <2>2 DEF DpcTower, F
<1>8. ASSUME NEW q, DpcTower(q), \A k \in 1 .. Len(q) : q[k] # <<"complete">>
      PROVE  q \in Seq(Functions) /\ ~Completing(q)
  <2>1. q \in Seq(Functions)
    BY <1>1, <1>8 DEF DpcTower, Tower
  <2>2. CASE q # << >>
    <3>1. Head(q) \in Functions /\ Head(q) = q[1] /\ 1 \in 1 .. Len(q)
      BY <2>1, <2>2
    <3>2. Head(q) # <<"complete">>
      BY <1>8, <3>1
    <3>3. QED BY <2>1, <3>1, <3>2, Completions DEF Completing
  <2>3. QED BY <2>1, <2>2 DEF Completing
<1>9. QED BY <1>5, <1>6, <1>7, <1>8, AnnouncingRest

\* Only enter and exit change how many functions are inside.
LEMMA StepCounts ==
  ASSUME NEW s \in Seq(Functions), s # << >>
  PROVE  /\ Head(Head(s)) \notin {"enter", "exit"} => Count(RestOf(s)) = Count(s)
         /\ Head(Head(s)) = "enter" => Count(RestOf(s)) = Count(s) + 1 /\ Count(Tail(s)) = Count(s)
         /\ Head(Head(s)) = "exit" => Count(RestOf(s)) = Count(s) - 1 /\ Count(s) > 0
         /\ Count(s) \in Nat
<1>1. Head(s) \in Functions
  BY Pop
<1>2. /\ Count(Tail(s)) \in Nat
      /\ Count(s) = One(Head(s)) + Count(Tail(s))
      /\ Count(RestOf(s)) = One(Tail(Head(s))) + Count(Tail(s))
  BY CountRest
<1>3. One(Head(s)) \in Nat
  BY DEF One
<1>4. CASE Head(Head(s)) \notin {"enter", "exit"}
  <2>1. One(Tail(Head(s))) = One(Head(s))
    BY <1>1, <1>4, FunctionType, InsideKept
  <2>2. QED BY <1>2, <1>3, <1>4, <2>1
<1>5. CASE Head(Head(s)) = "enter"
  <2>1. One(Head(s)) = 0 /\ One(Tail(Head(s))) = 1
    BY <1>1, <1>5, Entering
  <2>2. QED BY <1>2, <1>5, <2>1
<1>6. CASE Head(Head(s)) = "exit"
  <2>1. One(Head(s)) = 1 /\ One(Tail(Head(s))) = 0
    BY <1>1, <1>6, Exiting
  <2>2. QED BY <1>2, <1>6, <2>1
<1>7. QED BY <1>4, <1>5, <1>6

\* The functions that are called from within others.
Called == { RiffaProgramScatterGather, RiffaStartRecvTransaction, RiffaTransactionComplete,
            <<"program_dma">>, <<"execute">>, <<"complete">>,
            <<"reqd_done", "dma_completed">>, <<"program_dma", "not_complete">> }

\* What the deferred procedure call may call.
LEMMA CalledFunctions ==
  ASSUME NEW f \in Called
  PROVE  /\ f \in DpcHelpers /\ f \in Functions
         /\ One(f) = 0 /\ ~Has(f, "new_txn")
         /\ Head(f) = "complete" <=> f = <<"complete">>
<1>1. ASSUME f \in DpcHelpers, Has(f, "enter") \/ ~Has(f, "exit"), ~Has(f, "new_txn"),
             Head(f) = "complete" <=> f = <<"complete">>
      PROVE  /\ f \in DpcHelpers /\ f \in Functions
             /\ One(f) = 0 /\ ~Has(f, "new_txn")
             /\ Head(f) = "complete" <=> f = <<"complete">>
  BY <1>1 DEF One, IsInside, Functions
<1>2. CASE f = RiffaProgramScatterGather
  <2>1. f = <<"stop_timer", "enter", "program", "exit", "start_timer">>
    BY <1>2 DEF RiffaProgramScatterGather
  <2>2. {"stop_timer", "enter", "program", "exit", "start_timer"} \subseteq Steps
    BY DEF Steps
  <2>3. \A x : Has(f, x) <=> x \in {"stop_timer", "enter", "program", "exit", "start_timer"}
    BY <2>1, <2>2, Has5
  <2>4. f \in DpcHelpers
    BY <2>1 DEF DpcHelpers, Adding, Left5
  <2>5. Head(f) = "stop_timer" /\ f # <<"complete">>
    BY <2>1, <2>2, Tuple5, Tuple1
  <2>6. QED BY <1>1, <2>3, <2>4, <2>5
<1>3. CASE f = RiffaStartRecvTransaction
  <2>1. f = <<"stop_timer", "enter", "start_recv", "exit">>
    BY <1>3 DEF RiffaStartRecvTransaction
  <2>2. {"stop_timer", "enter", "start_recv", "exit"} \subseteq Steps
    BY DEF Steps
  <2>3. \A x : Has(f, x) <=> x \in {"stop_timer", "enter", "start_recv", "exit"}
    BY <2>1, <2>2, Has4
  <2>4. f \in DpcHelpers
    BY <2>1 DEF DpcHelpers, Starting, Left4
  <2>5. Head(f) = "stop_timer" /\ f # <<"complete">>
    BY <2>1, <2>2, Tuple4, Tuple1
  <2>6. QED BY <1>1, <2>3, <2>4, <2>5
<1>4. CASE f = RiffaTransactionComplete
  <2>1. f = <<"stop_timer", "enter", "release", "complete_or_repeat", "exit">>
    BY <1>4 DEF RiffaTransactionComplete
  <2>2. {"stop_timer", "enter", "release", "complete_or_repeat", "exit"} \subseteq Steps
    BY DEF Steps
  <2>3. \A x : Has(f, x) <=> x \in {"stop_timer", "enter", "release", "complete_or_repeat", "exit"}
    BY <2>1, <2>2, Has5
  <2>4. f \in DpcHelpers
    BY <2>1 DEF DpcHelpers, Ending, Left5
  <2>5. Head(f) = "stop_timer" /\ f # <<"complete">>
    BY <2>1, <2>2, Tuple5, Tuple1
  <2>6. QED BY <1>1, <2>3, <2>4, <2>5
<1>5. ASSUME NEW x \in {"program_dma", "execute", "complete"}, f = <<x>>
      PROVE  /\ f \in DpcHelpers /\ f \in Functions
             /\ One(f) = 0 /\ ~Has(f, "new_txn")
             /\ Head(f) = "complete" <=> f = <<"complete">>
  <2>1. x \in Steps
    BY DEF Steps
  <2>2. \A y : Has(f, y) <=> y = x
    BY <1>5, <2>1, Has1
  <2>3. f \in DpcHelpers
    BY <1>5 DEF DpcHelpers, Mapping, Left1
  <2>4. Head(f) = x
    BY <1>5
  <2>5. Head(f) = "complete" <=> f = <<"complete">>
    BY <1>5, <2>4
  <2>6. QED BY <1>1, <2>2, <2>3, <2>5
<1>6. CASE f = <<"reqd_done", "dma_completed">>
  <2>1. {"reqd_done", "dma_completed"} \subseteq Steps
    BY DEF Steps
  <2>2. \A x : Has(f, x) <=> x \in {"reqd_done", "dma_completed"}
    BY <1>6, <2>1, Has2
  <2>3. f \in DpcHelpers
    BY <1>6 DEF DpcHelpers, Left2
  <2>4. Head(f) = "reqd_done" /\ f # <<"complete">>
    BY <1>6, <2>1, Tuple2, Tuple1
  <2>5. QED BY <1>1, <2>2, <2>3, <2>4
<1>7. CASE f = <<"program_dma", "not_complete">>
  <2>1. {"program_dma", "not_complete"} \subseteq Steps
    BY DEF Steps
  <2>2. \A x : Has(f, x) <=> x \in {"program_dma", "not_complete"}
    BY <1>7, <2>1, Has2
  <2>3. f \in DpcHelpers
    BY <1>7 DEF DpcHelpers, Left2
  <2>4. Head(f) = "program_dma" /\ f # <<"complete">>
    BY <1>7, <2>1, Tuple2, Tuple1
  <2>5. QED BY <1>1, <2>2, <2>3, <2>4
<1>8. QED BY <1>2, <1>3, <1>4, <1>5, <1>6, <1>7 DEF Called

\* The stack of the deferred procedure call after a call.
LEMMA DpcCall ==
  ASSUME NEW s, DpcTower(s), s # << >>, NEW f \in Called
  PROVE  LET p == <<f>> \o RestOf(s)
         IN  /\ DpcTower(p) /\ p # << >> /\ Head(p) = f
             /\ Completing(p) <=> f = <<"complete">>
             /\ Announcing(p) => Announcing(s)
             /\ Head(Head(s)) \notin {"enter", "exit"} => Count(p) = Count(s)
<1> DEFINE r == RestOf(s)
           p == <<f>> \o r
           F == DpcEvents \cup DpcHelpers
<1>1. /\ r \in Seq(Functions) /\ DpcTower(r) /\ \A k \in 1 .. Len(r) : r[k] # <<"complete">>
      /\ Announcing(r) => Announcing(s)
  BY DpcRest
<1>2. /\ f \in DpcHelpers /\ f \in Functions /\ One(f) = 0 /\ ~Has(f, "new_txn")
      /\ Head(f) = "complete" <=> f = <<"complete">>
  BY CalledFunctions
<1>3. Head(Head(s)) \notin {"enter", "exit"} => Count(r) = Count(s)
  BY DpcRest, StepCounts
<1> HIDE DEF r
<1>4. DpcTower(p) /\ p # << >> /\ Head(p) = f
  <2>1. Tower(r, DpcHelpers, F) /\ f \in F
    BY <1>1, <1>2 DEF DpcTower
  <2> HIDE DEF F
  <2>2. ASSUME NEW g \in DpcHelpers, g \in F
        PROVE  Tower(<<g>> \o r, DpcHelpers, F) /\ Head(<<g>> \o r) = g /\ <<g>> \o r # << >>
    BY <1>1, <2>1, <2>2, TowerPush
  <2>3. Tower(p, DpcHelpers, F) /\ Head(p) = f /\ p # << >>
    BY <1>2, <2>1, <2>2
  <2>4. QED BY <2>3 DEF DpcTower, F
<1>5. Count(r) \in Nat /\ Count(p) = One(f) + Count(r)
  BY <1>1, CountPush
<1>6. Announcing(p) => Announcing(s)
  BY <1>1, <1>2, AnnouncingPush
<1>7. Completing(p) <=> f = <<"complete">>
  BY <1>2, <1>4 DEF Completing
<1>8. Head(Head(s)) \notin {"enter", "exit"} => Count(p) = Count(s)
  BY <1>2, <1>3, <1>5
<1>9. QED BY <1>4, <1>6, <1>7, <1>8 DEF r

-----------------------------------------------------------------------------
(* What a step makes of the stack of the call.                             *)
IoctlTower(s) == Tower(s, IoctlHelpers, Works)

\* Marking the request as cancelable is the last step of a call's work.
LEMMA Marking ==
  ASSUME NEW f \in IoctlHelpers \cup Works
  PROVE  /\ Head(f) = "mark" <=> f = <<"mark">>
         /\ f = <<"mark">> => f \notin IoctlHelpers /\ Len(f) = 1
         /\ f \in Works /\ f # <<"mark">> => Tail(f) = <<"mark">> /\ Len(f) # 1
         /\ f # <<"complete">>
<1>1. {"execute", "mark"} \subseteq Steps /\ {"ready", "mark"} \subseteq Steps
  BY DEF Steps
<1>2. Head(<<"mark">>) = "mark" /\ Len(<<"mark">>) = 1 /\ Head(<<"complete">>) = "complete"
  OBVIOUS
<1>3. f \in IoctlHelpers => Head(f) # "mark" /\ Head(f) # "complete"
  <2>1. CASE f \in Adding
    BY <2>1, AddingHeads
  <2>2. CASE f \in Left1("program_dma") \cup Left1("execute")
    BY <2>2, Heads1, StepNames
  <2>3. CASE f \in Left1("start_recv")
    BY <2>3, Heads1, StepNames
  <2>4. QED BY <2>1, <2>2, <2>3 DEF IoctlHelpers, Mapping
<1>4. f \in Works => \/ f = <<"mark">>
                     \/ Head(f) \in {"execute", "ready"} /\ Tail(f) = <<"mark">> /\ Len(f) = 2
  <2>1. CASE f = <<"execute", "mark">>
    BY <1>1, <2>1, Tuple2
  <2>2. CASE f = <<"ready", "mark">>
    BY <1>1, <2>2, Tuple2
  <2>3. QED BY <2>1, <2>2 DEF Works, Left2
<1>5. QED BY <1>2, <1>3, <1>4

\* The stack of a call at work after a step.
LEMMA IoctlRest ==
  ASSUME NEW s, IoctlTower(s), s # << >>
  PROVE  /\ s \in Seq(Functions) /\ Head(s) \in IoctlHelpers \cup Works
         /\ RestOf(s) \in Seq(Functions) /\ IoctlTower(RestOf(s))
         /\ Head(Head(s)) = "mark" <=> RestOf(s) = << >>
<1> DEFINE f == Head(s)
           l == Len(s)
<1>1. IoctlHelpers \cup Works \subseteq Functions
  BY DEF Functions
<1>2. s \in Seq(IoctlHelpers \cup Works)
  BY DEF IoctlTower, Tower
<1>3. /\ s \in Seq(Functions) /\ f \in IoctlHelpers \cup Works /\ f = s[1] /\ l \in Nat /\ l > 0
      /\ Len(Tail(s)) = l - 1 /\ Tail(s) \in Seq(Functions)
  BY <1>1, <1>2
<1>4. IoctlTower(RestOf(s))
  <2>1. Closed(IoctlHelpers) /\ Closed(Works)
    BY ClosedSets
  <2>2. \A g \in IoctlHelpers \cup Works : Len(g) > 1 => Tail(g) # <<"complete">>
    BY <1>1, Completions
  <2>3. Tower(s, IoctlHelpers, Works)
    BY DEF IoctlTower
  <2>4. QED BY <2>1, <2>2, <2>3, TowerRest DEF IoctlTower
<1>5. RestOf(s) \in Seq(Functions)
  BY <1>1, <1>4 DEF IoctlTower, Tower
<1>6. /\ l > 1 => f \in IoctlHelpers
      /\ l = 1 => f \in Works
  <2>1. \A k \in 1 .. l : /\ k < l => s[k] \in IoctlHelpers
                          /\ k = l => s[k] \in Works
    BY DEF IoctlTower, Tower
  <2>2. f = s[1] /\ l \in Nat /\ l > 0
    BY <1>3
  <2> HIDE DEF f, l
  <2>3. 1 \in 1 .. l
    BY <2>2
  <2>4. QED BY <2>1, <2>2, <2>3
<1>7. CASE Head(f) = "mark"
  <2>1. f = <<"mark">> /\ f \notin IoctlHelpers /\ Len(f) = 1
    BY <1>3, <1>7, Marking
  <2>2. l = 1
    BY <1>3, <1>6, <2>1
  <2>3. RestOf(s) = Tail(s)
    BY <2>1 DEF RestOf
  <2>4. RestOf(s) = << >>
    BY <1>3, <2>2, <2>3, EmptySeq
  <2>5. QED BY <1>3, <1>4, <1>5, <1>7, <2>4
<1>8. CASE Head(f) # "mark"
  <2>1. CASE Len(f) = 1
    <3>1. l # 1
      BY <1>3, <1>6, <1>8, <2>1, Marking
    <3>2. Len(RestOf(s)) # 0
      <4>1. RestOf(s) = Tail(s)
        BY <2>1 DEF RestOf
      <4>2. Len(Tail(s)) = l - 1 /\ l \in Nat /\ l # 1
        BY <1>3, <3>1
      <4> HIDE DEF l
      <4>3. QED BY <4>1, <4>2
    <3>3. RestOf(s) # << >>
      BY <1>5, <3>2, EmptySeq
    <3>4. QED BY <1>3, <1>4, <1>5, <1>8, <3>3
  <2>2. CASE Len(f) # 1
    <3>1. RestOf(s) = <<Tail(f)>> \o Tail(s)
      BY <2>2 DEF RestOf
    <3>2. RestOf(s) # << >>
      BY <1>3, <3>1, Push
    <3>3. QED BY <1>3, <1>4, <1>5, <1>8, <3>2
  <2>3. QED BY <2>1, <2>2
<1>9. QED BY <1>7, <1>8

\* The stack of a call at work after a call of a helper.
LEMMA IoctlCall ==
  ASSUME NEW s, IoctlTower(s), s # << >>, Head(Head(s)) \notin {"mark", "enter", "exit"},
         NEW f \in IoctlHelpers, One(f) = 0
  PROVE  IoctlTower(<<f>> \o RestOf(s)) /\ <<f>> \o RestOf(s) # << >>
         /\ Count(<<f>> \o RestOf(s)) = Count(s)
<1> DEFINE r == RestOf(s)
<1>1. s \in Seq(Functions) /\ r \in Seq(Functions) /\ IoctlTower(r) /\ r # << >>
  BY IoctlRest
<1>2. Count(r) = Count(s)
  BY <1>1, StepCounts
<1>3. \A k \in 1 .. Len(r) : r[k] # <<"complete">>
  <2>1. r \in Seq(IoctlHelpers \cup Works)
    BY <1>1 DEF IoctlTower, Tower
  <2> HIDE DEF r
  <2>2. \A k \in 1 .. Len(r) : r[k] \in IoctlHelpers \cup Works
    BY <2>1
  <2>3. QED BY <2>2, Marking
<1> HIDE DEF r
<1>4. Tower(<<f>> \o r, IoctlHelpers, Works) /\ <<f>> \o r # << >>
  <2>1. Tower(r, IoctlHelpers, Works)
    BY <1>1 DEF IoctlTower
  <2>2. QED BY <1>1, <1>3, <2>1, TowerPush
<1>5. Count(r) \in Nat /\ Count(<<f>> \o r) = One(f) + Count(r)
  BY <1>1, CountPush
<1>6. QED BY <1>2, <1>4, <1>5 DEF IoctlTower, r

-----------------------------------------------------------------------------
(* Steps of the deferred procedure call that leave the request alone.      *)

\* A step changes the stack of one thread.
LEMMA StackUpdate ==
  ASSUME DOMAIN stack = Threads, NEW t \in Threads, NEW e, stack' = [stack EXCEPT ![t] = e]
  PROVE  /\ DOMAIN stack' = Threads /\ stack'[t] = e
         /\ \A u \in Threads \ {t} : stack'[u] = stack[u]
  OBVIOUS

\* While the call rests, it is at none of its steps.
LEMMA CallRests ==
  /\ stack["ioctl"] = << >> =>
       /\ Resting("ioctl") /\ ~Claiming /\ ~SettingUp /\ ~Working /\ stack["ioctl"] \notin Resets
       /\ ~At("ioctl", "reset_request")
  /\ stack'["ioctl"] = << >> =>
       /\ Resting("ioctl")' /\ ~Claiming' /\ ~SettingUp' /\ ~Working'
       /\ stack'["ioctl"] \notin Resets
       /\ ~At("ioctl", "reset_request")'
<1>1. << >> \notin {<<RiffaIoctlSend>>, <<RiffaIoctlRecv>>} /\ << >> \notin Resets
  BY DEF Resets
<1>2. << >> \notin { << <<"set_up_send", "execute", "mark">> >>,
                     << <<"set_up_recv", "ready", "mark">> >> }
  OBVIOUS
<1>3. QED BY <1>1, <1>2 DEF Resting, Claiming, SettingUp, Working, At

\* While the deferred procedure call is at a step, no call is under way.
LEMMA AtDpc ==
  ASSUME WinInv, NEW x, At("dpc", x)
  PROVE  /\ stack["dpc"] # << >> /\ DpcTower(stack["dpc"]) /\ Head(Head(stack["dpc"])) = x
         /\ stack["dpc"] \in Seq(Functions) /\ stack["ioctl"] = << >>
         /\ Completing(stack["dpc"]) <=> x = "complete"
         /\ x # "new_txn" => stack["dpc"] # << <<"new_txn">> >>
<1>1. stack["dpc"] # << >> /\ Head(Head(stack["dpc"])) = x
  BY DEF At
<1>2. DpcTower(stack["dpc"])
  BY DEF WinInv, ControlInv, DpcTower
<1>3. stack["ioctl"] = << >>
  BY <1>1 DEF WinInv, ControlInv, Resting
<1>4. stack["dpc"] \in Seq(Functions)
  BY <1>1, <1>2, DpcRest
<1>5. Head(Head(<< <<"new_txn">> >>)) = "new_txn"
  OBVIOUS
<1>6. QED BY <1>1, <1>2, <1>3, <1>4, <1>5 DEF Completing

\* What the invariant is about, but for the stacks, does not change.
Unmoved ==
  /\ way' = way /\ intr' = intr /\ req' = req
  /\ DOMAIN chnl' = ChnlFields /\ chnl'.InUse = chnl.InUse /\ chnl'.Cancel = chnl.Cancel
  /\ chnl'.Request = chnl.Request /\ chnl'.ActiveCount = chnl.ActiveCount
  /\ chnl'.Length = chnl.Length
  /\ DOMAIN local' = LocalFields /\ local'.request = local.request
  /\ local'.size = local.size /\ local'.intr = local.intr
  /\ DOMAIN port' = PortFields /\ port'.vect = port.vect
  /\ "txn" \in port.vect => port'.len = port.len

\* A step that leaves alone what the invariant speaks of, but for the stack.
LEMMA QuietDpc ==
  ASSUME WinInv, NEW x, At("dpc", x), x \notin {"complete", "new_txn"},
         NEW e, stack' = [stack EXCEPT !["dpc"] = e],
         DpcTower(e), Count(e) = Count(stack["dpc"]), ~Completing(e),
         Announcing(e) => Announcing(stack["dpc"]),
         Unmoved
  PROVE  WinInv'
<1>1. /\ stack["dpc"] # << >> /\ stack["dpc"] # << <<"new_txn">> >> /\ stack["ioctl"] = << >>
      /\ ~Completing(stack["dpc"])
  BY AtDpc
<1>2. /\ DOMAIN stack' = Threads /\ stack'["dpc"] = e
      /\ stack'["ioctl"] = << >> /\ stack'["timer"] = stack["timer"]
      /\ stack'["cancel"] = stack["cancel"]
  <2>1. DOMAIN stack = Threads
    BY DEF WinInv, ControlInv
  <2>2. QED BY <1>1, <2>1, StackUpdate DEF Threads
<1>3. chnl.Length # 0
  BY <1>1 DEF WinInv, LengthInv
<1>4. WinTypes'
  BY DEF WinInv, WinTypes, Unmoved
<1>5. ControlInv'
  BY <1>2, CallRests DEF WinInv, ControlInv, DpcTower, Resting, Unmoved
<1>6. LengthInv'
  BY <1>2, <1>3, CallRests DEF WinInv, LengthInv, Unmoved
<1>7. RequestInv'
  BY <1>1, <1>2, CallRests DEF WinInv, RequestInv, At, Resting, Current, Unmoved
<1>8. InUseInv'
  <2>1. ~At("dpc", "complete") /\ ~At("dpc", "complete")'
    BY <1>1, <1>2 DEF At, Completing
  <2>2. QED BY <1>1, <1>2, <2>1, CallRests
            DEF WinInv, InUseInv, At, Resting, Current, IsCancelling, Unmoved
<1>9. ActiveCounted'
  BY <1>1, <1>2 DEF WinInv, ActiveCounted, Inside, Count, InsideOf, Unmoved
<1>10. QED BY <1>4, <1>5, <1>6, <1>7, <1>8, <1>9 DEF WinInv

\* Such a step either proceeds or calls a function.
LEMMA QuietStep ==
  ASSUME WinInv, NEW x, At("dpc", x), x \notin {"enter", "exit", "complete", "new_txn"}, Unmoved,
         Proceed("dpc") \/ \E f \in Called \ {<<"complete">>} : Call("dpc", f)
  PROVE  WinInv'
<1> DEFINE s == stack["dpc"]
<1>1. s # << >> /\ DpcTower(s) /\ Head(Head(s)) = x /\ s \in Seq(Functions)
  BY AtDpc
<1>2. CASE Proceed("dpc")
  <2>1. stack' = [stack EXCEPT !["dpc"] = RestOf(s)]
    BY <1>2 DEF Proceed, Rest, RestOf
  <2>2. /\ DpcTower(RestOf(s)) /\ ~Completing(RestOf(s))
        /\ Announcing(RestOf(s)) => Announcing(s)
    BY <1>1, DpcRest
  <2>3. Count(RestOf(s)) = Count(s)
    BY <1>1, StepCounts
  <2> DEFINE r == RestOf(s)
  <2> HIDE DEF r
  <2>4. QED BY <2>1, <2>2, <2>3, QuietDpc DEF r
<1>3. ASSUME NEW f \in Called \ {<<"complete">>}, Call("dpc", f) PROVE WinInv'
  <2> DEFINE p == <<f>> \o RestOf(s)
  <2>1. stack' = [stack EXCEPT !["dpc"] = p]
    BY <1>3 DEF Call, Rest, RestOf
  <2>2. /\ DpcTower(p) /\ ~Completing(p) /\ Count(p) = Count(s)
        /\ Announcing(p) => Announcing(s)
    BY <1>1, DpcCall
  <2> HIDE DEF p
  <2>3. QED BY <2>1, <2>2, QuietDpc
<1>4. QED BY <1>2, <1>3

\* The steps that the call and the deferred procedure call have in common.
QuietCalls == {<<"program_dma">>, <<"execute">>, RiffaProgramScatterGather}
QuietHeads == {"stop_timer", "start_timer", "execute", "program_dma", "program", "start_recv"}
Quietly(t) ==
  \/ StopTimer(t) \/ StartTimer(t) \/ RiffaStartDmaTransaction(t)
  \/ RiffaEvtProgramDma(t) \/ Program(t) \/ StartRecv(t)

\* The quiet steps of both threads.
LEMMA QuietlyAt ==
  ASSUME NEW t \in {"ioctl", "dpc"}, Quietly(t)
  PROVE  \E x \in QuietHeads : At(t, x)
<1>1. StopTimer(t) => At(t, "stop_timer")
  BY DEF StopTimer
<1>2. StartTimer(t) => At(t, "start_timer")
  BY DEF StartTimer
<1>3. RiffaStartDmaTransaction(t) => At(t, "execute")
  BY DEF RiffaStartDmaTransaction
<1>4. RiffaEvtProgramDma(t) => At(t, "program_dma")
  BY DEF RiffaEvtProgramDma
<1>5. Program(t) => At(t, "program")
  BY DEF Program
<1>6. StartRecv(t) => At(t, "start_recv")
  BY DEF StartRecv
<1>7. QED BY <1>1, <1>2, <1>3, <1>4, <1>5, <1>6 DEF Quietly, QuietHeads

\* What the quiet steps leave alone. A transaction has a length here, and starts.
LEMMA QuietEffect ==
  ASSUME WinInv, OneAtATime, NEW t \in {"ioctl", "dpc"}, Quietly(t), chnl.Length # 0
  PROVE  Unmoved /\ (Proceed(t) \/ \E f \in QuietCalls : Call(t, f))
<1> USE DEF Unmoved, ChnlFields, LocalFields, PortFields
<1>0. /\ DOMAIN chnl = ChnlFields /\ DOMAIN local = LocalFields /\ DOMAIN port = PortFields
      /\ "txn" \in port.vect => way = "recv"
  BY DEF WinInv, WinTypes, LengthInv
<1>1. CASE StopTimer(t)
  BY <1>0, <1>1 DEF StopTimer, callerVars, fpgaVars
<1>2. CASE StartTimer(t)
  BY <1>0, <1>2 DEF StartTimer, callerVars, fpgaVars
<1>3. CASE RiffaStartDmaTransaction(t)
  <2>1. /\ Call(t, <<"program_dma">>) /\ UNCHANGED <<chnl, req>>
        /\ UNCHANGED <<callerVars, intr, local, fpgaVars>>
    BY <1>3 DEF RiffaStartDmaTransaction, OneAtATime
  <2>2. QED BY <1>0, <2>1 DEF callerVars, fpgaVars, QuietCalls
<1>4. CASE RiffaEvtProgramDma(t)
  <2>1. DOMAIN port' = PortFields /\ port'.vect = port.vect /\ (way # "send" => port' = port)
    BY <1>0, <1>4 DEF RiffaEvtProgramDma, RiffaProgramSend, RxLength
  <2>2. Unmoved
    BY <1>0, <1>4, <2>1 DEF RiffaEvtProgramDma, callerVars
  <2>3. QED BY <1>4, <2>2 DEF RiffaEvtProgramDma, QuietCalls
<1>5. CASE Program(t)
  <2>1. PICK list, reqd, provided :
          port' = IF list # << >> THEN [port EXCEPT !.request = list]
                  ELSE IF ~reqd THEN port
                  ELSE IF way = "send" THEN RxLength(provided, chnl.Last)
                  ELSE [port EXCEPT !.partial = (port.st # "idle")]
    BY <1>5 DEF Program
  <2>2. /\ DOMAIN port' = PortFields /\ port'.vect = port.vect
        /\ way # "send" => port'.len = port.len
    BY <1>0, <2>1 DEF RxLength
  <2>3. Unmoved
    BY <1>0, <1>5, <2>2 DEF Program, callerVars
  <2>4. QED BY <1>5, <2>3 DEF Program
<1>6. CASE StartRecv(t)
  <2>1. chnl.Length > 0
    BY DEF WinInv, WinTypes
  <2>2. /\ chnl' = [chnl EXCEPT !.SpillAfter = chnl.Capacity]
        /\ Call(t, <<"execute">>) /\ UNCHANGED <<req, stale>>
        /\ UNCHANGED <<callerVars, wdf, intr, local, fpgaVars>>
    BY <1>6, <2>1 DEF StartRecv
  <2>3. QED BY <1>0, <2>2 DEF callerVars, fpgaVars, QuietCalls
<1>7. QED BY <1>1, <1>2, <1>3, <1>4, <1>5, <1>6 DEF Quietly

\* The quiet steps of the deferred procedure call keep the invariant.
LEMMA DpcQuietly ==
  ASSUME WinInv, OneAtATime,
         \/ Quietly("dpc") \/ DpcSgRead \/ DpcDone \/ DpcReqdDone \/ DpcDmaCompleted
         \/ DpcNotComplete \/ DpcRelease
  PROVE  WinInv'
<1> USE DEF Unmoved, ChnlFields, LocalFields, PortFields
<1>0. /\ DOMAIN chnl = ChnlFields /\ DOMAIN local = LocalFields /\ DOMAIN port = PortFields
      /\ "txn" \in port.vect => way = "recv"
  BY DEF WinInv, WinTypes, LengthInv
<1>1. CASE Quietly("dpc")
  <2>1. PICK x \in QuietHeads : At("dpc", x)
    BY <1>1, QuietlyAt
  <2>2. stack["dpc"] # << >> /\ stack["dpc"] # << <<"new_txn">> >>
    BY <2>1, AtDpc DEF QuietHeads
  <2>3. chnl.Length # 0
    BY <2>2 DEF WinInv, LengthInv
  <2> HIDE DEF Unmoved
  <2>4. Unmoved /\ (Proceed("dpc") \/ \E f \in QuietCalls : Call("dpc", f))
    BY <1>1, <2>3, QuietEffect
  <2>5. QuietCalls \subseteq Called \ {<<"complete">>}
    BY DEF QuietCalls, Called, RiffaProgramScatterGather
  <2>6. QED BY <2>1, <2>4, <2>5, QuietStep DEF QuietHeads
<1>7. CASE DpcSgRead
  <2>1. Unmoved
    BY <1>0, <1>7 DEF DpcSgRead, callerVars, fpgaVars
  <2>2. RiffaProgramScatterGather \in Called \ {<<"complete">>}
    BY DEF Called, RiffaProgramScatterGather
  <2>3. QED BY <1>7, <2>1, <2>2, QuietStep DEF DpcSgRead
<1>8. CASE DpcDone
  <2>1. Unmoved
    BY <1>0, <1>8 DEF DpcDone, callerVars, fpgaVars
  <2>2. <<"reqd_done", "dma_completed">> \in Called \ {<<"complete">>}
    BY DEF Called
  <2>3. QED BY <1>8, <2>1, <2>2, QuietStep DEF DpcDone
<1>9. CASE DpcReqdDone
  <2>1. Unmoved
    BY <1>0, <1>9 DEF DpcReqdDone, callerVars, fpgaVars
  <2>2. QED BY <1>9, <2>1, QuietStep DEF DpcReqdDone
<1>10. CASE DpcDmaCompleted
  <2>1. DOMAIN port' = PortFields /\ port'.vect = port.vect /\ port'.len = port.len
    BY <1>0, <1>10 DEF DpcDmaCompleted, EndsTransaction
  <2>5. /\ DOMAIN local' = LocalFields /\ local'.request = local.request
        /\ local'.size = local.size /\ local'.intr = local.intr
    BY <1>0, <1>10 DEF DpcDmaCompleted, EndsTransaction
  <2>3. Unmoved
    BY <1>0, <1>10, <2>5, <2>1 DEF DpcDmaCompleted, callerVars
  <2>2. /\ <<"program_dma", "not_complete">> \in Called \ {<<"complete">>}
        /\ RiffaTransactionComplete \in Called \ {<<"complete">>}
    BY DEF Called, RiffaTransactionComplete
  <2>4. QED BY <1>10, <2>2, <2>3, QuietStep DEF DpcDmaCompleted, EndsTransaction
<1>11. CASE DpcNotComplete
  <2>1. Unmoved
    BY <1>0, <1>11 DEF DpcNotComplete, EndsTransaction, callerVars
  <2>2. RiffaTransactionComplete \in Called \ {<<"complete">>}
    BY DEF Called, RiffaTransactionComplete
  <2>3. QED BY <1>11, <2>1, <2>2, QuietStep DEF DpcNotComplete, EndsTransaction
<1>12. CASE DpcRelease
  <2>1. Unmoved
    BY <1>0, <1>12 DEF DpcRelease, callerVars, fpgaVars
  <2>2. QED BY <1>12, <2>1, QuietStep DEF DpcRelease
<1>13. QED BY <1>1, <1>7, <1>8, <1>9, <1>10, <1>11, <1>12

-----------------------------------------------------------------------------
(* The list of requests.                                                   *)

\* A function on 1 .. n is a sequence.
LEMMA SequenceIf ==
  ASSUME NEW S, NEW n \in Nat, NEW f \in [1 .. n -> S]
  PROVE  f \in Seq(S)
  BY SeqDef

\* A sequence is a sequence over its own elements.
LEMMA IsSequenceIf ==
  ASSUME NEW S, NEW s \in Seq(S)
  PROVE  IsSequence(s) /\ DOMAIN s = 1 .. Len(s) /\ Len(s) \in Nat
<1>1. DOMAIN s = 1 .. Len(s) /\ Len(s) \in Nat
  OBVIOUS
<1> DEFINE R == { s[k] : k \in DOMAIN s }
<1>2. s \in [1 .. Len(s) -> R]
  BY <1>1
<1> HIDE DEF R
<1>3. s \in Seq(R)
  BY <1>1, <1>2, SeqDef
<1>4. QED BY <1>1, <1>3 DEF IsSequence, R

\* An update of one request leaves the others alone.
LEMMA RequestUpdate ==
  ASSUME IsSequence(req), NEW r \in DOMAIN req, NEW e, req' = [req EXCEPT ![r] = e]
  PROVE  /\ IsSequence(req') /\ Len(req') = Len(req) /\ DOMAIN req' = DOMAIN req
         /\ req'[r] = e /\ \A k \in DOMAIN req \ {r} : req'[k] = req[k]
<1> DEFINE R == { req[k] : k \in DOMAIN req }
<1>1. req \in Seq(R)
  BY DEF IsSequence
<1>2. DOMAIN req = 1 .. Len(req) /\ Len(req) \in Nat
  BY <1>1, IsSequenceIf
<1>3. \A k \in DOMAIN req : req[k] \in R
  OBVIOUS
<1> DEFINE T == R \cup {e}
<1> HIDE DEF R
<1>4. req' \in [1 .. Len(req) -> T]
  BY <1>1, <1>2, <1>3
<1> HIDE DEF T
<1>5. req' \in Seq(T)
  BY <1>2, <1>4, SequenceIf
<1>6. DOMAIN req' = 1 .. Len(req)
  BY <1>4
<1>7. IsSequence(req') /\ DOMAIN req' = 1 .. Len(req') /\ Len(req') \in Nat
  BY <1>5, IsSequenceIf
<1>8. Len(req') = Len(req)
  BY <1>2, <1>5, <1>6
<1>9. QED BY <1>2, <1>7, <1>8

\* WdfRequestCompleteWithInformation completes one request and leaves the others alone.
LEMMA Completed ==
  ASSUME WinTypes, NEW r \in DOMAIN req, NEW status, NEW info, Complete(r, status, info)
  PROVE  /\ IsSequence(req') /\ Len(req') = Len(req) /\ DOMAIN req' = DOMAIN req
         /\ \A k \in DOMAIN req : /\ DOMAIN req'[k] = ReqFields
                                  /\ req'[k].mark = req[k].mark
                                  /\ req'[k].cancelled = req[k].cancelled
         /\ \A k \in DOMAIN req \ {r} : req'[k] = req[k]
         /\ req[r].done = 0 => req'[r].done = 1
<1> DEFINE e == [req[r] EXCEPT !.done = Least(@ + 1, 2), !.status = status, !.info = info]
<1>1. IsSequence(req) /\ \A k \in DOMAIN req : DOMAIN req[k] = ReqFields
  BY DEF WinTypes
<1>2. req' = [req EXCEPT ![r] = e]
  BY DEF Complete
<1>3. /\ DOMAIN e = ReqFields /\ e.mark = req[r].mark /\ e.cancelled = req[r].cancelled
      /\ req[r].done = 0 => e.done = 1
  BY <1>1 DEF ReqFields, Least
<1> HIDE DEF e
<1>4. /\ IsSequence(req') /\ Len(req') = Len(req) /\ DOMAIN req' = DOMAIN req
      /\ req'[r] = e /\ \A k \in DOMAIN req \ {r} : req'[k] = req[k]
  BY <1>1, <1>2, RequestUpdate
<1>5. QED BY <1>1, <1>3, <1>4

\* A thread that is through is inside nothing.
LEMMA CountNothing == Count(<< >>) = 0
<1>1. InsideOf(<< >>) = {}
  BY DEF InsideOf
<1>2. QED BY <1>1, FS_EmptySet DEF Count

-----------------------------------------------------------------------------
(* Steps of the deferred procedure call that touch the request.            *)

\* A step of the deferred procedure call leaves the other threads where they are.
LEMMA DpcControl ==
  ASSUME WinInv, stack["ioctl"] = << >>, NEW e, stack' = [stack EXCEPT !["dpc"] = e], DpcTower(e)
  PROVE  /\ ControlInv' /\ DOMAIN stack' = Threads /\ stack'["dpc"] = e
         /\ stack'["ioctl"] = << >> /\ stack'["timer"] = stack["timer"]
         /\ stack'["cancel"] = stack["cancel"]
<1>1. /\ DOMAIN stack' = Threads /\ stack'["dpc"] = e
      /\ stack'["ioctl"] = << >> /\ stack'["timer"] = stack["timer"]
      /\ stack'["cancel"] = stack["cancel"]
  <2>1. DOMAIN stack = Threads
    BY DEF WinInv, ControlInv
  <2>2. QED BY <2>1, StackUpdate DEF Threads
<1>2. QED BY <1>1, CallRests DEF WinInv, ControlInv, DpcTower, Resting

\* ActiveCount follows the functions of the deferred procedure call.
LEMMA DpcCounted ==
  ASSUME WinInv, stack["ioctl"] = << >>, stack'["ioctl"] = << >>,
         Count(stack["dpc"]) \in Nat, NEW d \in Int,
         chnl'.ActiveCount = chnl.ActiveCount + d,
         Count(stack'["dpc"]) = Count(stack["dpc"]) + d
  PROVE  ActiveCounted' /\ chnl.ActiveCount = Count(stack["dpc"])
<1>1. chnl.ActiveCount = Count(stack["ioctl"]) + Count(stack["dpc"])
  BY DEF WinInv, ActiveCounted, Inside, Count, InsideOf
<1>2. Count(stack["ioctl"]) = 0 /\ Count(stack'["ioctl"]) = 0
  BY CountNothing
<1>3. chnl'.ActiveCount = Count(stack'["ioctl"]) + Count(stack'["dpc"])
  BY <1>1, <1>2
<1>4. ActiveCounted'
  BY <1>3 DEF ActiveCounted, Inside, Count, InsideOf
<1>5. QED BY <1>1, <1>2, <1>4

\* What is left alone when only the channel's counters and the request change.
LEMMA DpcLengths ==
  ASSUME WinInv, NEW x, At("dpc", x), x # "new_txn",
         stack'["ioctl"] = << >>, Announcing(stack'["dpc"]) => Announcing(stack["dpc"]),
         way' = way, intr' = intr, port' = port, local'.intr = local.intr,
         chnl'.Length = chnl.Length
  PROVE  LengthInv'
<1>1. stack["dpc"] # << >> /\ stack["dpc"] # << <<"new_txn">> >>
  BY AtDpc
<1>2. chnl.Length # 0
  BY <1>1 DEF WinInv, LengthInv
<1>3. QED BY <1>2, CallRests DEF WinInv, LengthInv

\* The steps of the deferred procedure call, one by one: RiffaThreadEnter.
LEMMA DpcEnters ==
  ASSUME WinInv, RiffaThreadEnter("dpc")
  PROVE  WinInv'
<1> DEFINE s == stack["dpc"]
<1>1. At("dpc", "enter")
  BY DEF RiffaThreadEnter
<1>2. /\ s # << >> /\ DpcTower(s) /\ Head(Head(s)) = "enter" /\ s \in Seq(Functions)
      /\ stack["ioctl"] = << >> /\ ~Completing(s)
  BY <1>1, AtDpc
<1>3. /\ DpcTower(RestOf(s)) /\ DpcTower(Tail(s))
      /\ ~Completing(RestOf(s)) /\ ~Completing(Tail(s))
      /\ Announcing(RestOf(s)) \/ Announcing(Tail(s)) => Announcing(s)
  BY <1>2, DpcRest
<1>4. Count(RestOf(s)) = Count(s) + 1 /\ Count(Tail(s)) = Count(s) /\ Count(s) \in Nat
  BY <1>2, StepCounts
<1>5. /\ DOMAIN chnl = ChnlFields /\ DOMAIN local = LocalFields /\ DOMAIN port = PortFields
  BY DEF WinInv, WinTypes
<1>6. UNCHANGED <<way, wdf, req, intr, local, port>>
  BY DEF RiffaThreadEnter, callerVars, fpgaVars
<1>7. CASE chnl.Request = 0 /\ chnl' = chnl /\ Return("dpc")
  <2>1. stack' = [stack EXCEPT !["dpc"] = Tail(s)]
    BY <1>7 DEF Return
  <2>2. Unmoved
    BY <1>5, <1>6, <1>7 DEF Unmoved
  <2> DEFINE r == Tail(s)
  <2> HIDE DEF r
  <2>3. QED BY <1>1, <1>3, <1>4, <2>1, <2>2, QuietDpc DEF r
<1>8. CASE /\ chnl.Request # 0 /\ chnl' = [chnl EXCEPT !.ActiveCount = @ + 1]
           /\ Proceed("dpc")
  <2>1. stack' = [stack EXCEPT !["dpc"] = RestOf(s)]
    BY <1>8 DEF Proceed, Rest, RestOf
  <2>2. /\ ControlInv' /\ stack'["dpc"] = RestOf(s) /\ stack'["ioctl"] = << >>
        /\ stack'["timer"] = stack["timer"] /\ stack'["cancel"] = stack["cancel"]
    BY <1>2, <1>3, <2>1, DpcControl
  <2>3. /\ DOMAIN chnl' = ChnlFields /\ chnl'.ActiveCount = chnl.ActiveCount + 1
        /\ chnl'.InUse = chnl.InUse /\ chnl'.Cancel = chnl.Cancel
        /\ chnl'.Request = chnl.Request /\ chnl'.Length = chnl.Length
    BY <1>5, <1>8 DEF ChnlFields
  <2>4. WinTypes'
    BY <1>6, <2>3 DEF WinInv, WinTypes
  <2>5. ActiveCounted'
    BY <1>2, <1>4, <2>2, <2>3, DpcCounted
  <2>6. LengthInv'
    BY <1>1, <1>3, <1>6, <2>2, <2>3, DpcLengths
  <2>7. RequestInv'
    BY <1>2, <1>6, <1>8, <2>2, <2>3, CallRests DEF WinInv, RequestInv, At, Resting, Current
  <2>8. InUseInv'
    <3>1. ~At("dpc", "complete") /\ ~At("dpc", "complete")'
      BY <1>2, <1>3, <2>2 DEF At, Completing
    <3>2. QED BY <1>2, <1>6, <2>2, <2>3, <3>1, CallRests
              DEF WinInv, InUseInv, At, Resting, Current, IsCancelling
  <2>9. QED BY <2>2, <2>4, <2>5, <2>6, <2>7, <2>8 DEF WinInv
<1>9. QED BY <1>7, <1>8 DEF RiffaThreadEnter

\* RiffaCompleteRequest, applied to a channel that differs in ActiveCount at most.
LEMMA Completes ==
  ASSUME WinInv, NEW c, DOMAIN c = ChnlFields, c.Request = chnl.Request, NEW status,
         RiffaCompleteRequest(c, status)
  PROVE  /\ DOMAIN chnl' = ChnlFields /\ chnl'.InUse = c.InUse /\ chnl'.Cancel = c.Cancel
         /\ chnl'.Length = c.Length /\ chnl'.ActiveCount = c.ActiveCount
         /\ \/ /\ chnl'.Request = chnl.Request /\ req' = req
               /\ chnl.Request = 0 \/ IsCancelling
            \/ /\ chnl.Request = Current /\ Current > 0 /\ chnl'.Request = 0
               /\ Current' = Current /\ IsSequence(req') /\ DOMAIN req' = 1 .. Current
               /\ \A r \in 1 .. Current : /\ DOMAIN req'[r] = ReqFields
                                          /\ req'[r].done \in 0 .. 1
                                          /\ req'[r].mark = req[r].mark
                                          /\ req'[r].cancelled = req[r].cancelled
               /\ req[Current].mark # "cancelling"
<1>1. /\ DOMAIN req = 1 .. Current /\ Current \in Nat
      /\ \A r \in 1 .. Current : req[r].done \in 0 .. 1
      /\ chnl.Request \in {0, Current} /\ (chnl.Request # 0 => req[Current].done = 0)
  BY IsSequenceIf DEF WinInv, WinTypes, RequestInv, IsSequence, Current
<1>2. CASE chnl.Request = 0 \/ req[chnl.Request].mark = "cancelling"
  <2>1. chnl' = c /\ req' = req
    BY <1>2 DEF RiffaCompleteRequest
  <2>2. chnl.Request = 0 \/ IsCancelling
    BY <1>1, <1>2 DEF IsCancelling
  <2>3. QED BY <2>1, <2>2
<1>3. CASE ~(chnl.Request = 0 \/ req[chnl.Request].mark = "cancelling")
  <2>1. /\ chnl' = [c EXCEPT !.Request = 0]
        /\ Complete(chnl.Request, status, c.ConfirmedPrev + c.Confirmed)
    BY <1>3 DEF RiffaCompleteRequest
  <2>2. chnl.Request = Current /\ Current > 0 /\ Current \in DOMAIN req
    BY <1>1, <1>3
  <2>3. /\ DOMAIN chnl' = ChnlFields /\ chnl'.InUse = c.InUse /\ chnl'.Cancel = c.Cancel
        /\ chnl'.Length = c.Length /\ chnl'.ActiveCount = c.ActiveCount /\ chnl'.Request = 0
    BY <2>1 DEF ChnlFields
  <2>4. Complete(Current, status, c.ConfirmedPrev + c.Confirmed) /\ WinTypes
    BY <2>1, <2>2 DEF WinInv
  <2> DEFINE info == c.ConfirmedPrev + c.Confirmed
             n == Current
  <2> HIDE DEF info, n
  <2>5. n \in DOMAIN req /\ Complete(n, status, info)
    BY <2>2, <2>4 DEF n, info
  <2>6. /\ IsSequence(req') /\ Len(req') = Len(req) /\ DOMAIN req' = DOMAIN req
        /\ \A k \in DOMAIN req : /\ DOMAIN req'[k] = ReqFields
                                 /\ req'[k].mark = req[k].mark
                                 /\ req'[k].cancelled = req[k].cancelled
        /\ \A k \in DOMAIN req \ {n} : req'[k] = req[k]
        /\ req[n].done = 0 => req'[n].done = 1
    BY <2>4, <2>5, Completed
  <2>7. \A r \in 1 .. Current : req'[r].done \in 0 .. 1
    BY <1>1, <1>3, <2>6 DEF n
  <2>8. Current' = Current
    BY <2>6 DEF Current
  <2>9. QED BY <1>1, <1>3, <2>2, <2>3, <2>6, <2>7, <2>8
<1>4. QED BY <1>2, <1>3

\* RiffaThreadExit: the last one out serves a cancel that was left to it.
LEMMA DpcExits ==
  ASSUME WinInv, RiffaThreadExit("dpc")
  PROVE  WinInv'
<1> DEFINE s == stack["dpc"]
           c == [chnl EXCEPT !.ActiveCount = @ - 1]
<1>1. At("dpc", "exit")
  BY DEF RiffaThreadExit
<1>2. /\ s # << >> /\ DpcTower(s) /\ Head(Head(s)) = "exit" /\ s \in Seq(Functions)
      /\ stack["ioctl"] = << >> /\ ~Completing(s)
  BY <1>1, AtDpc
<1>3. /\ DpcTower(RestOf(s)) /\ ~Completing(RestOf(s))
      /\ Announcing(RestOf(s)) => Announcing(s)
  BY <1>2, DpcRest
<1>4. Count(RestOf(s)) = Count(s) - 1 /\ Count(s) > 0 /\ Count(s) \in Nat
  BY <1>2, StepCounts
<1>5. /\ DOMAIN chnl = ChnlFields /\ DOMAIN local = LocalFields /\ DOMAIN port = PortFields
  BY DEF WinInv, WinTypes
<1>6. UNCHANGED <<way, wdf, intr, local, port>>
  BY DEF RiffaThreadExit, callerVars, fpgaVars
<1>7. stack' = [stack EXCEPT !["dpc"] = RestOf(s)]
  BY DEF RiffaThreadExit, Proceed, Rest, RestOf
<1>8. /\ ControlInv' /\ stack'["dpc"] = RestOf(s) /\ stack'["ioctl"] = << >>
      /\ stack'["timer"] = stack["timer"] /\ stack'["cancel"] = stack["cancel"]
  BY <1>2, <1>3, <1>7, DpcControl
<1>9. /\ DOMAIN c = ChnlFields /\ c.ActiveCount = chnl.ActiveCount - 1
      /\ c.InUse = chnl.InUse /\ c.Cancel = chnl.Cancel
      /\ c.Request = chnl.Request /\ c.Length = chnl.Length
  BY <1>5 DEF ChnlFields
<1>10. IF c.ActiveCount = 0 /\ c.Cancel = 1 THEN RiffaCompleteRequest(c, "cancelled")
       ELSE chnl' = c /\ req' = req
  BY DEF RiffaThreadExit
<1> HIDE DEF c
<1>11. /\ DOMAIN chnl' = ChnlFields /\ chnl'.ActiveCount = chnl.ActiveCount - 1
       /\ chnl'.InUse = chnl.InUse /\ chnl'.Cancel = chnl.Cancel /\ chnl'.Length = chnl.Length
       /\ \/ chnl'.Request = chnl.Request /\ req' = req
          \/ /\ chnl.Cancel = 1
             /\ chnl.Request = Current /\ Current > 0 /\ chnl'.Request = 0
             /\ Current' = Current /\ IsSequence(req') /\ DOMAIN req' = 1 .. Current
             /\ \A r \in 1 .. Current : /\ DOMAIN req'[r] = ReqFields
                                        /\ req'[r].done \in 0 .. 1
                                        /\ req'[r].mark = req[r].mark
                                        /\ req'[r].cancelled = req[r].cancelled
             /\ req[Current].mark # "cancelling"
  <2>1. CASE c.ActiveCount = 0 /\ c.Cancel = 1
    <3>1. RiffaCompleteRequest(c, "cancelled")
      BY <1>10, <2>1
    <3>2. QED BY <1>9, <2>1, <3>1, Completes
  <2>2. CASE ~(c.ActiveCount = 0 /\ c.Cancel = 1)
    BY <1>9, <1>10, <2>2
  <2>3. QED BY <2>1, <2>2
<1>12. ActiveCounted' /\ chnl.ActiveCount > 0
  <2>1. chnl'.ActiveCount = chnl.ActiveCount + (-1) /\ Count(stack'["dpc"]) = Count(s) + (-1)
    <3>1. chnl.ActiveCount = Count(s)
      <4>1. chnl.ActiveCount = Count(stack["ioctl"]) + Count(stack["dpc"])
        BY DEF WinInv, ActiveCounted, Inside, Count, InsideOf
      <4>2. QED BY <1>2, <1>4, <4>1, CountNothing
    <3>2. QED BY <1>4, <1>8, <1>11, <3>1
  <2>2. ActiveCounted' /\ chnl.ActiveCount = Count(s)
    BY <1>2, <1>4, <1>8, <2>1, DpcCounted
  <2>3. QED BY <1>4, <2>2
<1>13. ~At("cancel", "cancel_cancels") /\ ~At("timer", "timer_cancels")
  BY <1>12 DEF WinInv, RequestInv
<1>14. WinTypes'
  BY <1>6, <1>11 DEF WinInv, WinTypes
<1>15. LengthInv'
  BY <1>1, <1>3, <1>6, <1>8, <1>11, DpcLengths
<1>16. RequestInv'
  BY <1>2, <1>6, <1>8, <1>11, <1>13, CallRests DEF WinInv, RequestInv, At, Resting, Current
<1>17. InUseInv'
  <2>1. ~At("dpc", "complete") /\ ~At("dpc", "complete")'
    BY <1>2, <1>3, <1>8 DEF At, Completing
  <2>2. IsCancelling' <=> IsCancelling
    BY <1>11 DEF IsCancelling, Current
  <2>3. QED BY <1>2, <1>6, <1>8, <1>11, <2>1, <2>2, CallRests
            DEF WinInv, InUseInv, At, Resting
<1>18. QED BY <1>8, <1>12, <1>14, <1>15, <1>16, <1>17 DEF WinInv

\* RiffaCompleteRequest.
LEMMA DpcCompletes ==
  ASSUME WinInv, DpcComplete
  PROVE  WinInv'
<1> DEFINE s == stack["dpc"]
<1>1. At("dpc", "complete")
  BY DEF DpcComplete
<1>2. /\ s # << >> /\ DpcTower(s) /\ Head(Head(s)) = "complete" /\ s \in Seq(Functions)
      /\ stack["ioctl"] = << >>
  BY <1>1, AtDpc
<1>3. /\ DpcTower(RestOf(s)) /\ ~Completing(RestOf(s))
      /\ Announcing(RestOf(s)) => Announcing(s)
  BY <1>2, DpcRest
<1>4. Count(RestOf(s)) = Count(s) /\ Count(s) \in Nat
  BY <1>2, StepCounts
<1>5. /\ DOMAIN chnl = ChnlFields /\ DOMAIN local = LocalFields /\ DOMAIN port = PortFields
  BY DEF WinInv, WinTypes
<1>6. /\ UNCHANGED <<way, wdf, intr, port>>
      /\ DOMAIN local' = LocalFields /\ local'.intr = local.intr /\ local'.size = local.size
      /\ local'.request = local.request
  BY <1>5 DEF DpcComplete, callerVars, LocalFields
<1>7. stack' = [stack EXCEPT !["dpc"] = RestOf(s)]
  BY DEF DpcComplete, Proceed, Rest, RestOf
<1>8. /\ ControlInv' /\ stack'["dpc"] = RestOf(s) /\ stack'["ioctl"] = << >>
      /\ stack'["timer"] = stack["timer"] /\ stack'["cancel"] = stack["cancel"]
  BY <1>2, <1>3, <1>7, DpcControl
<1>9. /\ DOMAIN chnl' = ChnlFields /\ chnl'.InUse = chnl.InUse /\ chnl'.Cancel = chnl.Cancel
      /\ chnl'.Length = chnl.Length /\ chnl'.ActiveCount = chnl.ActiveCount
      /\ \/ /\ chnl'.Request = chnl.Request /\ req' = req
            /\ chnl.Request = 0 \/ IsCancelling
         \/ /\ chnl.Request = Current /\ Current > 0 /\ chnl'.Request = 0
            /\ Current' = Current /\ IsSequence(req') /\ DOMAIN req' = 1 .. Current
            /\ \A r \in 1 .. Current : /\ DOMAIN req'[r] = ReqFields
                                       /\ req'[r].done \in 0 .. 1
                                       /\ req'[r].mark = req[r].mark
                                       /\ req'[r].cancelled = req[r].cancelled
            /\ req[Current].mark # "cancelling"
  BY <1>5, Completes DEF DpcComplete
<1>10. ActiveCounted'
  <2>1. chnl.ActiveCount = Count(stack["ioctl"]) + Count(s)
    BY DEF WinInv, ActiveCounted, Inside, Count, InsideOf
  <2>2. chnl'.ActiveCount = Count(stack'["ioctl"]) + Count(stack'["dpc"])
    BY <1>2, <1>4, <1>8, <1>9, <2>1
  <2>3. QED BY <2>2 DEF ActiveCounted, Inside, Count, InsideOf
<1>11. WinTypes'
  BY <1>6, <1>9 DEF WinInv, WinTypes
<1>12. LengthInv'
  BY <1>1, <1>3, <1>6, <1>8, <1>9, DpcLengths
<1>13. RequestInv'
  BY <1>2, <1>6, <1>8, <1>9, CallRests DEF WinInv, RequestInv, At, Resting, Current
<1>14. InUseInv'
  <2>1. chnl.InUse = 0
    BY <1>1 DEF WinInv, InUseInv
  <2>2. IsCancelling' <=> IsCancelling
    BY <1>9 DEF IsCancelling, Current
  <2>3. QED BY <1>2, <1>8, <1>9, <2>1, <2>2, CallRests DEF InUseInv, At, Resting
<1>15. QED BY <1>8, <1>10, <1>11, <1>12, <1>13, <1>14 DEF WinInv

\* RiffaTransactionComplete completes the request or waits for more.
LEMMA DpcEndsOrRepeats ==
  ASSUME WinInv, DpcCompleteOrRepeat
  PROVE  WinInv'
<1> DEFINE s == stack["dpc"]
<1>1. At("dpc", "complete_or_repeat")
  BY DEF DpcCompleteOrRepeat
<1>2. /\ s # << >> /\ DpcTower(s) /\ Head(Head(s)) = "complete_or_repeat" /\ s \in Seq(Functions)
      /\ stack["ioctl"] = << >> /\ ~Completing(s)
  BY <1>1, AtDpc
<1>3. /\ DOMAIN chnl = ChnlFields /\ DOMAIN local = LocalFields /\ DOMAIN port = PortFields
  BY DEF WinInv, WinTypes
<1>4. UNCHANGED <<way, req, intr, local, port>>
  BY DEF DpcCompleteOrRepeat, callerVars, fpgaVars
<1>5. CASE way = "send" \/ chnl.Last \/ local.status # "success"
  <2> DEFINE e == << <<"complete">> >> \o RestOf(s)
  <2>1. chnl' = [chnl EXCEPT !.Confirmed = local.tnfr, !.InUse = 0] /\ Call("dpc", <<"complete">>)
    BY <1>5 DEF DpcCompleteOrRepeat
  <2>2. stack' = [stack EXCEPT !["dpc"] = e]
    BY <2>1 DEF Call, Rest, RestOf
  <2>3. <<"complete">> \in Called
    BY DEF Called
  <2>4. /\ DpcTower(e) /\ e # << >> /\ Head(e) = <<"complete">>
        /\ Announcing(e) => Announcing(s)
        /\ Count(e) = Count(s)
    BY <1>2, <2>3, DpcCall
  <2> HIDE DEF e
  <2>5. /\ ControlInv' /\ stack'["dpc"] = e /\ stack'["ioctl"] = << >>
        /\ stack'["timer"] = stack["timer"] /\ stack'["cancel"] = stack["cancel"]
    BY <1>2, <2>2, <2>4, DpcControl
  <2>6. /\ DOMAIN chnl' = ChnlFields /\ chnl'.InUse = 0 /\ chnl'.Cancel = chnl.Cancel
        /\ chnl'.Request = chnl.Request /\ chnl'.ActiveCount = chnl.ActiveCount
        /\ chnl'.Length = chnl.Length
    BY <1>3, <2>1 DEF ChnlFields
  <2>7. WinTypes'
    BY <1>4, <2>6 DEF WinInv, WinTypes
  <2>8. ActiveCounted'
    <3>1. chnl.ActiveCount = Count(stack["ioctl"]) + Count(s)
      BY DEF WinInv, ActiveCounted, Inside, Count, InsideOf
    <3>2. chnl'.ActiveCount = Count(stack'["ioctl"]) + Count(stack'["dpc"])
      BY <1>2, <2>4, <2>5, <2>6, <3>1
    <3>3. QED BY <3>2 DEF ActiveCounted, Inside, Count, InsideOf
  <2>9. LengthInv'
    BY <1>1, <1>4, <2>4, <2>5, <2>6, DpcLengths
  <2>10. RequestInv'
    BY <1>2, <1>4, <2>5, <2>6, CallRests DEF WinInv, RequestInv, At, Resting, Current
  <2>11. InUseInv'
    <3>1. At("dpc", "complete")'
      BY <2>4, <2>5 DEF At
    <3>2. QED BY <2>5, <2>6, <3>1, CallRests DEF InUseInv
  <2>12. QED BY <2>5, <2>7, <2>8, <2>9, <2>10, <2>11 DEF WinInv
<1>6. CASE ~(way = "send" \/ chnl.Last \/ local.status # "success")
  <2>1. /\ chnl' = [chnl EXCEPT !.ConfirmedPrev = @ + local.tnfr, !.Confirmed = 0,
                                !.ProvidedPrev = 0, !.Provided = 0,
                                !.Ready = IF @ = 0 THEN 1 ELSE 0]
        /\ IF chnl.Ready # 0 THEN Call("dpc", RiffaStartRecvTransaction) ELSE Proceed("dpc")
    BY <1>6 DEF DpcCompleteOrRepeat
  <2>2. Unmoved
    BY <1>3, <1>4, <2>1 DEF Unmoved, ChnlFields
  <2>3. RiffaStartRecvTransaction \in Called \ {<<"complete">>}
    BY DEF Called, RiffaStartRecvTransaction
  <2>4. QED BY <1>1, <2>1, <2>2, <2>3, QuietStep
<1>7. QED BY <1>5, <1>6

\* The new transaction comes last.
LEMMA NewTxnLast ==
  ASSUME NEW s, DpcTower(s), s # << >>, Head(Head(s)) = "new_txn"
  PROVE  Announcing(s) /\ RestOf(s) = << >> /\ Count(s) = 0
<1> DEFINE f == Head(s)
           l == Len(s)
           F == DpcEvents \cup DpcHelpers
<1>1. s \in Seq(Functions) /\ f \in Functions
  BY DpcRest
<1>2. l \in Nat /\ l > 0 /\ f = s[1] /\ Len(Tail(s)) = l - 1 /\ Tail(s) \in Seq(Functions)
  BY <1>1, Pop
<1>3. f \notin DpcHelpers /\ f = <<"new_txn">>
  <2>1. f \notin Adding /\ f \notin Starting /\ f \notin Ending
    BY AddingHeads, StartingHeads, EndingHeads
  <2>2. f \notin Mapping \cup Left1("start_recv") \cup Left1("complete")
                   \cup Left2("reqd_done", "dma_completed")
                   \cup Left2("program_dma", "not_complete") \cup Works
    BY OtherHeads
  <2>3. f \in DpcEvents
    BY <1>1, <2>1, <2>2, FunctionKinds
  <2>4. f = <<"new_txn">>
    BY <2>3, EventHeads
  <2>5. QED BY <2>1, <2>2, <2>4 DEF DpcHelpers
<1>4. l = 1
  <2>1. \A k \in 1 .. l : k < l => s[k] \in DpcHelpers
    BY DEF DpcTower, Tower
  <2> HIDE DEF f, l
  <2>2. 1 \in 1 .. l
    BY <1>2
  <2>3. 1 < l => f \in DpcHelpers
    BY <1>2, <2>1, <2>2
  <2>4. f \notin DpcHelpers /\ l \in Nat /\ l > 0
    BY <1>2, <1>3
  <2>5. QED BY <2>3, <2>4
<1>5. Len(f) = 1
  BY <1>3
<1>6. RestOf(s) = << >>
  <2>1. RestOf(s) = Tail(s)
    BY <1>5 DEF RestOf
  <2>2. QED BY <1>2, <1>4, <2>1, EmptySeq
<1>7. Announcing(s)
  <2>1. Has(<<"new_txn">>, "new_txn")
    BY Has1, StepNames
  <2>2. s[Len(s)] = <<"new_txn">>
    BY <1>2, <1>3, <1>4
  <2>3. QED BY <2>1, <2>2 DEF Announcing
<1>8. Count(s) = 0
  BY <1>1, <1>6, StepCounts, CountNothing
<1>9. QED BY <1>6, <1>7, <1>8

\* A new transaction.
LEMMA DpcAnnounces ==
  ASSUME WinInv, DpcNewTxn
  PROVE  WinInv'
<1> DEFINE s == stack["dpc"]
           e == IF chnl.Ready = 1 THEN <<RiffaStartRecvTransaction>> \o RestOf(s) ELSE RestOf(s)
<1>1. At("dpc", "new_txn")
  BY DEF DpcNewTxn
<1>2. /\ s # << >> /\ DpcTower(s) /\ Head(Head(s)) = "new_txn" /\ s \in Seq(Functions)
      /\ stack["ioctl"] = << >> /\ ~Completing(s)
  BY <1>1, AtDpc
<1>3. Announcing(s) /\ RestOf(s) = << >> /\ Count(s) = 0
  BY <1>2, NewTxnLast
<1>4. /\ DOMAIN chnl = ChnlFields /\ DOMAIN local = LocalFields /\ DOMAIN port = PortFields
  BY DEF WinInv, WinTypes
<1>5. UNCHANGED <<way, req, intr, port>>
  BY DEF DpcNewTxn, callerVars, fpgaVars
<1>6. stack' = [stack EXCEPT !["dpc"] = e]
  BY DEF DpcNewTxn, Call, Proceed, Rest, RestOf
<1>7. DpcTower(e) /\ ~Completing(e) /\ ~Announcing(e) /\ Count(e) = Count(s)
  <2>1. RiffaStartRecvTransaction \in Called \ {<<"complete">>}
    BY DEF Called, RiffaStartRecvTransaction
  <2>2. CASE chnl.Ready = 1
    <3> DEFINE p == <<RiffaStartRecvTransaction>> \o RestOf(s)
    <3>1. DpcTower(p) /\ ~Completing(p) /\ Count(p) = Count(s)
      BY <1>2, <2>1, DpcCall
    <3>2. ~Announcing(p)
      <4>1. << >> \in Seq(Functions)
        OBVIOUS
      <4>2. ~Announcing(<< >>)
        BY DEF Announcing
      <4>3. ~Announcing(<<RiffaStartRecvTransaction>> \o << >>)
        BY <2>1, <4>1, <4>2, CalledFunctions, AnnouncingPush
      <4>4. QED BY <1>3, <4>3
    <3>3. e = p
      BY <2>2
    <3> HIDE DEF p, e
    <3>4. QED BY <3>1, <3>2, <3>3
  <2>3. CASE chnl.Ready # 1
    <3>1. e = << >>
      BY <1>3, <2>3
    <3>2. DpcTower(RestOf(s))
      BY <1>2, DpcRest
    <3> HIDE DEF e
    <3>3. QED BY <1>3, <3>1, <3>2, CountNothing DEF Completing, Announcing
  <2>4. QED BY <2>2, <2>3
<1> HIDE DEF e
<1>8. /\ ControlInv' /\ stack'["dpc"] = e /\ stack'["ioctl"] = << >>
      /\ stack'["timer"] = stack["timer"] /\ stack'["cancel"] = stack["cancel"]
  BY <1>2, <1>6, <1>7, DpcControl
<1>9. local.intr.Length \in Nat \ {0}
  BY <1>3 DEF WinInv, LengthInv
<1>10. /\ DOMAIN chnl' = ChnlFields /\ chnl'.InUse = chnl.InUse /\ chnl'.Cancel = chnl.Cancel
       /\ chnl'.Request = chnl.Request /\ chnl'.ActiveCount = chnl.ActiveCount
       /\ chnl'.Length \in Nat \ {0}
       /\ DOMAIN local' = LocalFields /\ local'.request = local.request
  BY <1>4, <1>9 DEF DpcNewTxn, ChnlFields, LocalFields
<1>11. WinTypes'
  BY <1>5, <1>10 DEF WinInv, WinTypes
<1>12. ActiveCounted'
  <2>1. chnl.ActiveCount = Count(stack["ioctl"]) + Count(s)
    BY DEF WinInv, ActiveCounted, Inside, Count, InsideOf
  <2>2. chnl'.ActiveCount = Count(stack'["ioctl"]) + Count(stack'["dpc"])
    BY <1>2, <1>7, <1>8, <1>10, <2>1
  <2>3. QED BY <2>2 DEF ActiveCounted, Inside, Count, InsideOf
<1>13. LengthInv'
  BY <1>5, <1>7, <1>8, <1>10 DEF WinInv, LengthInv
<1>14. RequestInv'
  BY <1>2, <1>5, <1>8, <1>10, CallRests DEF WinInv, RequestInv, At, Resting, Current
<1>15. InUseInv'
  <2>1. ~At("dpc", "complete") /\ ~At("dpc", "complete")'
    BY <1>2, <1>7, <1>8 DEF At, Completing
  <2>2. QED BY <1>2, <1>5, <1>8, <1>10, <2>1, CallRests
            DEF WinInv, InUseInv, At, Resting, Current, IsCancelling
<1>16. QED BY <1>8, <1>11, <1>12, <1>13, <1>14, <1>15 DEF WinInv

\* RiffaEvtInterruptDpc copies IntrData: it has an event, and a length if one is announced.
LEMMA DpcBegins ==
  ASSUME WinInv, OneAtATime, RiffaEvtInterruptDpc
  PROVE  WinInv'
<1> DEFINE p == IF intr.SgRead THEN <<"sg_read">> ELSE << >>
           q == IF intr.Done THEN <<"done">> ELSE << >>
           r == IF intr.NewTxn THEN <<"new_txn">> ELSE << >>
           todo == p \o q \o r
           e == <<todo>>
<1>1. stack["ioctl"] = << >> /\ stack["dpc"] = << >> /\ intr # NoIntr
  BY DEF RiffaEvtInterruptDpc, OneAtATime, Resting
<1>2. /\ DOMAIN chnl = ChnlFields /\ DOMAIN local = LocalFields /\ DOMAIN port = PortFields
      /\ intr.NewTxn \/ intr.SgRead \/ intr.Done
  BY <1>1 DEF WinInv, WinTypes
<1>3. UNCHANGED <<way, chnl, req, port>> /\ intr' = NoIntr
  BY DEF RiffaEvtInterruptDpc, callerVars, fpgaVars
<1>5. stack' = [stack EXCEPT !["dpc"] = e]
  BY DEF RiffaEvtInterruptDpc
<1> HIDE DEF todo
<1>4. /\ todo \in DpcEvents
      /\ \A x : Has(todo, x) <=> \/ x = "sg_read" /\ intr.SgRead
                                 \/ x = "done" /\ intr.Done
                                 \/ x = "new_txn" /\ intr.NewTxn
      /\ ~intr.SgRead /\ ~intr.Done => todo = <<"new_txn">>
  <2>1. CASE intr.SgRead /\ intr.Done /\ intr.NewTxn
    <3>1. p = <<"sg_read">> /\ q = <<"done">> /\ r = <<"new_txn">>
      BY <2>1
    <3> HIDE DEF p, q, r
    <3>2. todo = <<"sg_read", "done", "new_txn">>
      <4>1. <<"sg_read">> \o <<"done">> = <<"sg_read", "done">>
        BY StepNames, Joined
      <4>2. <<"sg_read", "done">> \o <<"new_txn">> = <<"sg_read", "done", "new_txn">>
        BY StepNames, JoinedTwoAndOne
      <4>3. QED BY <3>1, <4>1, <4>2, Zenon DEF todo
    <3>3. {"sg_read", "done", "new_txn"} \subseteq Steps
      BY StepNames
    <3>4. \A x : Has(<<"sg_read", "done", "new_txn">>, x) <=> x \in {"sg_read", "done", "new_txn"}
      BY <3>3, Has3
    <3>5. <<"sg_read", "done", "new_txn">> \in DpcEvents
      BY DEF DpcEvents, Left1, Left2
    <3>6. QED BY <2>1, <3>2, <3>4, <3>5
  <2>2. CASE intr.SgRead /\ intr.Done /\ ~intr.NewTxn
    <3>1. p = <<"sg_read">> /\ q = <<"done">> /\ r = << >>
      BY <2>2
    <3> HIDE DEF p, q, r
    <3>2. todo = <<"sg_read", "done">>
      <4>1. <<"sg_read">> \o <<"done">> = <<"sg_read", "done">>
        BY StepNames, Joined
      <4>2. /\ <<"sg_read", "done">> \o << >> = <<"sg_read", "done">>
            /\ <<"sg_read">> \o << >> = <<"sg_read">>
            /\ << >> \o <<"sg_read">> = <<"sg_read">>
        BY StepNames, JoinedWithNone, Zenon
      <4>3. QED BY <3>1, <4>1, <4>2, Zenon DEF todo
    <3>3. {"sg_read", "done"} \subseteq Steps
      BY StepNames
    <3>4. \A x : Has(<<"sg_read", "done">>, x) <=> x \in {"sg_read", "done"}
      BY <3>3, Has2
    <3>5. <<"sg_read", "done">> \in DpcEvents
      BY DEF DpcEvents, Left1, Left2
    <3>6. QED BY <2>2, <3>2, <3>4, <3>5
  <2>3. CASE intr.SgRead /\ ~intr.Done /\ intr.NewTxn
    <3>1. p = <<"sg_read">> /\ q = << >> /\ r = <<"new_txn">>
      BY <2>3
    <3> HIDE DEF p, q, r
    <3>2. todo = <<"sg_read", "new_txn">>
      <4>1. <<"sg_read">> \o <<"new_txn">> = <<"sg_read", "new_txn">>
        BY StepNames, Joined
      <4>2. /\ <<"sg_read", "new_txn">> \o << >> = <<"sg_read", "new_txn">>
            /\ <<"sg_read">> \o << >> = <<"sg_read">>
            /\ << >> \o <<"sg_read">> = <<"sg_read">>
        BY StepNames, JoinedWithNone, Zenon
      <4>3. QED BY <3>1, <4>1, <4>2, Zenon DEF todo
    <3>3. {"sg_read", "new_txn"} \subseteq Steps
      BY StepNames
    <3>4. \A x : Has(<<"sg_read", "new_txn">>, x) <=> x \in {"sg_read", "new_txn"}
      BY <3>3, Has2
    <3>5. <<"sg_read", "new_txn">> \in DpcEvents
      BY DEF DpcEvents, Left1, Left2
    <3>6. QED BY <2>3, <3>2, <3>4, <3>5
  <2>4. CASE ~intr.SgRead /\ intr.Done /\ intr.NewTxn
    <3>1. p = << >> /\ q = <<"done">> /\ r = <<"new_txn">>
      BY <2>4
    <3> HIDE DEF p, q, r
    <3>2. todo = <<"done", "new_txn">>
      <4>1. <<"done">> \o <<"new_txn">> = <<"done", "new_txn">>
        BY StepNames, Joined
      <4>2. /\ <<"done", "new_txn">> \o << >> = <<"done", "new_txn">>
            /\ <<"done">> \o << >> = <<"done">>
            /\ << >> \o <<"done">> = <<"done">>
        BY StepNames, JoinedWithNone, Zenon
      <4>3. QED BY <3>1, <4>1, <4>2, Zenon DEF todo
    <3>3. {"done", "new_txn"} \subseteq Steps
      BY StepNames
    <3>4. \A x : Has(<<"done", "new_txn">>, x) <=> x \in {"done", "new_txn"}
      BY <3>3, Has2
    <3>5. <<"done", "new_txn">> \in DpcEvents
      BY DEF DpcEvents, Left1, Left2
    <3>6. QED BY <2>4, <3>2, <3>4, <3>5
  <2>5. CASE intr.SgRead /\ ~intr.Done /\ ~intr.NewTxn
    <3>1. p = <<"sg_read">> /\ q = << >> /\ r = << >>
      BY <2>5
    <3> HIDE DEF p, q, r
    <3>2. todo = <<"sg_read">>
      BY <3>1, StepNames, Joined, JoinedWithNone DEF todo
    <3>3. {"sg_read"} \subseteq Steps
      BY StepNames
    <3>4. \A x : Has(<<"sg_read">>, x) <=> x \in {"sg_read"}
      BY <3>3, Has1
    <3>5. <<"sg_read">> \in DpcEvents
      BY DEF DpcEvents, Left1, Left2
    <3>6. QED BY <2>5, <3>2, <3>4, <3>5
  <2>6. CASE ~intr.SgRead /\ intr.Done /\ ~intr.NewTxn
    <3>1. p = << >> /\ q = <<"done">> /\ r = << >>
      BY <2>6
    <3> HIDE DEF p, q, r
    <3>2. todo = <<"done">>
      BY <3>1, StepNames, Joined, JoinedWithNone DEF todo
    <3>3. {"done"} \subseteq Steps
      BY StepNames
    <3>4. \A x : Has(<<"done">>, x) <=> x \in {"done"}
      BY <3>3, Has1
    <3>5. <<"done">> \in DpcEvents
      BY DEF DpcEvents, Left1, Left2
    <3>6. QED BY <2>6, <3>2, <3>4, <3>5
  <2>7. CASE ~intr.SgRead /\ ~intr.Done /\ intr.NewTxn
    <3>1. p = << >> /\ q = << >> /\ r = <<"new_txn">>
      BY <2>7
    <3> HIDE DEF p, q, r
    <3>2. todo = <<"new_txn">>
      BY <3>1, StepNames, Joined, JoinedWithNone DEF todo
    <3>3. {"new_txn"} \subseteq Steps
      BY StepNames
    <3>4. \A x : Has(<<"new_txn">>, x) <=> x \in {"new_txn"}
      BY <3>3, Has1
    <3>5. <<"new_txn">> \in DpcEvents
      BY DEF DpcEvents, Left1, Left2
    <3>6. QED BY <2>7, <3>2, <3>4, <3>5
  <2>8. QED BY <1>2, <2>1, <2>2, <2>3, <2>4, <2>5, <2>6, <2>7
<1>6. /\ DpcTower(e) /\ ~Completing(e) /\ Count(e) = 0
      /\ Announcing(e) <=> intr.NewTxn
  <2>1. todo \in Functions /\ Head(todo) # "complete"
    BY <1>4, EventHeads DEF Functions
  <2>2. /\ e \in Seq(DpcHelpers \cup (DpcEvents \cup DpcHelpers)) /\ Len(e) = 1 /\ e[1] = todo
        /\ Head(e) = todo /\ e # << >>
    BY <1>4
  <2>3. DpcTower(e)
    BY <1>4, <2>2 DEF DpcTower, Tower
  <2>4. ~Completing(e) /\ (Announcing(e) <=> intr.NewTxn)
    BY <1>4, <2>1, <2>2 DEF Completing, Announcing
  <2>5. Count(e) = 0
    <3>1. One(todo) = 0
      BY <1>4 DEF One, IsInside
    <3>2. << >> \in Seq(Functions)
      OBVIOUS
    <3>3. <<todo>> \o << >> = e
      OBVIOUS
    <3>4. Count(<<todo>> \o << >>) = 0
      <4> HIDE DEF e
      <4>1. Count(<<todo>> \o << >>) = One(todo) + Count(<< >>)
        BY <3>2, CountPush, Zenon
      <4>2. QED BY <3>1, <4>1, CountNothing
    <3>5. QED BY <3>3, <3>4
  <2>6. QED BY <2>3, <2>4, <2>5
<1> HIDE DEF e
<1>7. /\ ControlInv' /\ stack'["dpc"] = e /\ stack'["ioctl"] = << >>
      /\ stack'["timer"] = stack["timer"] /\ stack'["cancel"] = stack["cancel"]
  BY <1>1, <1>5, <1>6, DpcControl
<1>8. /\ DOMAIN local' = LocalFields /\ local'.request = local.request
      /\ intr.NewTxn => local'.intr = intr
  BY <1>2 DEF RiffaEvtInterruptDpc, LocalFields
<1>9. WinTypes'
  BY <1>3, <1>8 DEF WinInv, WinTypes, NoIntr, IntrFields
<1>10. ActiveCounted'
  <2>1. chnl.ActiveCount = Count(stack["ioctl"]) + Count(stack["dpc"])
    BY DEF WinInv, ActiveCounted, Inside, Count, InsideOf
  <2>2. chnl'.ActiveCount = Count(stack'["ioctl"]) + Count(stack'["dpc"])
    BY <1>1, <1>3, <1>6, <1>7, <2>1, CountNothing
  <2>3. QED BY <2>2 DEF ActiveCounted, Inside, Count, InsideOf
<1>11. LengthInv'
  <2>1. ~intr.SgRead /\ ~intr.Done => e = << <<"new_txn">> >>
    BY <1>4 DEF e
  <2>2. QED BY <1>3, <1>6, <1>7, <1>8, <2>1, CallRests DEF WinInv, LengthInv, NoIntr
<1>12. RequestInv'
  BY <1>1, <1>3, <1>7, <1>8, CallRests DEF WinInv, RequestInv, At, Resting, Current
<1>13. InUseInv'
  <2>1. ~At("dpc", "complete") /\ ~At("dpc", "complete")'
    BY <1>1, <1>6, <1>7 DEF At, Completing
  <2>2. QED BY <1>1, <1>3, <1>7, <2>1, CallRests
            DEF WinInv, InUseInv, At, Resting, Current, IsCancelling
<1>14. QED BY <1>7, <1>9, <1>10, <1>11, <1>12, <1>13 DEF WinInv

\* Every step of the deferred procedure call keeps the invariant.
LEMMA DpcKeeps ==
  ASSUME WinInv, OneAtATime, Dpc
  PROVE  WinInv'
<1>1. CASE \/ Quietly("dpc") \/ DpcSgRead \/ DpcDone \/ DpcReqdDone \/ DpcDmaCompleted
           \/ DpcNotComplete \/ DpcRelease
  BY <1>1, DpcQuietly
<1>2. QED BY <1>1, DpcBegins, DpcEnters, DpcExits, DpcEndsOrRepeats, DpcCompletes, DpcAnnounces
          DEF Dpc, AnyThread, Quietly

-----------------------------------------------------------------------------
(* The interrupt and the FPGA, which touch no thread.                      *)

\* A step of no thread of the driver.
LEMMA NoThread ==
  ASSUME WinInv, UNCHANGED <<way, chnl, req, stack, local>>, WinTypes', LengthInv'
  PROVE  WinInv'
<1>1. ControlInv'
  BY DEF WinInv, ControlInv, Resting, Claiming, SettingUp, Working, Resetting
<1>2. RequestInv'
  BY DEF WinInv, RequestInv, Resting, Claiming, SettingUp, Working, At, Current
<1>3. InUseInv'
  BY DEF WinInv, InUseInv, Resting, SettingUp, Working, At, IsCancelling, Current
<1>4. ActiveCounted'
  BY DEF WinInv, ActiveCounted, Inside
<1>5. QED BY <1>1, <1>2, <1>3, <1>4 DEF WinInv

\* What the FPGA does once it has been given something.
LEMMA PortStep ==
  ASSUME WinInv, FetchSg \/ MovePage \/ PartialDone \/ PortDone
  PROVE  WinInv'
<1>1. UNCHANGED <<way, chnl, req, stack, local, intr>>
  BY DEF FetchSg, MovePage, PartialDone, PortDone, callerVars
<1>2. DOMAIN port = PortFields /\ port.vect \subseteq {"txn", "sg", "done"} /\ chnl.Length # 0
  BY DEF FetchSg, MovePage, PartialDone, PortDone, WinInv, WinTypes, LengthInv
<1>3. /\ DOMAIN port' = PortFields /\ port'.len = port.len
      /\ port'.vect \in {port.vect, port.vect \cup {"sg"}, port.vect \cup {"done"}}
  BY <1>2 DEF FetchSg, MovePage, PartialDone, PortDone, PortFields, Raises
<1>4. WinTypes'
  <2>1. port'.vect \subseteq {"txn", "sg", "done"}
    BY <1>2, <1>3
  <2>2. QED BY <1>1, <1>3, <2>1 DEF WinInv, WinTypes, NoIntr, IsSequence
<1>5. LengthInv'
  <2>1. "txn" \in port'.vect => "txn" \in port.vect
    BY <1>3
  <2>2. QED BY <1>1, <1>2, <1>3, <2>1 DEF WinInv, LengthInv
<1>6. QED BY <1>1, <1>4, <1>5, NoThread

\* The application behind the FPGA starts a transaction.
LEMMA Announces ==
  ASSUME WinInv, OneAtATime, NEW n \in Lengths, NEW last \in Lasts, AppSends(n, last)
  PROVE  WinInv'
<1>1. UNCHANGED <<way, chnl, req, stack, local, intr>>
  BY DEF AppSends, callerVars
<1>2. DOMAIN port = PortFields /\ port.vect \subseteq {"txn", "sg", "done"}
  BY DEF WinInv, WinTypes
<1>3. /\ DOMAIN port' = PortFields /\ port'.len = n /\ port'.st = "new" /\ port'.sg = << >>
      /\ port'.request = << >> /\ ~port'.partial /\ port'.vect = port.vect \cup {"txn"}
      /\ way = "recv"
  BY <1>2 DEF AppSends, PortFields, Raises
<1>4. n \in Nat \ {0}
  BY WinAssumption DEF OneAtATime
<1>5. WinTypes'
  <2>1. port'.vect \subseteq {"txn", "sg", "done"}
    BY <1>2, <1>3
  <2>2. QED BY <1>1, <1>3, <2>1 DEF WinInv, WinTypes, NoIntr, IsSequence
<1>6. LengthInv'
  <2>1. port.vect \subseteq {"txn"} => port'.vect \subseteq {"txn"}
    BY <1>3
  <2> HIDE WinAssumption
  <2>2. QED BY <1>1, <1>3, <1>4, <2>1 DEF WinInv, LengthInv, Working
<1>7. QED BY <1>1, <1>5, <1>6, NoThread

\* RiffaEvtInterruptIsr gathers the vectors.
LEMMA IsrKeeps ==
  ASSUME WinInv, RiffaEvtInterruptIsr
  PROVE  WinInv'
<1>1. UNCHANGED <<way, chnl, req, stack, local>>
  BY DEF RiffaEvtInterruptIsr, callerVars
<1>2. /\ DOMAIN port = PortFields /\ DOMAIN intr = IntrFields
      /\ port.vect \subseteq {"txn", "sg", "done"} /\ port.vect # {}
      /\ intr.NewTxn \in BOOLEAN /\ intr.SgRead \in BOOLEAN /\ intr.Done \in BOOLEAN
  BY DEF RiffaEvtInterruptIsr, WinInv, WinTypes
<1>3. /\ DOMAIN intr' = IntrFields
      /\ intr'.SgRead = (intr.SgRead \/ "sg" \in port.vect)
      /\ intr'.Done = (intr.Done \/ "done" \in port.vect)
      /\ intr'.NewTxn = (intr.NewTxn \/ "txn" \in port.vect)
      /\ intr'.Length = IF "txn" \in port.vect THEN port.len ELSE intr.Length
  BY <1>2 DEF RiffaEvtInterruptIsr, IntrFields
<1>4. /\ DOMAIN port' = PortFields /\ port'.vect = {} /\ port'.len = port.len
      /\ port'.sg = port.sg /\ port'.request = port.request /\ port'.partial = port.partial
      /\ port'.st = IF "txn" \notin port.vect \/ port.st # "new" THEN port.st
                    ELSE IF port.len = 0 THEN "moved" ELSE "write"
  BY <1>2 DEF RiffaEvtInterruptIsr, PortFields
<1>5. WinTypes'
  <2>1. intr'.NewTxn \/ intr'.SgRead \/ intr'.Done
    BY <1>2, <1>3
  <2>2. intr'.NewTxn \in BOOLEAN /\ intr'.SgRead \in BOOLEAN /\ intr'.Done \in BOOLEAN
    BY <1>2, <1>3
  <2>3. QED BY <1>1, <1>3, <1>4, <2>1, <2>2 DEF WinInv, WinTypes, IsSequence
<1>6. LengthInv'
  <2>1. "txn" \in port.vect => port.len \in Nat \ {0}
    BY DEF WinInv, LengthInv
  <2>2. intr'.NewTxn => intr'.Length \in Nat \ {0}
    BY <1>3, <2>1 DEF WinInv, LengthInv
  <2>3. chnl.Length = 0 =>
          /\ port.vect \subseteq {"txn"} /\ ~intr.SgRead /\ ~intr.Done /\ port.st # "moved"
          /\ port.sg = << >> /\ port.request = << >> /\ ~port.partial
    BY DEF WinInv, LengthInv
  <2>4. chnl.Length = 0 => port'.st # "moved" /\ ~intr'.SgRead /\ ~intr'.Done
    BY <1>3, <1>4, <2>1, <2>3
  <2>5. QED BY <1>1, <1>4, <2>2, <2>3, <2>4 DEF WinInv, LengthInv, Working
<1>7. QED BY <1>1, <1>5, <1>6, NoThread

-----------------------------------------------------------------------------
(* The timer and the cancel callback, while the call rests.                *)
TimerStacks == {<< >>, <<RiffaEvtTimerFunc>>, << <<"timer_cancels">> >>}
CancelStacks == {<< >>, <<RiffaEvtRequestCancel>>, << <<"cancel_cancels">> >>}

\* The stacks of the timer and of the cancel callback.
LEMMA AsideStacks ==
  /\ ~(<< <<"timer_cancels">> >> = << >>) /\ ~(<< <<"cancel_cancels">> >> = << >>)
  /\ <<RiffaEvtTimerFunc>> # << >> /\ <<RiffaEvtRequestCancel>> # << >>
  /\ Head(Head(<<RiffaEvtTimerFunc>>)) = "timer_looks"
  /\ Head(Head(<< <<"timer_cancels">> >>)) = "timer_cancels"
  /\ Head(Head(<<RiffaEvtRequestCancel>>)) = "cancel_looks"
  /\ Head(Head(<< <<"cancel_cancels">> >>)) = "cancel_cancels"
  /\ RestOf(<<RiffaEvtTimerFunc>>) = << <<"timer_cancels">> >>
  /\ Tail(<<RiffaEvtTimerFunc>>) = << >>
  /\ RestOf(<< <<"timer_cancels">> >>) = << >>
  /\ RestOf(<<RiffaEvtRequestCancel>>) = << <<"cancel_cancels">> >>
  /\ Tail(<<RiffaEvtRequestCancel>>) = << >>
  /\ RestOf(<< <<"cancel_cancels">> >>) = << >>
  BY DEF RestOf, RiffaEvtTimerFunc, RiffaEvtRequestCancel

\* The call and the deferred procedure call are where they were.
LEMMA Aside ==
  ASSUME WinInv, stack["ioctl"] = << >>, NEW t \in {"timer", "cancel"}, NEW e,
         stack' = [stack EXCEPT ![t] = e],
         t = "timer" => e \in TimerStacks, t = "cancel" => e \in CancelStacks,
         UNCHANGED <<way, intr, port>>, local'.intr = local.intr,
         chnl'.Length = chnl.Length, chnl'.Ready = chnl.Ready \/ chnl'.Ready = 0
  PROVE  /\ ControlInv' /\ LengthInv' /\ stack'["ioctl"] = << >>
         /\ stack'["dpc"] = stack["dpc"] /\ stack'[t] = e
         /\ t = "timer" => stack'["cancel"] = stack["cancel"]
         /\ t = "cancel" => stack'["timer"] = stack["timer"]
         /\ chnl'.ActiveCount = chnl.ActiveCount => ActiveCounted'
<1>1. DOMAIN stack = Threads /\ t \in Threads
  BY DEF WinInv, ControlInv, Threads
<1>2. /\ DOMAIN stack' = Threads /\ stack'[t] = e
      /\ \A u \in Threads \ {t} : stack'[u] = stack[u]
  BY <1>1, StackUpdate
<1>3. /\ stack'["ioctl"] = << >> /\ stack'["dpc"] = stack["dpc"]
      /\ t = "timer" => stack'["cancel"] = stack["cancel"]
      /\ t = "cancel" => stack'["timer"] = stack["timer"]
  BY <1>2 DEF Threads
<1>4. ControlInv'
  <2>1. stack'["timer"] \in TimerStacks /\ stack'["cancel"] \in CancelStacks
    BY <1>2, <1>3 DEF WinInv, ControlInv, TimerStacks, CancelStacks
  <2>2. QED BY <1>2, <1>3, <2>1, CallRests DEF WinInv, ControlInv, TimerStacks, CancelStacks
<1>5. LengthInv'
  BY <1>3, CallRests DEF WinInv, LengthInv
<1>6. chnl'.ActiveCount = chnl.ActiveCount => ActiveCounted'
  BY <1>3 DEF WinInv, ActiveCounted, Inside
<1>7. QED BY <1>2, <1>3, <1>4, <1>5, <1>6

\* The timer expires.
LEMMA ExpiresKeeps ==
  ASSUME WinInv, OneAtATime, TimerExpires
  PROVE  WinInv'
<1>1. stack["ioctl"] = << >> /\ stack["timer"] = << >>
  BY DEF TimerExpires, OneAtATime, Resting
<1>2. /\ UNCHANGED <<way, intr, port, local, chnl, req>>
      /\ stack' = [stack EXCEPT !["timer"] = <<RiffaEvtTimerFunc>>]
  BY DEF TimerExpires, callerVars
<1>3. /\ ControlInv' /\ LengthInv' /\ stack'["ioctl"] = << >> /\ stack'["dpc"] = stack["dpc"]
      /\ stack'["timer"] = <<RiffaEvtTimerFunc>> /\ stack'["cancel"] = stack["cancel"]
      /\ ActiveCounted'
  <2>1. <<RiffaEvtTimerFunc>> \in TimerStacks
    BY DEF TimerStacks
  <2>2. QED BY <1>1, <1>2, <2>1, Aside
<1>4. ~At("timer", "timer_cancels") /\ ~At("timer", "timer_cancels")'
  BY <1>1, <1>3, AsideStacks DEF At
<1>5. WinTypes'
  BY <1>2 DEF WinInv, WinTypes, IsSequence
<1>6. RequestInv'
  BY <1>1, <1>2, <1>3, <1>4, CallRests DEF WinInv, RequestInv, At, Resting, Current
<1>7. InUseInv'
  <2>1. At("dpc", "complete")' <=> At("dpc", "complete")
    BY <1>3 DEF At
  <2>2. Resting("cancel")' <=> Resting("cancel")
    BY <1>3 DEF Resting
  <2>3. QED BY <1>1, <1>2, <1>3, <1>4, <2>1, <2>2, CallRests
            DEF WinInv, InUseInv, Current, IsCancelling
<1>8. QED BY <1>3, <1>5, <1>6, <1>7 DEF WinInv

\* The I/O manager cancels the request; its callback begins if the request is marked.
LEMMA CallbackBegins ==
  ASSUME WinInv, OneAtATime, IoManagerCancels
  PROVE  WinInv'
<1> DEFINE n == Current
           e == IF req[n].mark = "yes" THEN <<RiffaEvtRequestCancel>> ELSE stack["cancel"]
           m == IF req[n].mark = "yes" THEN "cancelling" ELSE req[n].mark
           f == [req[n] EXCEPT !.cancelled = TRUE, !.mark = m]
<1>1. /\ stack["ioctl"] = << >> /\ req[n].done = 0 /\ req # << >>
      /\ UNCHANGED <<way, intr, port, local, chnl>>
      /\ DOMAIN stack = Threads
  BY DEF IoManagerCancels, OneAtATime, Resting, callerVars, WinInv, ControlInv
<1>2. /\ IsSequence(req) /\ DOMAIN req = 1 .. n /\ n \in Nat /\ n \in DOMAIN req
      /\ \A r \in DOMAIN req : DOMAIN req[r] = ReqFields
  <2>1. /\ IsSequence(req) /\ DOMAIN req = 1 .. n /\ n \in Nat
    BY IsSequenceIf DEF WinInv, WinTypes, IsSequence, Current
  <2>2. n # 0
    BY <1>1, <2>1, EmptySeq DEF IsSequence, Current
  <2>3. QED BY <2>1, <2>2 DEF WinInv, WinTypes
<1>3. stack' = [stack EXCEPT !["cancel"] = e]
  BY DEF IoManagerCancels
<1>4. req' = [req EXCEPT ![n] = f]
  BY <1>2 DEF IoManagerCancels, ReqFields
<1>5. DOMAIN f = ReqFields /\ f.cancelled = TRUE /\ f.mark = m /\ f.done = 0
  BY <1>1, <1>2 DEF ReqFields
<1>6. ~Resting("cancel") => req[n].mark = "cancelling"
  BY DEF WinInv, RequestInv
<1>7. e \in CancelStacks
  BY DEF WinInv, ControlInv, CancelStacks
<1> HIDE DEF n, e, f
<1>8. /\ IsSequence(req') /\ Len(req') = Len(req) /\ DOMAIN req' = 1 .. n /\ req'[n] = f
      /\ \A k \in 1 .. n : k # n => req'[k] = req[k]
  BY <1>2, <1>4, RequestUpdate
<1>9. Current' = n /\ Current = n /\ n > 0
  <2>1. n > 0
    BY <1>2
  <2>2. Current' = n /\ Current = n
    BY <1>8 DEF Current, n
  <2>3. QED BY <2>1, <2>2
<1>10. /\ ControlInv' /\ LengthInv' /\ stack'["ioctl"] = << >> /\ stack'["dpc"] = stack["dpc"]
       /\ stack'["cancel"] = e /\ stack'["timer"] = stack["timer"] /\ ActiveCounted'
  BY <1>1, <1>3, <1>7, Aside
<1>11. WinTypes'
  <2>1. \A r \in DOMAIN req' : DOMAIN req'[r] = ReqFields
    BY <1>2, <1>5, <1>8
  <2>2. QED BY <1>1, <1>8, <2>1 DEF WinInv, WinTypes, NoIntr
<1>12. /\ ~Resting("cancel")' => f.mark = "cancelling"
       /\ ~Resting("cancel") => ~Resting("cancel")'
       /\ At("cancel", "cancel_cancels")' => At("cancel", "cancel_cancels")
       /\ f.mark = "cancelling" => IsCancelling \/ ~Resting("cancel")'
       /\ IsCancelling => f.mark = "cancelling"
  BY <1>5, <1>6, <1>9, <1>10, AsideStacks DEF e, n, Resting, At, IsCancelling
<1>13. RequestInv'
  <2>1. \A r \in 1 .. n : req'[r].done \in 0 .. 1
    <3>1. \A r \in 1 .. n : req[r].done \in 0 .. 1
      BY <1>9 DEF WinInv, RequestInv
    <3>2. QED BY <1>5, <1>8, <3>1
  <2>2. At("timer", "timer_cancels")' <=> At("timer", "timer_cancels")
    BY <1>10 DEF At
  <2> HIDE DEF m
  <2>3. QED BY <1>1, <1>5, <1>8, <1>9, <1>10, <1>12, <2>1, <2>2, CallRests DEF WinInv, RequestInv
<1>14. InUseInv'
  <2>1. At("dpc", "complete")' <=> At("dpc", "complete")
    BY <1>10 DEF At
  <2>2. At("timer", "timer_cancels")' <=> At("timer", "timer_cancels")
    BY <1>10 DEF At
  <2>3. IsCancelling' <=> f.mark = "cancelling"
    BY <1>8, <1>9 DEF IsCancelling
  <2>4. QED BY <1>1, <1>9, <1>10, <1>12, <2>1, <2>2, <2>3, CallRests DEF WinInv, InUseInv
<1>15. QED BY <1>10, <1>11, <1>13, <1>14 DEF WinInv

\* The timer takes the request, or leaves it to the last active thread.
LEMMA TimerLooksKeeps ==
  ASSUME WinInv, TimerLooks
  PROVE  WinInv'
<1>1. /\ At("timer", "timer_looks") /\ UNCHANGED <<way, intr, port, req>>
      /\ DOMAIN chnl = ChnlFields /\ DOMAIN local = LocalFields
  BY DEF TimerLooks, callerVars, fpgaVars, WinInv, WinTypes
<1>2. stack["timer"] = <<RiffaEvtTimerFunc>> /\ stack["ioctl"] = << >>
  BY <1>1, AsideStacks DEF At, WinInv, ControlInv, Resting
<1>3. /\ DOMAIN local' = LocalFields /\ local'.intr = local.intr
      /\ local'.request = IF chnl.ActiveCount = 0 THEN chnl.Request ELSE 0
  BY <1>1 DEF TimerLooks, LocalFields
<1>4. ~At("timer", "timer_cancels")
  BY <1>2, AsideStacks DEF At
<1>5. Current' = Current
  BY <1>1 DEF Current
<1>6. CASE chnl.Request # 0 /\ chnl.ActiveCount = 0
  <2>1. /\ chnl' = [chnl EXCEPT !.Request = 0]
        /\ stack' = [stack EXCEPT !["timer"] = << <<"timer_cancels">> >>]
    <3>1. chnl' = [chnl EXCEPT !.Request = 0] /\ Proceed("timer")
      BY <1>6 DEF TimerLooks, Looks
    <3>2. Rest("timer") = << <<"timer_cancels">> >>
      BY <1>2, AsideStacks DEF Rest, RestOf
    <3>3. QED BY <3>1, <3>2 DEF Proceed
  <2>2. /\ DOMAIN chnl' = ChnlFields /\ chnl'.Request = 0 /\ chnl'.Length = chnl.Length
        /\ chnl'.Ready = chnl.Ready /\ chnl'.ActiveCount = chnl.ActiveCount
        /\ chnl'.InUse = chnl.InUse /\ chnl'.Cancel = chnl.Cancel
    BY <1>1, <2>1 DEF ChnlFields
  <2>3. /\ ControlInv' /\ LengthInv' /\ stack'["ioctl"] = << >> /\ stack'["dpc"] = stack["dpc"]
        /\ stack'["timer"] = << <<"timer_cancels">> >> /\ stack'["cancel"] = stack["cancel"]
        /\ ActiveCounted'
    <3>1. << <<"timer_cancels">> >> \in TimerStacks
      BY DEF TimerStacks
    <3>2. QED BY <1>1, <1>2, <1>3, <2>1, <2>2, <3>1, Aside
  <2>4. At("timer", "timer_cancels")'
    BY <2>3, AsideStacks DEF At
  <2>5. /\ At("dpc", "complete")' <=> At("dpc", "complete")
        /\ At("cancel", "cancel_cancels")' <=> At("cancel", "cancel_cancels")
        /\ Resting("cancel")' <=> Resting("cancel")
    BY <2>3 DEF At, Resting
  <2>6. WinTypes'
    BY <1>1, <1>3, <2>2 DEF WinInv, WinTypes, IsSequence
  <2>7. RequestInv'
    <3>1. /\ chnl.Request = Current /\ req[Current].done = 0 /\ Current > 0
          /\ local'.request = Current
      <4>1. chnl.Request = Current /\ req[Current].done = 0
        BY <1>6 DEF WinInv, RequestInv
      <4>2. Current \in Nat
        BY IsSequenceIf DEF WinInv, WinTypes, IsSequence, Current
      <4>3. QED BY <1>3, <1>6, <4>1, <4>2
    <3>2. QED BY <1>1, <1>2, <1>5, <1>6, <2>2, <2>3, <2>5, <3>1, CallRests DEF WinInv, RequestInv
  <2>8. InUseInv'
    BY <1>1, <1>2, <1>5, <2>2, <2>3, <2>4, <2>5, CallRests DEF WinInv, InUseInv, IsCancelling
  <2>9. QED BY <2>3, <2>6, <2>7, <2>8 DEF WinInv
<1>7. CASE ~(chnl.Request # 0 /\ chnl.ActiveCount = 0)
  <2>1. /\ chnl' = chnl \/ chnl' = [chnl EXCEPT !.Cancel = 1]
        /\ chnl.Request = 0 => chnl' = chnl
        /\ stack' = [stack EXCEPT !["timer"] = << >>]
    <3>1. Return("timer") /\ (chnl' = chnl \/ chnl' = [chnl EXCEPT !.Cancel = 1])
          /\ (chnl.Request = 0 => chnl' = chnl)
      BY <1>7 DEF TimerLooks, Looks
    <3>2. Tail(stack["timer"]) = << >>
      BY <1>2, AsideStacks
    <3>3. QED BY <3>1, <3>2 DEF Return
  <2>2. /\ DOMAIN chnl' = ChnlFields /\ chnl'.Request = chnl.Request
        /\ chnl'.Length = chnl.Length /\ chnl'.Ready = chnl.Ready
        /\ chnl'.ActiveCount = chnl.ActiveCount /\ chnl'.InUse = chnl.InUse
        /\ chnl'.Cancel = 1 \/ chnl'.Cancel = chnl.Cancel
    BY <1>1, <2>1 DEF ChnlFields
  <2>3. /\ ControlInv' /\ LengthInv' /\ stack'["ioctl"] = << >> /\ stack'["dpc"] = stack["dpc"]
        /\ stack'["timer"] = << >> /\ stack'["cancel"] = stack["cancel"]
        /\ ActiveCounted'
    <3>1. << >> \in TimerStacks
      BY DEF TimerStacks
    <3>2. QED BY <1>1, <1>2, <1>3, <2>1, <2>2, <3>1, Aside
  <2>4. ~At("timer", "timer_cancels")'
    BY <2>3 DEF At
  <2>5. /\ At("dpc", "complete")' <=> At("dpc", "complete")
        /\ At("cancel", "cancel_cancels")' <=> At("cancel", "cancel_cancels")
        /\ Resting("cancel")' <=> Resting("cancel")
    BY <2>3 DEF At, Resting
  <2>6. WinTypes'
    BY <1>1, <1>3, <2>2 DEF WinInv, WinTypes, IsSequence
  <2>7. RequestInv'
    BY <1>1, <1>2, <1>5, <2>2, <2>3, <2>4, <2>5, CallRests DEF WinInv, RequestInv
  <2>8. InUseInv'
    BY <1>1, <1>2, <1>4, <1>5, <2>2, <2>3, <2>5, CallRests DEF WinInv, InUseInv, IsCancelling
  <2>9. QED BY <2>3, <2>6, <2>7, <2>8 DEF WinInv
<1>8. QED BY <1>6, <1>7

\* RiffaEvtRequestCancel looks who may complete the request.
LEMMA CancelLooksKeeps ==
  ASSUME WinInv, CancelLooks
  PROVE  WinInv'
<1>1. /\ At("cancel", "cancel_looks") /\ UNCHANGED <<way, intr, port, req, local>>
      /\ DOMAIN chnl = ChnlFields
  BY DEF CancelLooks, callerVars, fpgaVars, WinInv, WinTypes
<1>2. stack["cancel"] = <<RiffaEvtRequestCancel>> /\ stack["ioctl"] = << >>
  BY <1>1, AsideStacks DEF At, WinInv, ControlInv, Resting
<1>3. /\ Current' = Current
      /\ Current > 0 /\ req[Current].mark = "cancelling" /\ req[Current].done = 0
  BY <1>1, <1>2, AsideStacks DEF Current, Resting, WinInv, RequestInv
<1>4. ~At("cancel", "cancel_cancels") /\ ~Resting("cancel")
  BY <1>2, AsideStacks DEF At, Resting
<1>5. CASE chnl.ActiveCount = 0
  <2>1. /\ chnl' = [chnl EXCEPT !.Request = 0]
        /\ stack' = [stack EXCEPT !["cancel"] = << <<"cancel_cancels">> >>]
    <3>1. chnl' = [chnl EXCEPT !.Request = 0] /\ Proceed("cancel")
      BY <1>5 DEF CancelLooks, Looks
    <3>2. Rest("cancel") = << <<"cancel_cancels">> >>
      BY <1>2, AsideStacks DEF Rest, RestOf
    <3>3. QED BY <3>1, <3>2 DEF Proceed
  <2>2. /\ DOMAIN chnl' = ChnlFields /\ chnl'.Request = 0 /\ chnl'.Length = chnl.Length
        /\ chnl'.Ready = chnl.Ready /\ chnl'.ActiveCount = chnl.ActiveCount
        /\ chnl'.InUse = chnl.InUse /\ chnl'.Cancel = chnl.Cancel
    BY <1>1, <2>1 DEF ChnlFields
  <2>3. /\ ControlInv' /\ LengthInv' /\ stack'["ioctl"] = << >> /\ stack'["dpc"] = stack["dpc"]
        /\ stack'["cancel"] = << <<"cancel_cancels">> >> /\ stack'["timer"] = stack["timer"]
        /\ ActiveCounted'
    <3>1. << <<"cancel_cancels">> >> \in CancelStacks
      BY DEF CancelStacks
    <3>2. QED BY <1>1, <1>2, <2>1, <2>2, <3>1, Aside
  <2>4. ~Resting("cancel")'
    BY <2>3, AsideStacks DEF Resting
  <2>5. /\ At("dpc", "complete")' <=> At("dpc", "complete")
        /\ At("timer", "timer_cancels")' <=> At("timer", "timer_cancels")
    BY <2>3 DEF At
  <2>6. WinTypes'
    BY <1>1, <2>2 DEF WinInv, WinTypes, IsSequence
  <2>7. RequestInv'
    BY <1>1, <1>2, <1>3, <1>5, <2>2, <2>3, <2>5, CallRests DEF WinInv, RequestInv
  <2>8. InUseInv'
    BY <1>1, <1>2, <1>3, <2>2, <2>3, <2>4, <2>5, CallRests DEF WinInv, InUseInv, IsCancelling
  <2>9. QED BY <2>3, <2>6, <2>7, <2>8 DEF WinInv
<1>6. CASE chnl.ActiveCount # 0
  <2>1. /\ chnl' = [chnl EXCEPT !.Cancel = 1]
        /\ stack' = [stack EXCEPT !["cancel"] = << >>]
    <3>1. Return("cancel") /\ chnl' = [chnl EXCEPT !.Cancel = 1]
      BY <1>6 DEF CancelLooks, Looks
    <3>2. Tail(stack["cancel"]) = << >>
      BY <1>2, AsideStacks
    <3>3. QED BY <3>1, <3>2 DEF Return
  <2>2. /\ DOMAIN chnl' = ChnlFields /\ chnl'.Request = chnl.Request
        /\ chnl'.Length = chnl.Length /\ chnl'.Ready = chnl.Ready
        /\ chnl'.ActiveCount = chnl.ActiveCount /\ chnl'.InUse = chnl.InUse
        /\ chnl'.Cancel = 1
    BY <1>1, <2>1 DEF ChnlFields
  <2>3. /\ ControlInv' /\ LengthInv' /\ stack'["ioctl"] = << >> /\ stack'["dpc"] = stack["dpc"]
        /\ stack'["cancel"] = << >> /\ stack'["timer"] = stack["timer"] /\ ActiveCounted'
    <3>1. << >> \in CancelStacks
      BY DEF CancelStacks
    <3>2. QED BY <1>1, <1>2, <2>1, <2>2, <3>1, Aside
  <2>4. ~At("cancel", "cancel_cancels")' /\ Resting("cancel")'
    BY <2>3 DEF At, Resting
  <2>5. /\ At("dpc", "complete")' <=> At("dpc", "complete")
        /\ At("timer", "timer_cancels")' <=> At("timer", "timer_cancels")
    BY <2>3 DEF At
  <2>6. WinTypes'
    BY <1>1, <2>2 DEF WinInv, WinTypes, IsSequence
  <2>7. RequestInv'
    BY <1>1, <1>2, <1>3, <2>2, <2>3, <2>4, <2>5, CallRests DEF WinInv, RequestInv
  <2>8. InUseInv'
    BY <1>1, <1>2, <1>3, <2>2, <2>3, <2>5, CallRests DEF WinInv, InUseInv, IsCancelling
  <2>9. QED BY <2>3, <2>6, <2>7, <2>8 DEF WinInv
<1>7. QED BY <1>5, <1>6

\* The last request, which nobody else will complete, is completed.
LEMMA CancelsKeeps ==
  ASSUME WinInv, NEW t \in {"timer", "cancel"}, stack["ioctl"] = << >>,
         stack' = [stack EXCEPT ![t] = << >>], NEW n, n = Current, Cancels(n),
         chnl.Request = 0, chnl.ActiveCount = 0, Current > 0, req[n].done = 0,
         t = "timer" => req[n].mark # "cancelling",
         t = "cancel" => req[n].mark = "cancelling",
         UNCHANGED <<way, intr, port>>, local'.intr = local.intr, DOMAIN local' = LocalFields,
         t = "cancel" => local' = local
  PROVE  WinInv'
<1> DEFINE info == Moved
<1>1. /\ chnl' = [chnl EXCEPT !.Ready = 0, !.InUse = 0, !.ActiveCount = 0, !.Cancel = 0]
      /\ Complete(n, "cancelled", info) /\ DOMAIN chnl = ChnlFields /\ WinTypes
  BY DEF Cancels, WinInv, WinTypes
<1> HIDE DEF info
<1>2. /\ DOMAIN chnl' = ChnlFields /\ chnl'.Request = 0 /\ chnl'.Length = chnl.Length
      /\ chnl'.Ready = 0 /\ chnl'.ActiveCount = 0 /\ chnl'.InUse = 0 /\ chnl'.Cancel = 0
  BY <1>1 DEF ChnlFields
<1>3. DOMAIN req = 1 .. n /\ n \in Nat /\ n \in DOMAIN req
  <2>1. DOMAIN req = 1 .. Current /\ Current \in Nat
    BY IsSequenceIf DEF WinInv, WinTypes, IsSequence, Current
  <2>2. QED BY <2>1
<1>4. /\ IsSequence(req') /\ Len(req') = Len(req) /\ DOMAIN req' = DOMAIN req
      /\ \A k \in DOMAIN req : /\ DOMAIN req'[k] = ReqFields
                               /\ req'[k].mark = req[k].mark
                               /\ req'[k].cancelled = req[k].cancelled
      /\ \A k \in DOMAIN req \ {n} : req'[k] = req[k]
      /\ req[n].done = 0 => req'[n].done = 1
  BY <1>1, <1>3, Completed
<1>5. Current' = Current
  BY <1>4 DEF Current
<1>6. /\ ControlInv' /\ LengthInv' /\ stack'["ioctl"] = << >> /\ stack'["dpc"] = stack["dpc"]
      /\ stack'[t] = << >>
      /\ t = "timer" => stack'["cancel"] = stack["cancel"]
      /\ t = "cancel" => stack'["timer"] = stack["timer"]
  <2>1. << >> \in TimerStacks /\ << >> \in CancelStacks
    BY DEF TimerStacks, CancelStacks
  <2>2. QED BY <1>2, <2>1, Aside
<1>7. WinTypes'
  BY <1>2, <1>4 DEF WinInv, WinTypes, NoIntr
<1>8. ActiveCounted'
  BY <1>2, <1>6 DEF WinInv, ActiveCounted, Inside
<1>9. Resting("cancel")'
  <2>1. CASE t = "cancel"
    BY <1>6, <2>1 DEF Resting
  <2>2. CASE t = "timer"
    BY <1>6, <2>2 DEF Resting, WinInv, RequestInv
  <2>3. QED BY <2>1, <2>2
<1>10. At("timer", "timer_cancels")' =>
         /\ local' = local /\ At("timer", "timer_cancels") /\ req[n].mark = "cancelling"
  <2>1. CASE t = "cancel"
    <3>1. At("timer", "timer_cancels")' => At("timer", "timer_cancels")
      BY <1>6, <2>1 DEF At
    <3>2. QED BY <2>1, <3>1
  <2>2. CASE t = "timer"
    <3>1. stack'["timer"] = << >>
      BY <1>6, <2>2
    <3>2. QED BY <3>1 DEF At
  <2>3. QED BY <2>1, <2>2
<1>11. RequestInv'
  <2>1. \A r \in 1 .. n : req'[r].done \in 0 .. 1
    BY <1>3, <1>4 DEF WinInv, RequestInv
  <2>2. ~At("cancel", "cancel_cancels")'
    BY <1>9 DEF At, Resting
  <2>3. QED BY <1>2, <1>3, <1>4, <1>5, <1>6, <1>9, <1>10, <2>1, <2>2, CallRests
            DEF WinInv, RequestInv
<1>12. InUseInv'
  BY <1>2, <1>6, CallRests DEF InUseInv
<1>13. QED BY <1>6, <1>7, <1>8, <1>11, <1>12 DEF WinInv

\* RiffaEvtTimerFunc completes the request it took, unless it is being cancelled.
LEMMA TimerCancelsKeeps ==
  ASSUME WinInv, TimerCancels
  PROVE  WinInv'
<1> DEFINE n == local.request
<1>1. /\ At("timer", "timer_cancels") /\ UNCHANGED <<way, intr, port>>
      /\ DOMAIN chnl = ChnlFields /\ DOMAIN local = LocalFields
  BY DEF TimerCancels, callerVars, fpgaVars, WinInv, WinTypes
<1>2. stack["timer"] = << <<"timer_cancels">> >> /\ stack["ioctl"] = << >>
  BY <1>1, AsideStacks DEF At, WinInv, ControlInv, Resting
<1>3. /\ chnl.Request = 0 /\ chnl.ActiveCount = 0 /\ Current > 0 /\ n = Current
      /\ req[n].mark = "cancelling" \/ req[n].done = 0
  BY <1>1 DEF WinInv, RequestInv
<1>4. DOMAIN local' = LocalFields /\ local'.intr = local.intr
  BY <1>1 DEF TimerCancels, LocalFields
<1>5. stack' = [stack EXCEPT !["timer"] = << >>]
  BY <1>2, AsideStacks DEF TimerCancels, Proceed, Rest, RestOf
<1>6. CASE req[n].mark = "cancelling"
  <2>1. UNCHANGED <<chnl, req>>
    BY <1>6 DEF TimerCancels
  <2>2. /\ ControlInv' /\ LengthInv' /\ stack'["ioctl"] = << >> /\ stack'["dpc"] = stack["dpc"]
        /\ stack'["timer"] = << >> /\ stack'["cancel"] = stack["cancel"] /\ ActiveCounted'
    <3>1. << >> \in TimerStacks
      BY DEF TimerStacks
    <3>2. QED BY <1>1, <1>2, <1>4, <1>5, <2>1, <3>1, Aside
  <2>3. ~At("timer", "timer_cancels")'
    BY <2>2 DEF At
  <2>4. /\ At("dpc", "complete")' <=> At("dpc", "complete")
        /\ At("cancel", "cancel_cancels")' <=> At("cancel", "cancel_cancels")
        /\ Resting("cancel")' <=> Resting("cancel")
    BY <2>2 DEF At, Resting
  <2>5. IsCancelling /\ Current' = Current
    BY <1>3, <1>6, <2>1 DEF IsCancelling, Current
  <2>6. WinTypes'
    BY <1>1, <1>4, <2>1 DEF WinInv, WinTypes, IsSequence
  <2> HIDE DEF n
  <2>7. RequestInv'
    BY <1>1, <1>2, <2>1, <2>2, <2>3, <2>4, <2>5, CallRests DEF WinInv, RequestInv
  <2>8. InUseInv'
    BY <1>1, <1>2, <2>1, <2>2, <2>4, <2>5, CallRests DEF WinInv, InUseInv, IsCancelling
  <2>9. QED BY <2>2, <2>6, <2>7, <2>8 DEF WinInv
<1>7. CASE req[n].mark # "cancelling"
  <2>1. Cancels(n) /\ req[n].done = 0
    BY <1>3, <1>7 DEF TimerCancels
  <2> HIDE DEF n
  <2>2. QED BY <1>1, <1>2, <1>3, <1>4, <1>5, <1>7, <2>1, CancelsKeeps
<1>8. QED BY <1>6, <1>7

\* RiffaEvtRequestCancel completes the request.
LEMMA CancelCancelsKeeps ==
  ASSUME WinInv, CancelCancels
  PROVE  WinInv'
<1> DEFINE n == Current
<1>1. /\ At("cancel", "cancel_cancels") /\ UNCHANGED <<way, intr, port, local>>
      /\ DOMAIN local = LocalFields /\ Cancels(n)
  BY DEF CancelCancels, callerVars, fpgaVars, WinInv, WinTypes
<1>2. stack["cancel"] = << <<"cancel_cancels">> >> /\ stack["ioctl"] = << >>
  BY <1>1, AsideStacks DEF At, WinInv, ControlInv, Resting
<1>3. /\ chnl.Request = 0 /\ chnl.ActiveCount = 0 /\ Current > 0 /\ n = Current
      /\ req[n].done = 0 /\ req[n].mark = "cancelling"
  BY <1>1, <1>2, AsideStacks DEF Resting, WinInv, RequestInv
<1>4. stack' = [stack EXCEPT !["cancel"] = << >>]
  BY <1>2, AsideStacks DEF CancelCancels, Proceed, Rest, RestOf
<1> HIDE DEF n
<1>5. QED BY <1>1, <1>2, <1>3, <1>4, CancelsKeeps

\* Every step of the timer and of the cancel callback keeps the invariant.
LEMMA AsideKeeps ==
  ASSUME WinInv, OneAtATime, Timer \/ Cancel \/ IoManagerCancels
  PROVE  WinInv'
BY ExpiresKeeps, TimerLooksKeeps, TimerCancelsKeeps, CancelLooksKeeps, CancelCancelsKeeps,
   CallbackBegins DEF Timer, Cancel

-----------------------------------------------------------------------------
(* The stacks of the call before and after its work, and in a reset.       *)
SettingUpSend == <<"set_up_send", "execute", "mark">>
SettingUpRecv == <<"set_up_recv", "ready", "mark">>
Reset3 == <<"reset_channel", "reset_request", "reset_interrupt_data">>
Reset2 == <<"reset_request", "reset_interrupt_data">>
Reset1 == <<"reset_interrupt_data">>
CallFunctions == {RiffaIoctlSend, RiffaIoctlRecv, SettingUpSend, SettingUpRecv,
                  RiffaIoctlReset, Reset3, Reset2, Reset1}

\* The functions of the handlers, step by step.
LEMMA CallHeads ==
  /\ Head(RiffaIoctlSend) = "claim" /\ Tail(RiffaIoctlSend) = SettingUpSend
  /\ Head(RiffaIoctlRecv) = "claim" /\ Tail(RiffaIoctlRecv) = SettingUpRecv
  /\ Head(SettingUpSend) = "set_up_send" /\ Tail(SettingUpSend) = <<"execute", "mark">>
  /\ Head(SettingUpRecv) = "set_up_recv" /\ Tail(SettingUpRecv) = <<"ready", "mark">>
  /\ Head(RiffaIoctlReset) = "reset_fpga" /\ Tail(RiffaIoctlReset) = Reset3
  /\ Head(Reset3) = "reset_channel" /\ Tail(Reset3) = Reset2
  /\ Head(Reset2) = "reset_request" /\ Tail(Reset2) = Reset1
  /\ Head(Reset1) = "reset_interrupt_data" /\ Tail(Reset1) = << >>
  /\ Len(RiffaIoctlSend) = 4 /\ Len(RiffaIoctlRecv) = 4 /\ Len(SettingUpSend) = 3
  /\ Len(SettingUpRecv) = 3 /\ Len(RiffaIoctlReset) = 4 /\ Len(Reset3) = 3
  /\ Len(Reset2) = 2 /\ Len(Reset1) = 1
<1>1. /\ {"claim", "set_up_send", "execute", "mark"} \subseteq Steps
      /\ {"set_up_recv", "ready", "reset_fpga"} \subseteq Steps
      /\ {"reset_channel", "reset_request", "reset_interrupt_data"} \subseteq Steps
  BY DEF Steps
<1>2. Head(RiffaIoctlSend) = "claim" /\ Tail(RiffaIoctlSend) = SettingUpSend
      /\ Len(RiffaIoctlSend) = 4
  BY <1>1, Tuple4 DEF RiffaIoctlSend, SettingUpSend
<1>3. Head(RiffaIoctlRecv) = "claim" /\ Tail(RiffaIoctlRecv) = SettingUpRecv
      /\ Len(RiffaIoctlRecv) = 4
  BY <1>1, Tuple4 DEF RiffaIoctlRecv, SettingUpRecv
<1>4. Head(RiffaIoctlReset) = "reset_fpga" /\ Tail(RiffaIoctlReset) = Reset3
      /\ Len(RiffaIoctlReset) = 4
  BY <1>1, Tuple4 DEF RiffaIoctlReset, Reset3
<1>5. /\ Head(SettingUpSend) = "set_up_send" /\ Tail(SettingUpSend) = <<"execute", "mark">>
      /\ Len(SettingUpSend) = 3
  BY <1>1, Tuple3 DEF SettingUpSend
<1>6. /\ Head(SettingUpRecv) = "set_up_recv" /\ Tail(SettingUpRecv) = <<"ready", "mark">>
      /\ Len(SettingUpRecv) = 3
  BY <1>1, Tuple3 DEF SettingUpRecv
<1>7. Head(Reset3) = "reset_channel" /\ Tail(Reset3) = Reset2 /\ Len(Reset3) = 3
  BY <1>1, Tuple3 DEF Reset3, Reset2
<1>8. Head(Reset2) = "reset_request" /\ Tail(Reset2) = Reset1 /\ Len(Reset2) = 2
  BY <1>1, Tuple2 DEF Reset2, Reset1
<1>9. Head(Reset1) = "reset_interrupt_data" /\ Tail(Reset1) = << >> /\ Len(Reset1) = 1
  BY <1>1, Tuple1 DEF Reset1
<1>10. QED BY <1>2, <1>3, <1>4, <1>5, <1>6, <1>7, <1>8, <1>9

\* None of them is between enter and exit, and none is a stack of a call at work.
LEMMA CallCounts ==
  ASSUME NEW f \in CallFunctions
  PROVE  /\ Count(<<f>>) = 0 /\ ~IoctlTower(<<f>>) /\ <<f>> # << >>
         /\ Head(<<f>>) = f /\ Tail(<<f>>) = << >>
<1>1. One(f) = 0
  <2>1. \A x, y, z, w \in Steps : "exit" \notin {x, y, z, w} =>
          ~Has(<<x, y, z, w>>, "exit") /\ ~Has(<<x, y, z>>, "exit")
          /\ ~Has(<<x, y>>, "exit") /\ ~Has(<<x>>, "exit")
    <3> TAKE x, y, z, w \in Steps
    <3>1. {x, y, z, w} \subseteq Steps /\ {x, y, z} \subseteq Steps /\ {x, y} \subseteq Steps
      OBVIOUS
    <3>2. /\ Has(<<x, y, z, w>>, "exit") <=> "exit" \in {x, y, z, w}
          /\ Has(<<x, y, z>>, "exit") <=> "exit" \in {x, y, z}
      BY <3>1, Has3, Has4, Zenon
    <3>3. /\ Has(<<x, y>>, "exit") <=> "exit" \in {x, y}
          /\ Has(<<x>>, "exit") <=> "exit" = x
      BY <3>1, Has1, Has2, Zenon
    <3>4. QED BY <3>2, <3>3
  <2>2. /\ "claim" \in Steps /\ "set_up_send" \in Steps /\ "execute" \in Steps
        /\ "mark" \in Steps /\ "set_up_recv" \in Steps /\ "ready" \in Steps
        /\ "reset_fpga" \in Steps /\ "reset_channel" \in Steps /\ "reset_request" \in Steps
        /\ "reset_interrupt_data" \in Steps
    BY StepNames
  <2>3. /\ ~Has(RiffaIoctlSend, "exit") /\ ~Has(RiffaIoctlRecv, "exit")
        /\ ~Has(RiffaIoctlReset, "exit")
    BY <2>1, <2>2 DEF RiffaIoctlSend, RiffaIoctlRecv, RiffaIoctlReset
  <2>4. ~Has(SettingUpSend, "exit") /\ ~Has(SettingUpRecv, "exit") /\ ~Has(Reset3, "exit")
    BY <2>1, <2>2 DEF SettingUpSend, SettingUpRecv, Reset3
  <2>5. ~Has(Reset2, "exit") /\ ~Has(Reset1, "exit")
    <3>1. {"reset_request", "reset_interrupt_data"} \subseteq Steps
      BY <2>2
    <3>2. /\ Has(Reset2, "exit") <=> "exit" \in {"reset_request", "reset_interrupt_data"}
          /\ Has(Reset1, "exit") <=> "exit" = "reset_interrupt_data"
      BY <2>2, <3>1, Has1, Has2, Zenon DEF Reset2, Reset1
    <3>3. QED BY <3>2
  <2>6. ~Has(f, "exit")
    BY <2>3, <2>4, <2>5 DEF CallFunctions
  <2>7. QED BY <2>6 DEF One, IsInside
<1>2. Count(<<f>>) = 0
  <2>1. << >> \in Seq({f}) /\ <<f>> \o << >> = <<f>>
    OBVIOUS
  <2>2. Count(<<f>> \o << >>) = One(f) + Count(<< >>)
    BY <2>1, CountPush, Zenon
  <2>3. QED BY <1>1, <2>1, <2>2, CountNothing
<1>3. ~IoctlTower(<<f>>)
  <2>1. f \notin Works
    <3>1. Head(f) \notin {"execute", "ready", "mark"}
      BY CallHeads DEF CallFunctions
    <3>2. \A g \in Works : Head(g) \in {"execute", "ready", "mark"}
      BY Heads2, StepNames DEF Works
    <3>3. QED BY <3>1, <3>2
  <2>2. Len(<<f>>) = 1 /\ <<f>>[1] = f
    OBVIOUS
  <2>3. QED BY <2>1, <2>2 DEF IoctlTower, Tower
<1>4. QED BY <1>2, <1>3

WorkHeads == QuietHeads \cup {"enter", "exit", "mark", "ready"}

\* The next step of a call at work.
LEMMA WorkingHeads ==
  ASSUME NEW s, IoctlTower(s), s # << >>
  PROVE  Head(Head(s)) \in WorkHeads
<1>1. Head(s) \in IoctlHelpers \cup Works
  BY IoctlRest
<1>2. CASE Head(s) \in Adding
  BY <1>2, AddingHeads DEF WorkHeads, QuietHeads
<1>3. CASE Head(s) \in Left1("program_dma") \cup Left1("execute") \cup Left1("start_recv")
  BY <1>3, Heads1, StepNames DEF WorkHeads, QuietHeads
<1>4. CASE Head(s) \in Works
  <2>1. {"execute", "mark"} \subseteq Steps /\ {"ready", "mark"} \subseteq Steps
    BY StepNames
  <2>2. QED BY <1>4, <2>1, Heads2 DEF Works, WorkHeads, QuietHeads
<1>5. QED BY <1>1, <1>2, <1>3, <1>4 DEF IoctlHelpers, Mapping

\* Where the call is, by its next step; every other thread rests.
LEMMA AtCall ==
  ASSUME WinInv, NEW x, At("ioctl", x)
  PROVE  /\ stack["dpc"] = << >> /\ stack["timer"] = << >> /\ stack["cancel"] = << >>
         /\ stack["ioctl"] # << >> /\ Head(Head(stack["ioctl"])) = x
         /\ x = "claim" <=> Claiming
         /\ x = "set_up_send" <=> stack["ioctl"] = <<SettingUpSend>>
         /\ x = "set_up_recv" <=> stack["ioctl"] = <<SettingUpRecv>>
         /\ x = "reset_fpga" <=> stack["ioctl"] = <<RiffaIoctlReset>>
         /\ x = "reset_channel" <=> stack["ioctl"] = <<Reset3>>
         /\ x = "reset_request" <=> stack["ioctl"] = <<Reset2>>
         /\ x = "reset_interrupt_data" <=> stack["ioctl"] = <<Reset1>>
         /\ x \in WorkHeads <=> Working
<1> DEFINE s == stack["ioctl"]
<1>1. s # << >> /\ Head(Head(s)) = x
  BY DEF At
<1>2. stack["dpc"] = << >> /\ stack["timer"] = << >> /\ stack["cancel"] = << >>
  BY <1>1 DEF WinInv, ControlInv, Resting
<1>3. \/ Working /\ x \in WorkHeads
      \/ Claiming /\ x = "claim"
      \/ s = <<SettingUpSend>> /\ x = "set_up_send"
      \/ s = <<SettingUpRecv>> /\ x = "set_up_recv"
      \/ s = <<RiffaIoctlReset>> /\ x = "reset_fpga"
      \/ s = <<Reset3>> /\ x = "reset_channel"
      \/ s = <<Reset2>> /\ x = "reset_request"
      \/ s = <<Reset1>> /\ x = "reset_interrupt_data"
  <2>1. CASE Working
    BY <1>1, <2>1, WorkingHeads DEF Working, IoctlTower
  <2>2. CASE Claiming
    BY <1>1, <2>2, CallHeads, CallCounts DEF Claiming, CallFunctions
  <2>3. CASE SettingUp
    <3>1. s = <<SettingUpSend>> \/ s = <<SettingUpRecv>>
      BY <2>3 DEF SettingUp, SettingUpSend, SettingUpRecv
    <3>2. QED BY <1>1, <3>1, CallHeads, CallCounts DEF CallFunctions
  <2>4. CASE Resetting
    <3>1. s = <<RiffaIoctlReset>> \/ s = <<Reset3>> \/ s = <<Reset2>> \/ s = <<Reset1>>
      BY <2>4 DEF Resetting, Resets, Reset3, Reset2, Reset1
    <3>2. QED BY <1>1, <3>1, CallHeads, CallCounts DEF CallFunctions
  <2>5. QED BY <1>1, <2>1, <2>2, <2>3, <2>4 DEF WinInv, ControlInv, Resting
<1>4. Claiming => x = "claim"
  BY <1>1, CallHeads, CallCounts DEF Claiming, CallFunctions
<1>5. /\ s = <<SettingUpSend>> => x = "set_up_send"
      /\ s = <<SettingUpRecv>> => x = "set_up_recv"
      /\ s = <<RiffaIoctlReset>> => x = "reset_fpga"
      /\ s = <<Reset3>> => x = "reset_channel"
      /\ s = <<Reset2>> => x = "reset_request"
      /\ s = <<Reset1>> => x = "reset_interrupt_data"
  BY <1>1, CallHeads, CallCounts DEF CallFunctions
<1>6. Working => x \in WorkHeads
  BY <1>1, WorkingHeads DEF Working, IoctlTower
<1> HIDE DEF s
<1>7. "claim" \notin WorkHeads /\ "set_up_send" \notin WorkHeads /\ "set_up_recv" \notin WorkHeads
      /\ "reset_fpga" \notin WorkHeads /\ "reset_channel" \notin WorkHeads
      /\ "reset_request" \notin WorkHeads /\ "reset_interrupt_data" \notin WorkHeads
  BY DEF WorkHeads, QuietHeads
<1>8. QED BY <1>1, <1>2, <1>3, <1>4, <1>5, <1>6, <1>7 DEF s

\* Each stage of the call is none of the others.
LEMMA Stages ==
  ASSUME NEW e, stack'["ioctl"] = e,
         e = << >> \/ (IoctlTower(e) /\ e # << >>) \/ \E f \in CallFunctions : e = <<f>>
  PROVE  /\ Resting("ioctl")' <=> e = << >>
         /\ Claiming' <=> e \in {<<RiffaIoctlSend>>, <<RiffaIoctlRecv>>}
         /\ SettingUp' <=> e \in {<<SettingUpSend>>, <<SettingUpRecv>>}
         /\ Working' <=> IoctlTower(e) /\ e # << >>
         /\ Resetting' <=> e \in {<<RiffaIoctlReset>>, <<Reset3>>, <<Reset2>>, <<Reset1>>}
         /\ e \in Resets <=> e \in {<<Reset2>>, <<Reset1>>}
         /\ At("ioctl", "reset_request")' <=> e = <<Reset2>>
<1>1. /\ Resting("ioctl")' <=> e = << >>
      /\ Working' <=> IoctlTower(e) /\ e # << >>
  BY DEF Resting, Working, IoctlTower
<1>2. Claiming' <=> e \in {<<RiffaIoctlSend>>, <<RiffaIoctlRecv>>}
  BY DEF Claiming
<1>3. SettingUp' <=> e \in {<<SettingUpSend>>, <<SettingUpRecv>>}
  BY DEF SettingUp, SettingUpSend, SettingUpRecv
<1>4. e \in Resets <=> e \in {<<Reset2>>, <<Reset1>>}
  BY DEF Resets, Reset2, Reset1
<1>5. Resetting' <=> e \in {<<RiffaIoctlReset>>, <<Reset3>>, <<Reset2>>, <<Reset1>>}
  BY <1>4 DEF Resetting, Reset3
<1>6. At("ioctl", "reset_request")' <=> e = <<Reset2>>
  <2>1. At("ioctl", "reset_request")' <=> e # << >> /\ Head(Head(e)) = "reset_request"
    BY DEF At
  <2>2. CASE e = << >>
    BY <2>1, <2>2, CallCounts DEF CallFunctions
  <2>3. CASE IoctlTower(e) /\ e # << >>
    <3>1. Head(Head(e)) # "reset_request"
      BY <2>3, WorkingHeads DEF WorkHeads, QuietHeads
    <3>2. Head(Head(<<Reset2>>)) = "reset_request"
      BY CallHeads, CallCounts DEF CallFunctions
    <3>3. QED BY <2>1, <3>1, <3>2
  <2>4. CASE \E f \in CallFunctions : e = <<f>>
    BY <2>1, <2>4, CallHeads, CallCounts DEF CallFunctions
  <2>5. QED BY <2>2, <2>3, <2>4
<1>7. QED BY <1>1, <1>2, <1>3, <1>4, <1>5, <1>6

\* A stack is of one stage only.
LEMMA Apart ==
  /\ << >> \notin {<<RiffaIoctlSend>>, <<RiffaIoctlRecv>>, <<SettingUpSend>>, <<SettingUpRecv>>}
  /\ <<Reset2>> # << >> /\ <<Reset1>> # << >>
  /\ <<RiffaIoctlReset>> # << >> /\ <<Reset3>> # << >>
  /\ \A f, g \in CallFunctions : <<f>> = <<g>> => f = g
  /\ RiffaIoctlSend \notin {SettingUpSend, SettingUpRecv, RiffaIoctlReset, Reset3, Reset2, Reset1}
  /\ RiffaIoctlRecv \notin {SettingUpSend, SettingUpRecv, RiffaIoctlReset, Reset3, Reset2, Reset1}
  /\ SettingUpSend \notin {SettingUpRecv, RiffaIoctlReset, Reset3, Reset2, Reset1}
  /\ SettingUpRecv \notin {RiffaIoctlReset, Reset3, Reset2, Reset1}
  /\ RiffaIoctlReset \notin {Reset3, Reset2, Reset1}
  /\ Reset3 \notin {Reset2, Reset1} /\ Reset2 # Reset1
<1>1. \A f, g \in CallFunctions : <<f>> = <<g>> => f = g
  BY CallCounts
<1>2. /\ <<Reset2>> # << >> /\ <<Reset1>> # << >> /\ <<RiffaIoctlReset>> # << >>
      /\ <<Reset3>> # << >> /\ <<RiffaIoctlSend>> # << >> /\ <<RiffaIoctlRecv>> # << >>
      /\ <<SettingUpSend>> # << >> /\ <<SettingUpRecv>> # << >>
  BY CallCounts DEF CallFunctions
<1>3. QED BY <1>1, <1>2, CallHeads

\* The call goes on, or begins, while every other thread rests.
LEMMA CallMoves ==
  ASSUME WinInv, stack["dpc"] = << >>, stack["timer"] = << >>, stack["cancel"] = << >>,
         NEW e, stack' = [stack EXCEPT !["ioctl"] = e],
         e = << >> \/ (IoctlTower(e) /\ e # << >>) \/ \E f \in CallFunctions : e = <<f>>,
         e \in {<<RiffaIoctlSend>>, <<RiffaIoctlRecv>>, <<SettingUpSend>>, <<SettingUpRecv>>}
           => local'.size \in Nat \ {0}
  PROVE  /\ stack'["ioctl"] = e /\ stack'["dpc"] = << >>
         /\ stack'["timer"] = << >> /\ stack'["cancel"] = << >>
         /\ ControlInv' /\ Resting("cancel") /\ Resting("cancel")' /\ ~Announcing(stack'["dpc"])
         /\ ~At("dpc", "complete") /\ ~At("dpc", "complete")'
         /\ ~At("timer", "timer_cancels") /\ ~At("timer", "timer_cancels")'
         /\ ~At("cancel", "cancel_cancels") /\ ~At("cancel", "cancel_cancels")'
         /\ chnl.ActiveCount = Count(stack["ioctl"])
         /\ chnl'.ActiveCount = Count(e) => ActiveCounted'
<1>1. DOMAIN stack = Threads
  BY DEF WinInv, ControlInv
<1>2. /\ DOMAIN stack' = Threads /\ stack'["ioctl"] = e /\ stack'["dpc"] = << >>
      /\ stack'["timer"] = << >> /\ stack'["cancel"] = << >>
  BY <1>1, StackUpdate DEF Threads
<1>3. /\ Resting("cancel") /\ Resting("cancel")' /\ ~Announcing(stack'["dpc"])
      /\ Resting("dpc")' /\ Resting("timer")'
      /\ ~At("dpc", "complete") /\ ~At("dpc", "complete")'
      /\ ~At("timer", "timer_cancels") /\ ~At("timer", "timer_cancels")'
      /\ ~At("cancel", "cancel_cancels") /\ ~At("cancel", "cancel_cancels")'
  BY <1>2 DEF Resting, At, Announcing
<1>4. ControlInv'
  <2>1. Resting("ioctl")' \/ Claiming' \/ SettingUp' \/ Working' \/ Resetting'
    BY <1>2, Stages DEF CallFunctions
  <2>2. Claiming' \/ SettingUp' => local'.size \in Nat \ {0}
    BY <1>2, Stages
  <2>3. /\ Tower(stack'["dpc"], DpcHelpers, DpcEvents \cup DpcHelpers)
        /\ stack'["timer"] \in TimerStacks /\ stack'["cancel"] \in CancelStacks
    BY <1>2 DEF WinInv, ControlInv, TimerStacks, CancelStacks
  <2>4. QED BY <1>2, <1>3, <2>1, <2>2, <2>3 DEF ControlInv, TimerStacks, CancelStacks
<1>5. chnl.ActiveCount = Count(stack["ioctl"]) + Count(stack["dpc"])
  BY DEF WinInv, ActiveCounted, Inside, Count, InsideOf
<1>6. chnl.ActiveCount = Count(stack["ioctl"])
  <2>1. Count(stack["ioctl"]) \in Nat
    <3>1. CASE Working
      BY <3>1, IoctlRest, CountPush, StepCounts DEF Working, IoctlTower
    <3>2. CASE Resting("ioctl")
      BY <3>2, CountNothing DEF Resting
    <3>3. CASE Claiming
      BY <3>3, CallCounts DEF Claiming, CallFunctions
    <3>4. CASE SettingUp
      BY <3>4, CallCounts DEF SettingUp, CallFunctions, SettingUpSend, SettingUpRecv
    <3>5. CASE Resetting
      BY <3>5, CallCounts DEF Resetting, Resets, CallFunctions, Reset3, Reset2, Reset1
    <3>6. QED BY <3>1, <3>2, <3>3, <3>4, <3>5 DEF WinInv, ControlInv
  <2>2. QED BY <1>5, <2>1, CountNothing
<1>7. ASSUME chnl'.ActiveCount = Count(e) PROVE ActiveCounted'
  <2>1. Count(e) \in Nat
    <3>1. CASE e = << >>
      BY <3>1, CountNothing
    <3>2. CASE IoctlTower(e) /\ e # << >>
      BY <3>2, IoctlRest, StepCounts
    <3>3. CASE \E f \in CallFunctions : e = <<f>>
      BY <3>3, CallCounts
    <3>4. QED BY <3>1, <3>2, <3>3
  <2>2. chnl'.ActiveCount = Count(stack'["ioctl"]) + Count(stack'["dpc"])
    BY <1>2, <1>7, <2>1, CountNothing
  <2>3. QED BY <2>2 DEF ActiveCounted, Inside, Count, InsideOf
<1>8. QED BY <1>2, <1>3, <1>4, <1>6, <1>7

-----------------------------------------------------------------------------
(* A call at work.                                                         *)

\* A step of a call at work, which owns the request.
LEMMA WorkStep ==
  ASSUME WinInv, NEW x, At("ioctl", x), Working,
         NEW e, IoctlTower(e), e # << >>, stack' = [stack EXCEPT !["ioctl"] = e],
         UNCHANGED <<way, intr, req>>, DOMAIN chnl' = ChnlFields, DOMAIN local' = LocalFields,
         chnl'.InUse = chnl.InUse, chnl'.Cancel = chnl.Cancel, chnl'.Request = chnl.Request,
         chnl'.Length = chnl.Length, chnl'.ActiveCount = Count(e),
         DOMAIN port' = PortFields, port'.vect = port.vect,
         "txn" \in port.vect => port'.len = port.len,
         chnl.Length = 0 => e = << <<"mark">> >> /\ chnl'.Ready # 2 /\ port' = port
  PROVE  WinInv'
<1>1. /\ stack["dpc"] = << >> /\ stack["timer"] = << >> /\ stack["cancel"] = << >>
  BY AtCall
<1>2. e \notin {<<RiffaIoctlSend>>, <<RiffaIoctlRecv>>, <<SettingUpSend>>, <<SettingUpRecv>>}
  BY CallCounts DEF CallFunctions
<1>3. /\ stack'["ioctl"] = e /\ stack'["dpc"] = << >>
      /\ stack'["timer"] = << >> /\ stack'["cancel"] = << >>
      /\ ControlInv' /\ Resting("cancel")' /\ ~Announcing(stack'["dpc"])
      /\ ~At("dpc", "complete")' /\ ~At("timer", "timer_cancels")'
      /\ ~At("cancel", "cancel_cancels")' /\ ActiveCounted'
  BY <1>1, <1>2, CallMoves
<1>4. /\ Working' /\ ~Claiming' /\ ~SettingUp' /\ e \notin Resets
      /\ ~At("ioctl", "reset_request")'
  BY <1>2, <1>3, Stages, CallCounts DEF CallFunctions
<1>5. WinTypes'
  BY DEF WinInv, WinTypes, IsSequence, NoIntr
<1>6. LengthInv'
  BY <1>3 DEF WinInv, LengthInv
<1>7. RequestInv'
  BY <1>3, <1>4 DEF WinInv, RequestInv, Current
<1>8. InUseInv'
  BY <1>3, <1>4 DEF WinInv, InUseInv, IsCancelling, RequestInv, Current
<1>9. QED BY <1>3, <1>5, <1>6, <1>7, <1>8 DEF WinInv

\* Only a recv that waits for the FPGA has no length.
LEMMA WorkLength ==
  ASSUME WinInv, NEW x, At("ioctl", x), Working, x \notin {"ready", "mark"}
  PROVE  chnl.Length # 0
<1>1. Head(Head(stack["ioctl"])) = x
  BY AtCall
<1>2. Head(Head(<< <<"ready", "mark">> >>)) = "ready" /\ Head(Head(<< <<"mark">> >>)) = "mark"
  OBVIOUS
<1>3. QED BY <1>1, <1>2 DEF WinInv, LengthInv

\* A call at work is alone, so ActiveCount counts its functions only.
LEMMA WorkCount ==
  ASSUME WinInv, NEW x, At("ioctl", x), Working
  PROVE  LET s == stack["ioctl"]
         IN  /\ s # << >> /\ IoctlTower(s) /\ s \in Seq(Functions) /\ Head(Head(s)) = x
             /\ chnl.ActiveCount = Count(s) /\ Count(s) \in Nat
<1> DEFINE s == stack["ioctl"]
<1>1. s # << >> /\ Head(Head(s)) = x /\ IoctlTower(s) /\ stack["dpc"] = << >>
  BY AtCall DEF Working, IoctlTower
<1>2. s \in Seq(Functions)
  BY <1>1, IoctlRest
<1>3. Count(s) \in Nat
  BY <1>1, <1>2, StepCounts
<1>4. chnl.ActiveCount = Count(s) + Count(stack["dpc"])
  BY DEF WinInv, ActiveCounted, Inside, Count, InsideOf
<1>5. QED BY <1>1, <1>2, <1>3, <1>4, CountNothing

\* The steps of a call at work, one by one: the quiet ones.
LEMMA CallQuietly ==
  ASSUME WinInv, OneAtATime, Quietly("ioctl")
  PROVE  WinInv'
<1> DEFINE s == stack["ioctl"]
<1>1. PICK x \in QuietHeads : At("ioctl", x)
  BY QuietlyAt
<1>2. x \notin {"enter", "exit", "ready", "mark"} /\ x \in WorkHeads
  BY DEF QuietHeads, WorkHeads
<1>3. Working /\ s # << >> /\ Head(Head(s)) = x
  BY <1>1, <1>2, AtCall
<1>4. IoctlTower(s) /\ chnl.Length # 0
  BY <1>1, <1>2, <1>3, WorkLength DEF Working, IoctlTower
<1>5. Unmoved /\ (Proceed("ioctl") \/ \E f \in QuietCalls : Call("ioctl", f))
  BY <1>4, QuietEffect
<1>6. chnl.ActiveCount = Count(s)
  BY <1>1, <1>3, WorkCount
<1>7. \E e : /\ IoctlTower(e) /\ e # << >> /\ stack' = [stack EXCEPT !["ioctl"] = e]
             /\ Count(e) = Count(s)
  <2>1. CASE Proceed("ioctl")
    <3>1. stack' = [stack EXCEPT !["ioctl"] = RestOf(s)]
      BY <2>1 DEF Proceed, Rest, RestOf
    <3>2. IoctlTower(RestOf(s)) /\ RestOf(s) # << >> /\ s \in Seq(Functions)
      BY <1>2, <1>3, <1>4, IoctlRest
    <3>3. Count(RestOf(s)) = Count(s)
      BY <1>2, <1>3, <3>2, StepCounts
    <3>4. QED BY <3>1, <3>2, <3>3
  <2>2. ASSUME NEW f \in QuietCalls, Call("ioctl", f)
        PROVE  \E e : /\ IoctlTower(e) /\ e # << >> /\ stack' = [stack EXCEPT !["ioctl"] = e]
                      /\ Count(e) = Count(s)
    <3>1. f \in IoctlHelpers
      BY DEF QuietCalls, IoctlHelpers, Mapping, Adding, Left1, Left5, RiffaProgramScatterGather
    <3>2. One(f) = 0
      <4>1. QuietCalls \subseteq Called
        BY DEF QuietCalls, Called, RiffaProgramScatterGather
      <4>2. QED BY <4>1, CalledFunctions
    <3>3. stack' = [stack EXCEPT !["ioctl"] = <<f>> \o RestOf(s)]
      BY <2>2 DEF Call, Rest, RestOf
    <3>4. IoctlTower(<<f>> \o RestOf(s)) /\ <<f>> \o RestOf(s) # << >>
          /\ Count(<<f>> \o RestOf(s)) = Count(s)
      BY <1>2, <1>3, <1>4, <3>1, <3>2, IoctlCall
    <3>5. QED BY <3>3, <3>4
  <2>3. QED BY <1>5, <2>1, <2>2
<1>8. PICK e : /\ IoctlTower(e) /\ e # << >> /\ stack' = [stack EXCEPT !["ioctl"] = e]
               /\ Count(e) = Count(s)
  BY <1>7
<1>9. chnl'.ActiveCount = Count(e)
  BY <1>5, <1>6, <1>8 DEF Unmoved
<1> HIDE DEF s
<1>10. QED BY <1>1, <1>3, <1>4, <1>5, <1>8, <1>9, WorkStep DEF Unmoved

\* RiffaThreadEnter.
LEMMA CallEnters ==
  ASSUME WinInv, RiffaThreadEnter("ioctl")
  PROVE  WinInv'
<1> DEFINE s == stack["ioctl"]
           e == RestOf(s)
<1>1. At("ioctl", "enter") /\ Working
  BY AtCall DEF RiffaThreadEnter, WorkHeads
<1>2. /\ s # << >> /\ IoctlTower(s) /\ s \in Seq(Functions) /\ Head(Head(s)) = "enter"
      /\ chnl.ActiveCount = Count(s) /\ Count(s) \in Nat
  BY <1>1, WorkCount
<1>3. chnl.Length # 0 /\ DOMAIN chnl = ChnlFields
  BY <1>1, WorkLength DEF WinInv, WinTypes
<1>4. chnl.Request # 0
  BY <1>1, <1>2 DEF WinInv, RequestInv
<1>5. /\ chnl' = [chnl EXCEPT !.ActiveCount = @ + 1]
      /\ stack' = [stack EXCEPT !["ioctl"] = e]
  BY <1>4 DEF RiffaThreadEnter, Proceed, Rest, RestOf
<1>6. /\ UNCHANGED <<way, intr, req, local, port>>
  BY DEF RiffaThreadEnter, callerVars, fpgaVars
<1>7. IoctlTower(e) /\ e # << >>
  BY <1>2, IoctlRest
<1>8. Count(e) = Count(s) + 1
  BY <1>2, StepCounts
<1> HIDE DEF s, e
<1>9. /\ DOMAIN chnl' = ChnlFields /\ chnl'.InUse = chnl.InUse /\ chnl'.Cancel = chnl.Cancel
      /\ chnl'.Request = chnl.Request /\ chnl'.Length = chnl.Length
      /\ chnl'.ActiveCount = Count(e)
  BY <1>2, <1>3, <1>5, <1>8 DEF ChnlFields
<1>10. DOMAIN local = LocalFields /\ DOMAIN port = PortFields
  BY DEF WinInv, WinTypes
<1>11. QED BY <1>1, <1>3, <1>5, <1>6, <1>7, <1>9, <1>10, WorkStep

\* While the call is at work nobody asks for a cancel.
LEMMA CallExits ==
  ASSUME WinInv, RiffaThreadExit("ioctl")
  PROVE  WinInv'
<1> DEFINE s == stack["ioctl"]
           e == RestOf(s)
<1>1. At("ioctl", "exit") /\ Working
  BY AtCall DEF RiffaThreadExit, WorkHeads
<1>2. /\ s # << >> /\ IoctlTower(s) /\ s \in Seq(Functions) /\ Head(Head(s)) = "exit"
      /\ chnl.ActiveCount = Count(s) /\ Count(s) \in Nat
  BY <1>1, WorkCount
<1>3. chnl.Length # 0 /\ DOMAIN chnl = ChnlFields
  BY <1>1, WorkLength DEF WinInv, WinTypes
<1>4. chnl.Cancel = 0
  BY <1>1 DEF WinInv, RequestInv
<1>5. /\ chnl' = [chnl EXCEPT !.ActiveCount = @ - 1] /\ req' = req
      /\ stack' = [stack EXCEPT !["ioctl"] = e]
  BY <1>3, <1>4 DEF RiffaThreadExit, Proceed, Rest, RestOf, ChnlFields
<1>6. /\ UNCHANGED <<way, intr, local, port>>
  BY DEF RiffaThreadExit, callerVars, fpgaVars
<1>7. IoctlTower(e) /\ e # << >>
  BY <1>2, IoctlRest
<1>8. Count(e) = Count(s) - 1
  BY <1>2, StepCounts
<1> HIDE DEF s, e
<1>9. /\ DOMAIN chnl' = ChnlFields /\ chnl'.InUse = chnl.InUse /\ chnl'.Cancel = chnl.Cancel
      /\ chnl'.Request = chnl.Request /\ chnl'.Length = chnl.Length
      /\ chnl'.ActiveCount = Count(e)
  BY <1>2, <1>3, <1>5, <1>8 DEF ChnlFields
<1>10. DOMAIN local = LocalFields /\ DOMAIN port = PortFields
  BY DEF WinInv, WinTypes
<1>11. QED BY <1>1, <1>3, <1>5, <1>6, <1>7, <1>9, <1>10, WorkStep

\* RiffaIoctlRecv finds a transaction announced, or announces itself.
LEMMA CallReady ==
  ASSUME WinInv, Ready
  PROVE  WinInv'
<1> DEFINE s == stack["ioctl"]
           e == IF chnl.Ready = 2 THEN << <<"start_recv">> >> \o RestOf(s) ELSE RestOf(s)
<1>1. At("ioctl", "ready") /\ Working
  BY AtCall DEF Ready, WorkHeads
<1>2. /\ s # << >> /\ IoctlTower(s) /\ s \in Seq(Functions) /\ Head(Head(s)) = "ready"
      /\ chnl.ActiveCount = Count(s) /\ Count(s) \in Nat
  BY <1>1, WorkCount
<1>3. stack' = [stack EXCEPT !["ioctl"] = e]
  BY DEF Ready, Call, Proceed, Rest, RestOf
<1>4. IoctlTower(RestOf(s)) /\ RestOf(s) # << >> /\ Count(RestOf(s)) = Count(s)
  BY <1>2, IoctlRest, StepCounts
<1>5. IoctlTower(e) /\ e # << >> /\ Count(e) = Count(s)
  <2>1. <<"start_recv">> \in IoctlHelpers /\ One(<<"start_recv">>) = 0
    <3>1. <<"start_recv">> \in IoctlHelpers
      BY DEF IoctlHelpers, Left1
    <3>2. ~Has(<<"start_recv">>, "exit")
      BY StepNames, Has1
    <3>3. QED BY <3>1, <3>2 DEF One, IsInside
  <2> DEFINE f == <<"start_recv">>
  <2>2. f \in IoctlHelpers /\ One(f) = 0
    BY <2>1
  <2> HIDE DEF f
  <2>3. IoctlTower(<<f>> \o RestOf(s)) /\ <<f>> \o RestOf(s) # << >>
        /\ Count(<<f>> \o RestOf(s)) = Count(s)
    BY <1>2, <2>2, IoctlCall
  <2>4. QED BY <1>4, <2>3 DEF f
<1>6. chnl.Length = 0 => e = << <<"mark">> >> /\ chnl.Ready # 2
  <2>1. ASSUME chnl.Length = 0 PROVE e = << <<"mark">> >> /\ chnl.Ready # 2
    <3>1. chnl.Ready # 2 /\ s \in {<< <<"ready", "mark">> >>, << <<"mark">> >>}
      BY <1>1, <2>1 DEF WinInv, LengthInv
    <3>2. Head(Head(<< <<"mark">> >>)) = "mark"
      OBVIOUS
    <3>3. s = << <<"ready", "mark">> >>
      BY <1>2, <3>1, <3>2
    <3>4. RestOf(<< <<"ready", "mark">> >>) = << <<"mark">> >>
      BY DEF RestOf
    <3>5. QED BY <3>1, <3>3, <3>4
  <2>2. QED BY <2>1
<1>7. /\ UNCHANGED <<way, intr, req, local, port>>
      /\ chnl' = [chnl EXCEPT !.Ready = IF chnl.Ready = 2 THEN 0 ELSE 1]
  BY DEF Ready, callerVars, fpgaVars
<1> HIDE DEF s, e
<1>8. /\ DOMAIN chnl' = ChnlFields /\ chnl'.InUse = chnl.InUse /\ chnl'.Cancel = chnl.Cancel
      /\ chnl'.Request = chnl.Request /\ chnl'.Length = chnl.Length
      /\ chnl'.ActiveCount = Count(e) /\ chnl'.Ready # 2
  BY <1>2, <1>5, <1>7 DEF ChnlFields, WinInv, WinTypes
<1>9. DOMAIN local = LocalFields /\ DOMAIN port = PortFields
  BY DEF WinInv, WinTypes
<1>10. QED BY <1>1, <1>3, <1>5, <1>6, <1>7, <1>8, <1>9, WorkStep

\* The handler returns when the request has been marked.
LEMMA CallMarks ==
  ASSUME WinInv, Mark
  PROVE  WinInv'
<1> DEFINE s == stack["ioctl"]
           n == Current
           f == [req[n] EXCEPT !.mark = "yes"]
<1>1. At("ioctl", "mark") /\ Working
  BY AtCall DEF Mark, WorkHeads
<1>2. /\ s # << >> /\ IoctlTower(s) /\ s \in Seq(Functions) /\ Head(Head(s)) = "mark"
      /\ chnl.ActiveCount = Count(s) /\ Count(s) \in Nat
  BY <1>1, WorkCount
<1>3. /\ stack["dpc"] = << >> /\ stack["timer"] = << >> /\ stack["cancel"] = << >>
  BY <1>1, AtCall
<1>4. RestOf(s) = << >> /\ Count(s) = 0
  <2>1. RestOf(s) = << >> /\ Count(RestOf(s)) = Count(s)
    BY <1>2, IoctlRest, StepCounts
  <2>2. QED BY <2>1, CountNothing
<1>5. stack' = [stack EXCEPT !["ioctl"] = << >>]
  BY <1>4 DEF Mark, Proceed, Rest, RestOf
<1>6. /\ chnl.Request = n /\ n > 0 /\ req[n].done = 0 /\ ~req[n].cancelled
      /\ req[n].mark = "no" /\ chnl.InUse = 1
  <2>1. chnl.Request = n /\ n > 0 /\ ~req[n].cancelled /\ req[n].mark = "no" /\ chnl.InUse = 1
    BY <1>1 DEF WinInv, RequestInv, InUseInv
  <2>2. chnl.Request # 0
    BY <2>1
  <2>3. QED BY <2>1, <2>2 DEF WinInv, RequestInv
<1>7. req' = [req EXCEPT ![n] = f]
  BY <1>6 DEF Mark
<1>8. UNCHANGED <<way, intr, chnl, local, port>>
  BY DEF Mark, callerVars, fpgaVars
<1>9. /\ IsSequence(req) /\ DOMAIN req = 1 .. n /\ n \in Nat /\ n \in DOMAIN req
      /\ \A r \in DOMAIN req : DOMAIN req[r] = ReqFields
  <2>1. IsSequence(req) /\ DOMAIN req = 1 .. n /\ n \in Nat
    BY IsSequenceIf DEF WinInv, WinTypes, IsSequence, Current
  <2>2. QED BY <1>6, <2>1 DEF WinInv, WinTypes
<1>10. DOMAIN f = ReqFields /\ f.mark = "yes" /\ f.done = 0 /\ ~f.cancelled
  BY <1>6, <1>9 DEF ReqFields
<1> HIDE DEF s, n, f
<1>11. /\ IsSequence(req') /\ Len(req') = Len(req) /\ DOMAIN req' = 1 .. n /\ req'[n] = f
       /\ \A k \in 1 .. n : k # n => req'[k] = req[k]
  BY <1>7, <1>9, RequestUpdate
<1>12. Current' = n /\ Current = n
  BY <1>11 DEF Current, n
<1>13. /\ stack'["ioctl"] = << >> /\ stack'["dpc"] = << >>
       /\ stack'["timer"] = << >> /\ stack'["cancel"] = << >>
       /\ ControlInv' /\ Resting("cancel")' /\ ~Announcing(stack'["dpc"])
       /\ ~At("dpc", "complete")' /\ ~At("timer", "timer_cancels")'
       /\ ~At("cancel", "cancel_cancels")' /\ ActiveCounted'
  <2>1. << >> \notin {<<RiffaIoctlSend>>, <<RiffaIoctlRecv>>, <<SettingUpSend>>,
                      <<SettingUpRecv>>}
    BY Apart
  <2>2. QED BY <1>2, <1>3, <1>4, <1>5, <1>8, <2>1, CountNothing, CallMoves DEF s
<1>14. WinTypes'
  <2>1. \A r \in DOMAIN req' : DOMAIN req'[r] = ReqFields
    BY <1>9, <1>10, <1>11
  <2>2. QED BY <1>8, <1>11, <2>1 DEF WinInv, WinTypes, NoIntr
<1>15. LengthInv'
  BY <1>8, <1>13, CallRests DEF WinInv, LengthInv
<1>16. RequestInv'
  <2>1. \A r \in 1 .. n : req'[r].done \in 0 .. 1
    <3>1. \A r \in 1 .. n : req[r].done \in 0 .. 1
      BY <1>12 DEF WinInv, RequestInv
    <3>2. QED BY <1>10, <1>11, <3>1
  <2>2. QED BY <1>6, <1>8, <1>10, <1>11, <1>12, <1>13, <2>1, CallRests DEF RequestInv
<1>17. InUseInv'
  <2>1. ~IsCancelling'
    BY <1>10, <1>11, <1>12 DEF IsCancelling
  <2>2. chnl'.Request # 0
    BY <1>6, <1>8, <1>9
  <2>3. QED BY <1>6, <1>8, <1>13, <2>1, <2>2, CallRests DEF InUseInv
<1>18. QED BY <1>13, <1>14, <1>15, <1>16, <1>17 DEF WinInv

-----------------------------------------------------------------------------
(* A call before its work.                                                 *)

\* A call adds its request to the list.
LEMMA RequestAdded ==
  ASSUME IsSequence(req), NEW e, req' = Append(req, e)
  PROVE  /\ IsSequence(req') /\ Current' = Current + 1 /\ Current \in Nat
         /\ DOMAIN req' = 1 .. Current + 1 /\ DOMAIN req = 1 .. Current
         /\ req'[Current + 1] = e /\ \A k \in 1 .. Current : req'[k] = req[k]
<1> DEFINE S == { req[k] : k \in DOMAIN req } \cup {e}
           n == Current
<1>1. DOMAIN req = 1 .. n /\ n \in Nat
  BY IsSequenceIf DEF IsSequence, Current
<1>2. req \in Seq(S) /\ e \in S
  <2>1. req \in Seq({ req[k] : k \in DOMAIN req })
    BY DEF IsSequence
  <2>2. QED BY <2>1
<1> HIDE DEF S
<1>3. /\ Append(req, e) \in Seq(S) /\ Len(Append(req, e)) = Len(req) + 1
      /\ Append(req, e)[Len(req) + 1] = e
      /\ \A k \in 1 .. Len(req) : Append(req, e)[k] = req[k]
  BY <1>2, AppendProperties
<1>4. IsSequence(req') /\ DOMAIN req' = 1 .. Len(req')
  BY <1>3, IsSequenceIf DEF IsSequence
<1>5. QED BY <1>1, <1>3, <1>4 DEF Current

\* The last call's request is completed before the next call begins.
LEMMA TransferBegins ==
  ASSUME WinInv, OneAtATime, NEW n \in Sizes, NEW timed, BeginTransfer(n, timed)
  PROVE  WinInv'
<1> DEFINE f == IF way = "send" THEN RiffaIoctlSend ELSE RiffaIoctlRecv
           e == <<f>>
           m == Current
<1>1. stack["dpc"] = << >> /\ stack["timer"] = << >> /\ stack["cancel"] = << >>
      /\ stack["ioctl"] = << >>
  BY DEF BeginTransfer, Begin, OneAtATime, Resting, Threads
<1>2. stack' = [stack EXCEPT !["ioctl"] = e]
  BY DEF BeginTransfer, Begin
<1>3. UNCHANGED <<way, chnl, intr, port>>
  BY DEF BeginTransfer
<1>4. DOMAIN local' = LocalFields /\ local'.size = n /\ n \in Nat \ {0}
  <2>1. n \in Nat \ {0}
    BY WinAssumption DEF Sizes, OneAtATime
  <2>2. QED BY <2>1 DEF BeginTransfer, LocalFields, WinInv, WinTypes
<1>5. /\ IsSequence(req') /\ Current' = m + 1 /\ m \in Nat
      /\ DOMAIN req' = 1 .. m + 1 /\ DOMAIN req = 1 .. m
      /\ req'[m + 1] = Request(timed) /\ \A k \in 1 .. m : req'[k] = req[k]
  BY RequestAdded DEF WinInv, WinTypes, BeginTransfer
<1>6. DOMAIN Request(timed) = ReqFields /\ Request(timed).done = 0
      /\ ~Request(timed).cancelled /\ Request(timed).mark = "no"
  BY DEF Request, ReqFields
<1>7. chnl.Request = 0
  <2>1. CASE req = << >>
    <3>1. m = 0
      BY <2>1 DEF Current
    <3>2. QED BY <3>1 DEF WinInv, RequestInv
  <2>2. CASE req # << >>
    <3>1. req[Current].done # 0
      BY <2>2, WinInv DEF BeginTransfer, WinInv, RequestInv
    <3>2. QED BY <3>1 DEF WinInv, RequestInv
  <2>3. QED BY <2>1, <2>2
<1>8. f \in {RiffaIoctlSend, RiffaIoctlRecv} /\ f \in CallFunctions
  BY DEF CallFunctions
<1> HIDE DEF f, m
<1>9. Count(e) = 0
  BY <1>8, CallCounts
<1>10. chnl.ActiveCount = 0
  <2>1. chnl.ActiveCount = Count(stack["ioctl"]) + Count(stack["dpc"])
    BY DEF WinInv, ActiveCounted, Inside, Count, InsideOf
  <2>2. QED BY <1>1, <2>1, CountNothing
<1>11. /\ stack'["ioctl"] = e /\ stack'["dpc"] = << >>
       /\ stack'["timer"] = << >> /\ stack'["cancel"] = << >>
       /\ ControlInv' /\ Resting("cancel") /\ Resting("cancel")' /\ ~Announcing(stack'["dpc"])
       /\ ~At("dpc", "complete")' /\ ~At("timer", "timer_cancels")
       /\ ~At("timer", "timer_cancels")'
       /\ ~At("cancel", "cancel_cancels")' /\ ActiveCounted'
  <2> HIDE DEF e
  <2>1. e = << >> \/ (IoctlTower(e) /\ e # << >>) \/ \E g \in CallFunctions : e = <<g>>
    BY <1>8 DEF e
  <2>2. local'.size \in Nat \ {0} /\ chnl'.ActiveCount = Count(e)
    BY <1>3, <1>4, <1>9, <1>10
  <2>3. QED BY <1>1, <1>2, <2>1, <2>2, CallMoves
<1>12. Claiming' /\ ~SettingUp' /\ ~Working' /\ e \notin Resets /\ ~At("ioctl", "reset_request")'
  <2>1. /\ Claiming' <=> e \in {<<RiffaIoctlSend>>, <<RiffaIoctlRecv>>}
        /\ SettingUp' <=> e \in {<<SettingUpSend>>, <<SettingUpRecv>>}
        /\ Working' <=> IoctlTower(e) /\ e # << >>
        /\ e \in Resets <=> e \in {<<Reset2>>, <<Reset1>>}
        /\ At("ioctl", "reset_request")' <=> e = <<Reset2>>
    BY <1>8, <1>11, Stages
  <2>2. e \in {<<RiffaIoctlSend>>, <<RiffaIoctlRecv>>}
    BY <1>8
  <2>3. ~IoctlTower(e)
    BY <1>8, CallCounts
  <2>4. e \notin {<<SettingUpSend>>, <<SettingUpRecv>>, <<Reset2>>, <<Reset1>>}
    BY <1>8, Apart DEF CallFunctions
  <2>5. QED BY <2>1, <2>2, <2>3, <2>4
<1> HIDE DEF e
<1>13. WinTypes'
  <2>1. \A r \in DOMAIN req' : DOMAIN req'[r] = ReqFields
    BY <1>5, <1>6 DEF WinInv, WinTypes
  <2>2. QED BY <1>3, <1>4, <1>5, <2>1 DEF WinInv, WinTypes, NoIntr
<1>14. LengthInv'
  BY <1>3, <1>11, <1>12 DEF WinInv, LengthInv
<1>15. RequestInv'
  <2>1. \A r \in 1 .. m + 1 : req'[r].done \in 0 .. 1
    <3>1. \A r \in 1 .. m : req[r].done \in 0 .. 1
      BY DEF WinInv, RequestInv, m
    <3>2. QED BY <1>5, <1>6, <3>1
  <2>2. m + 1 > 0
    BY <1>5
  <2>3. QED BY <1>3, <1>5, <1>6, <1>7, <1>11, <1>12, <2>1, <2>2 DEF RequestInv
<1>16. InUseInv'
  <2>1. ~IsCancelling'
    BY <1>5, <1>6 DEF IsCancelling
  <2>2. chnl.InUse = 1 => chnl.Cancel = 1
    BY <1>1, <1>7, <1>11, CallRests DEF WinInv, InUseInv
  <2>3. QED BY <1>3, <1>7, <1>11, <1>12, <2>1, <2>2 DEF InUseInv
<1>17. QED BY <1>11, <1>13, <1>14, <1>15, <1>16 DEF WinInv

\* The channel is set up for the request of the call.
LEMMA CallClaims ==
  ASSUME WinInv, Claim
  PROVE  WinInv'
<1> DEFINE m == Current
<1>1. /\ At("ioctl", "claim") /\ UNCHANGED <<way, intr, local, port>>
      /\ chnl' = [chnl EXCEPT !.InUse = 1] /\ DOMAIN chnl = ChnlFields /\ WinTypes
  BY DEF Claim, callerVars, fpgaVars, WinInv, WinTypes
<1>2. /\ Claiming /\ stack["dpc"] = << >> /\ stack["timer"] = << >> /\ stack["cancel"] = << >>
  BY <1>1, AtCall
<1>3. PICK f \in {RiffaIoctlSend, RiffaIoctlRecv} : stack["ioctl"] = <<f>>
  BY <1>2 DEF Claiming
<1>4. PICK g \in {SettingUpSend, SettingUpRecv} : Tail(f) = g /\ Len(f) # 1
  BY <1>3, CallHeads
<1>5. f \in CallFunctions /\ g \in CallFunctions
  BY <1>3, <1>4 DEF CallFunctions
<1>6. /\ chnl.Request = 0 /\ m > 0 /\ req[m].done = 0 /\ ~req[m].cancelled
      /\ req[m].mark = "no" /\ local.size \in Nat \ {0}
  BY <1>2 DEF WinInv, RequestInv, ControlInv
<1>7. /\ DOMAIN chnl' = ChnlFields /\ chnl'.InUse = 1 /\ chnl'.Cancel = chnl.Cancel
      /\ chnl'.Request = chnl.Request /\ chnl'.Length = chnl.Length
      /\ chnl'.ActiveCount = chnl.ActiveCount /\ chnl'.Ready = chnl.Ready
  BY <1>1 DEF ChnlFields
<1>8. Count(stack["ioctl"]) = 0
  BY <1>3, <1>5, CallCounts
<1>9. m \in DOMAIN req /\ DOMAIN req = 1 .. m /\ m \in Nat
  <2>1. DOMAIN req = 1 .. m /\ m \in Nat
    BY IsSequenceIf DEF WinInv, WinTypes, IsSequence, Current
  <2>2. QED BY <1>6, <2>1
<1>10. CASE chnl.InUse = 1
  <2>1. Complete(m, "refused", 0) /\ Return("ioctl")
    BY <1>10 DEF Claim
  <2>2. stack' = [stack EXCEPT !["ioctl"] = << >>]
    BY <1>3, <1>5, <2>1, CallCounts DEF Return
  <2> HIDE DEF m
  <2>3. /\ IsSequence(req') /\ Len(req') = Len(req) /\ DOMAIN req' = DOMAIN req
        /\ \A k \in DOMAIN req : /\ DOMAIN req'[k] = ReqFields
                                 /\ req'[k].mark = req[k].mark
                                 /\ req'[k].cancelled = req[k].cancelled
        /\ \A k \in DOMAIN req \ {m} : req'[k] = req[k]
        /\ req[m].done = 0 => req'[m].done = 1
    BY <1>1, <1>9, <2>1, Completed
  <2>4. Current' = m
    BY <2>3 DEF Current, m
  <2>5. /\ stack'["ioctl"] = << >> /\ stack'["dpc"] = << >>
        /\ stack'["timer"] = << >> /\ stack'["cancel"] = << >>
        /\ ControlInv' /\ Resting("cancel")' /\ ~Announcing(stack'["dpc"])
        /\ ~At("dpc", "complete")' /\ ~At("timer", "timer_cancels")'
        /\ ~At("cancel", "cancel_cancels")' /\ ActiveCounted'
    <3>1. chnl.ActiveCount = Count(stack["ioctl"])
      BY <1>2, <1>6, <1>1, <2>2, CallMoves
    <3>2. QED BY <1>1, <1>2, <1>6, <1>7, <1>8, <2>2, <3>1, CountNothing, CallMoves
  <2>6. WinTypes'
    BY <1>1, <1>7, <2>3 DEF WinInv, WinTypes, NoIntr
  <2>7. LengthInv'
    BY <1>1, <1>7, <2>5, CallRests DEF WinInv, LengthInv
  <2>8. RequestInv'
    <3>1. \A r \in 1 .. m : req'[r].done \in 0 .. 1
      BY <1>6, <1>9, <2>3 DEF WinInv, RequestInv, m
    <3>2. QED BY <1>6, <1>7, <2>4, <2>5, <3>1, CallRests DEF RequestInv
  <2>9. InUseInv'
    <3>1. ~IsCancelling'
      BY <1>6, <1>9, <2>3, <2>4 DEF IsCancelling
    <3>2. chnl.Cancel = 1
      <4>1. ~SettingUp
        <5>1. stack["ioctl"] \notin {<<SettingUpSend>>, <<SettingUpRecv>>}
          BY <1>3, <1>5, Apart DEF CallFunctions
        <5>2. QED BY <5>1 DEF SettingUp, SettingUpSend, SettingUpRecv
      <4>2. Resting("cancel") /\ ~At("timer", "timer_cancels")
        BY <1>2 DEF Resting, At
      <4>3. QED BY <1>6, <1>10, <4>1, <4>2 DEF WinInv, InUseInv
    <3>3. QED BY <1>6, <1>7, <2>5, <3>1, <3>2, CallRests DEF InUseInv
  <2>10. QED BY <2>5, <2>6, <2>7, <2>8, <2>9 DEF WinInv
<1>11. CASE chnl.InUse # 1
  <2> DEFINE e == <<g>>
  <2>1. req' = req /\ Proceed("ioctl")
    BY <1>11 DEF Claim
  <2>2. stack' = [stack EXCEPT !["ioctl"] = e]
    <3>1. Head(<<f>>) = f /\ Tail(<<f>>) = << >> /\ <<g>> \o << >> = <<g>>
      OBVIOUS
    <3>2. Rest("ioctl") = <<g>>
      BY <1>3, <1>4, <3>1 DEF Rest
    <3>3. QED BY <2>1, <3>2 DEF Proceed
  <2>3. Current' = m
    BY <2>1 DEF Current
  <2>4. Count(e) = 0
    BY <1>5, CallCounts
  <2>5. e \in {<<SettingUpSend>>, <<SettingUpRecv>>} /\ ~IoctlTower(e)
    BY <1>4, <1>5, CallCounts
  <2>6. e = << >> \/ (IoctlTower(e) /\ e # << >>) \/ \E h \in CallFunctions : e = <<h>>
    BY <1>5
  <2>7. e \notin {<<RiffaIoctlSend>>, <<RiffaIoctlRecv>>, <<Reset2>>, <<Reset1>>}
    BY <1>4, <1>5, Apart DEF CallFunctions
  <2> HIDE DEF e, m
  <2>8. local'.size \in Nat \ {0}
    BY <1>1, <1>6
  <2>9. /\ stack'["ioctl"] = e /\ stack'["dpc"] = << >>
        /\ stack'["timer"] = << >> /\ stack'["cancel"] = << >>
        /\ ControlInv' /\ Resting("cancel")' /\ ~Announcing(stack'["dpc"])
        /\ ~At("dpc", "complete")' /\ ~At("timer", "timer_cancels")'
        /\ ~At("cancel", "cancel_cancels")' /\ ActiveCounted'
    <3>1. chnl.ActiveCount = Count(stack["ioctl"])
      BY <1>2, <2>2, <2>6, <2>8, CallMoves
    <3>2. QED BY <1>2, <1>7, <1>8, <2>2, <2>4, <2>6, <2>8, <3>1, CallMoves
  <2>10. /\ ~Claiming' /\ SettingUp' /\ ~Working' /\ e \notin Resets
         /\ ~At("ioctl", "reset_request")'
    BY <2>5, <2>6, <2>7, <2>9, Stages
  <2>11. WinTypes'
    BY <1>1, <1>7, <2>1 DEF WinInv, WinTypes, NoIntr, IsSequence
  <2>12. LengthInv'
    BY <1>1, <1>7, <2>9, <2>10 DEF WinInv, LengthInv
  <2>13. RequestInv'
    <3>1. \A r \in 1 .. m : req[r].done \in 0 .. 1
      BY DEF WinInv, RequestInv, m
    <3>2. QED BY <1>6, <1>7, <2>1, <2>3, <2>9, <2>10, <3>1 DEF RequestInv
  <2>14. InUseInv'
    <3>1. ~IsCancelling'
      BY <1>6, <2>1, <2>3 DEF IsCancelling
    <3>2. QED BY <1>6, <1>7, <2>9, <2>10, <3>1 DEF InUseInv
  <2>15. QED BY <2>9, <2>11, <2>12, <2>13, <2>14 DEF WinInv
<1>12. QED BY <1>10, <1>11

\* What follows the set-up, in a send and in a recv.
LEMMA FirstWork ==
  ASSUME NEW g \in Works, Len(g) = 2
  PROVE  /\ IoctlTower(<<g>>) /\ <<g>> # << >> /\ Count(<<g>>) = 0
         /\ <<g>> \notin {<<f>> : f \in CallFunctions}
<1>1. IoctlTower(<<g>>) /\ <<g>> # << >>
  <2>1. Len(<<g>>) = 1 /\ <<g>>[1] = g /\ <<g>> \in Seq(IoctlHelpers \cup Works)
    OBVIOUS
  <2>2. QED BY <2>1 DEF IoctlTower, Tower
<1>2. Count(<<g>>) = 0
  <2>1. {"execute", "mark"} \subseteq Steps /\ {"ready", "mark"} \subseteq Steps
        /\ "mark" \in Steps
    BY StepNames
  <2>2. /\ Has(<<"execute", "mark">>, "exit") <=> "exit" \in {"execute", "mark"}
        /\ Has(<<"ready", "mark">>, "exit") <=> "exit" \in {"ready", "mark"}
    BY <2>1, Has2, Zenon
  <2>3. Has(<<"mark">>, "exit") <=> "exit" = "mark"
    BY <2>1, Has1, Zenon
  <2>4. One(g) = 0
    BY <2>2, <2>3 DEF Works, Left2, One, IsInside
  <2>5. << >> \in Seq({g}) /\ <<g>> \o << >> = <<g>>
    OBVIOUS
  <2>6. Count(<<g>> \o << >>) = One(g) + Count(<< >>)
    BY <2>5, CountPush, Zenon
  <2>7. QED BY <2>4, <2>5, <2>6, CountNothing
<1>3. QED BY <1>1, <1>2, CallCounts

\* After InUse the request becomes the channel's.
LEMMA CallSetsUp ==
  ASSUME WinInv, SetUpSend \/ SetUpRecv
  PROVE  WinInv'
<1> DEFINE m == Current
           x == IF SetUpSend THEN "set_up_send" ELSE "set_up_recv"
           f == IF SetUpSend THEN SettingUpSend ELSE SettingUpRecv
           g == IF SetUpSend THEN <<"execute", "mark">> ELSE <<"ready", "mark">>
           e == <<g>>
<1>1. At("ioctl", x) /\ UNCHANGED <<way, intr, local>> /\ DOMAIN chnl = ChnlFields
  BY DEF SetUpSend, SetUpRecv, callerVars, WinInv, WinTypes
<1>2. /\ stack["dpc"] = << >> /\ stack["timer"] = << >> /\ stack["cancel"] = << >>
      /\ stack["ioctl"] = <<f>>
  BY <1>1, AtCall
<1>3. SettingUp
  BY <1>2 DEF SettingUp, SettingUpSend, SettingUpRecv
<1>4. /\ m > 0 /\ req[m].done = 0 /\ ~req[m].cancelled
      /\ req[m].mark = "no" /\ local.size \in Nat \ {0} /\ chnl.InUse = 1
  BY <1>3 DEF WinInv, RequestInv, ControlInv, InUseInv
<1>5. local.size > 0
  BY <1>4
<1>6. SetUpSend => \E last \in Lasts :
         /\ chnl' = [Fresh(chnl) EXCEPT !.Length = local.size, !.SpillAfter = local.size,
                                       !.Last = last]
         /\ Proceed("ioctl") /\ UNCHANGED <<req, port>>
  <2> HIDE DEF m, x, f, g
  <2>1. QED BY <1>5 DEF SetUpSend
<1>7. ~SetUpSend => /\ chnl' = [Fresh(chnl) EXCEPT !.Capacity = local.size]
                     /\ Proceed("ioctl") /\ UNCHANGED <<req, port>>
  <2> HIDE DEF m, x, f, g
  <2>1. QED BY DEF SetUpRecv, fpgaVars
<1>8. UNCHANGED <<req, port>> /\ Proceed("ioctl")
  BY <1>6, <1>7
<1>9. /\ DOMAIN chnl' = ChnlFields /\ chnl'.InUse = 1 /\ chnl'.Cancel = 0
      /\ chnl'.Request = m /\ chnl'.ActiveCount = 0 /\ chnl'.Ready = chnl.Ready
      /\ SetUpSend => chnl'.Length = local.size
      /\ ~SetUpSend => chnl'.Length = chnl.Length
  <2>1. CASE SetUpSend
    <3>1. PICK last \in Lasts :
            chnl' = [Fresh(chnl) EXCEPT !.Length = local.size, !.SpillAfter = local.size,
                                        !.Last = last]
      BY <1>6, <2>1
    <3>2. QED BY <1>1, <1>4, <2>1, <3>1 DEF Fresh, ChnlFields
  <2>2. CASE ~SetUpSend
    <3>1. chnl' = [Fresh(chnl) EXCEPT !.Capacity = local.size]
      BY <1>7, <2>2
    <3>2. QED BY <1>1, <1>4, <2>2, <3>1 DEF Fresh, ChnlFields
  <2>3. QED BY <2>1, <2>2
<1>10. Len(f) = 3 /\ Tail(f) = g /\ f \in CallFunctions
  BY CallHeads DEF CallFunctions
<1>11. g \in Works /\ Len(g) = 2
  BY DEF Works, Left2
<1>12. stack' = [stack EXCEPT !["ioctl"] = e]
  <2> HIDE DEF f, g
  <2>1. Head(<<f>>) = f /\ Tail(<<f>>) = << >> /\ <<g>> \o << >> = <<g>>
    OBVIOUS
  <2>2. Rest("ioctl") = <<g>>
    <3>1. Len(f) # 1 /\ Tail(f) = g /\ stack["ioctl"] = <<f>>
      BY <1>2, <1>10
    <3>2. QED BY <2>1, <3>1 DEF Rest
  <2>3. QED BY <1>8, <2>2 DEF Proceed
<1>13. /\ IoctlTower(e) /\ e # << >> /\ Count(e) = 0
       /\ e \notin {<<h>> : h \in CallFunctions}
  <2> HIDE DEF g
  <2>1. QED BY <1>11, FirstWork
<1>14. ~SetUpSend => e = << <<"ready", "mark">> >>
  OBVIOUS
<1> HIDE DEF e, g, f, x, m
<1>15. e \notin {<<RiffaIoctlSend>>, <<RiffaIoctlRecv>>, <<SettingUpSend>>, <<SettingUpRecv>>,
                 <<Reset2>>, <<Reset1>>}
  BY <1>13 DEF CallFunctions
<1>16. /\ stack'["ioctl"] = e /\ stack'["dpc"] = << >>
       /\ stack'["timer"] = << >> /\ stack'["cancel"] = << >>
       /\ ControlInv' /\ Resting("cancel")' /\ ~Announcing(stack'["dpc"])
       /\ ~At("dpc", "complete")' /\ ~At("timer", "timer_cancels")'
       /\ ~At("cancel", "cancel_cancels")' /\ ActiveCounted'
  BY <1>2, <1>9, <1>12, <1>13, <1>15, CallMoves
<1>17. /\ ~Claiming' /\ ~SettingUp' /\ Working' /\ e \notin Resets
       /\ ~At("ioctl", "reset_request")'
  BY <1>13, <1>15, <1>16, Stages
<1>18. chnl'.Length \in Nat
  BY <1>4, <1>9 DEF WinInv, WinTypes
<1>19. WinTypes'
  BY <1>1, <1>8, <1>9, <1>18 DEF WinInv, WinTypes, NoIntr, IsSequence
<1>20. LengthInv'
  <2>1. chnl'.Length = 0 => chnl.Length = 0 /\ ~SetUpSend
    BY <1>4, <1>9
  <2>2. QED BY <1>1, <1>8, <1>9, <1>14, <1>16, <1>17, <2>1 DEF WinInv, LengthInv
<1>21. Current' = m /\ Current = m
  BY <1>8 DEF Current, m
<1>22. RequestInv'
  BY <1>4, <1>8, <1>9, <1>16, <1>17, <1>21 DEF WinInv, RequestInv
<1>23. InUseInv'
  <2>1. ~IsCancelling'
    BY <1>4, <1>8, <1>21 DEF IsCancelling
  <2>2. QED BY <1>4, <1>9, <1>16, <1>17, <2>1 DEF InUseInv
<1>24. QED BY <1>16, <1>19, <1>20, <1>22, <1>23 DEF WinInv

-----------------------------------------------------------------------------
(* The reset of a channel.                                                 *)
ResetStacks == {<<RiffaIoctlReset>>, <<Reset3>>, <<Reset2>>, <<Reset1>>, << >>}

\* The port and the interrupt's data are left alone or cleared.
LEMMA ResetStep ==
  ASSUME WinInv, stack["dpc"] = << >>, stack["timer"] = << >>, stack["cancel"] = << >>,
         NEW e \in ResetStacks, stack' = [stack EXCEPT !["ioctl"] = e],
         Count(stack["ioctl"]) = 0, UNCHANGED <<way, local>>,
         port' = port \/ port' = IdlePort, intr' = intr \/ intr' = NoIntr,
         DOMAIN chnl' = ChnlFields, chnl'.Length = chnl.Length,
         chnl'.ActiveCount \in {chnl.ActiveCount, 0},
         chnl'.Ready = chnl.Ready \/ chnl'.Ready = 0,
         IsSequence(req'), \A r \in DOMAIN req' : DOMAIN req'[r] = ReqFields,
         \A r \in 1 .. Current' : req'[r].done \in 0 .. 1,
         chnl'.Request \in {0, Current'}, chnl'.Request # 0 => req'[Current'].done = 0,
         e = <<Reset1>> \/ e = <<Reset2>> \/ e = << >> => chnl'.InUse = 0,
         e # <<Reset2>> /\ chnl'.Request # 0 => chnl'.InUse = 1 \/ IsCancelling',
         (e = <<RiffaIoctlReset>> \/ e = <<Reset3>>) /\ chnl'.InUse = 1
           /\ (chnl'.Request = 0 \/ IsCancelling') => chnl'.Cancel = 1
  PROVE  WinInv'
<1>1. e = << >> \/ (IoctlTower(e) /\ e # << >>) \/ \E f \in CallFunctions : e = <<f>>
  BY DEF ResetStacks, CallFunctions
<1>2. /\ e \notin {<<RiffaIoctlSend>>, <<RiffaIoctlRecv>>, <<SettingUpSend>>, <<SettingUpRecv>>}
      /\ ~(IoctlTower(e) /\ e # << >>) /\ Count(e) = 0
      /\ e \in {<<Reset2>>, <<Reset1>>} => chnl'.InUse = 0
      /\ e # <<Reset2>> /\ e # <<Reset1>> /\ e # << >> => e \in {<<RiffaIoctlReset>>, <<Reset3>>}
  BY Apart, CallCounts, CountNothing DEF ResetStacks, CallFunctions
<1>3. /\ stack'["ioctl"] = e /\ stack'["dpc"] = << >>
      /\ stack'["timer"] = << >> /\ stack'["cancel"] = << >>
      /\ ControlInv' /\ Resting("cancel")' /\ ~Announcing(stack'["dpc"])
      /\ ~At("dpc", "complete")' /\ ~At("timer", "timer_cancels")'
      /\ ~At("cancel", "cancel_cancels")'
      /\ chnl.ActiveCount = 0
      /\ chnl'.ActiveCount = Count(e) => ActiveCounted'
  BY <1>1, <1>2, CallMoves
<1>4. ActiveCounted'
  BY <1>2, <1>3
<1>5. /\ ~Claiming' /\ ~SettingUp' /\ ~Working'
      /\ e \in Resets <=> e \in {<<Reset2>>, <<Reset1>>}
      /\ At("ioctl", "reset_request")' <=> e = <<Reset2>>
  BY <1>1, <1>2, <1>3, Stages
<1>6. WinTypes'
  <2>1. DOMAIN port' = PortFields /\ port'.vect \subseteq {"txn", "sg", "done"}
    BY DEF WinInv, WinTypes, IdlePort, PortFields
  <2>2. /\ DOMAIN intr' = IntrFields
        /\ intr'.NewTxn \in BOOLEAN /\ intr'.SgRead \in BOOLEAN /\ intr'.Done \in BOOLEAN
        /\ intr' = NoIntr \/ intr'.NewTxn \/ intr'.SgRead \/ intr'.Done
    <3>1. CASE intr' = intr
      BY <3>1 DEF WinInv, WinTypes
    <3>2. CASE intr' = NoIntr
      BY <3>2 DEF NoIntr, IntrFields
    <3>3. QED BY <3>1, <3>2
  <2>3. QED BY <2>1, <2>2 DEF WinInv, WinTypes, NoIntr
<1>7. LengthInv'
  <2>1. port'.vect = {} \/ port' = port
    BY DEF IdlePort
  <2>2. "txn" \in port'.vect => port' = port
    BY <2>1
  <2>3. chnl.Length = 0 => /\ port'.sg = << >> /\ port'.request = << >> /\ ~port'.partial
                           /\ port'.st # "moved" /\ port'.vect \subseteq {"txn"}
    BY DEF IdlePort, WinInv, LengthInv
  <2>4. chnl.Length = 0 => ~intr'.SgRead /\ ~intr'.Done /\ chnl'.Ready # 2
    BY DEF NoIntr, WinInv, LengthInv
  <2>5. intr'.NewTxn => intr' = intr
    BY DEF NoIntr
  <2>6. QED BY <1>3, <1>5, <2>2, <2>3, <2>4, <2>5 DEF WinInv, LengthInv
<1>8. RequestInv'
  BY <1>3, <1>5 DEF RequestInv
<1>9. InUseInv'
  BY <1>2, <1>3, <1>5 DEF InUseInv
<1>10. QED BY <1>3, <1>4, <1>6, <1>7, <1>8, <1>9 DEF WinInv

\* What the invariant says of the list of requests.
LEMMA RequestFacts ==
  ASSUME WinInv
  PROVE  /\ IsSequence(req) /\ \A r \in DOMAIN req : DOMAIN req[r] = ReqFields
         /\ \A r \in 1 .. Current : req[r].done \in 0 .. 1
         /\ chnl.Request \in {0, Current} /\ (chnl.Request # 0 => req[Current].done = 0)
         /\ DOMAIN req = 1 .. Current /\ DOMAIN chnl = ChnlFields
  BY IsSequenceIf DEF WinInv, WinTypes, RequestInv, Current, IsSequence

\* A reset begins when every thread is through.
LEMMA ResetBegins ==
  ASSUME WinInv, OneAtATime, Begin(RiffaIoctlReset),
         UNCHANGED <<way, chnl, wdf, req, intr, local, fpgaVars, stale>>
  PROVE  WinInv'
<1>1. /\ stack["dpc"] = << >> /\ stack["timer"] = << >> /\ stack["cancel"] = << >>
      /\ stack["ioctl"] = << >> /\ stack' = [stack EXCEPT !["ioctl"] = <<RiffaIoctlReset>>]
  BY DEF Begin, OneAtATime, Resting, Threads
<1>2. Current' = Current /\ (IsCancelling' <=> IsCancelling) /\ port' = port
  BY DEF Current, IsCancelling, fpgaVars
<1>3. /\ chnl.Request # 0 => chnl.InUse = 1 \/ IsCancelling
      /\ chnl.InUse = 1 /\ (chnl.Request = 0 \/ IsCancelling) => chnl.Cancel = 1
  BY <1>1, CallRests DEF WinInv, InUseInv, At, Resting
<1>4. <<RiffaIoctlReset>> \in ResetStacks /\ <<RiffaIoctlReset>> # <<Reset2>>
      /\ <<RiffaIoctlReset>> # <<Reset1>> /\ <<RiffaIoctlReset>> # << >>
  BY Apart DEF ResetStacks, CallFunctions
<1>5. QED BY <1>1, <1>2, <1>3, <1>4, RequestFacts, CountNothing, ResetStep

\* A reset is alone, and takes its four steps in order.
LEMMA AtReset ==
  ASSUME WinInv, NEW f \in {RiffaIoctlReset, Reset3, Reset2, Reset1}, At("ioctl", Head(f)),
         Proceed("ioctl")
  PROVE  /\ stack["dpc"] = << >> /\ stack["timer"] = << >> /\ stack["cancel"] = << >>
         /\ stack["ioctl"] = <<f>> /\ Count(stack["ioctl"]) = 0
         /\ stack' = [stack EXCEPT !["ioctl"] = IF f = Reset1 THEN << >> ELSE <<Tail(f)>>]
<1>1. /\ stack["dpc"] = << >> /\ stack["timer"] = << >> /\ stack["cancel"] = << >>
      /\ stack["ioctl"] = <<f>>
  BY AtCall, CallHeads
<1>2. Count(stack["ioctl"]) = 0
  BY <1>1, CallCounts DEF CallFunctions
<1>3. Len(f) = 1 <=> f = Reset1
  <2>1. CASE f = RiffaIoctlReset \/ f = Reset3 \/ f = Reset2
    <3>1. Len(f) # 1 /\ Len(Reset1) = 1
      BY <2>1, CallHeads
    <3>2. QED BY <3>1
  <2>2. CASE f = Reset1
    BY <2>2, CallHeads
  <2>3. QED BY <2>1, <2>2
<1>4. Head(<<f>>) = f /\ Tail(<<f>>) = << >> /\ <<Tail(f)>> \o << >> = <<Tail(f)>>
  OBVIOUS
<1>5. Rest("ioctl") = IF f = Reset1 THEN << >> ELSE <<Tail(f)>>
  BY <1>1, <1>3, <1>4 DEF Rest
<1>6. QED BY <1>1, <1>2, <1>5 DEF Proceed

\* The FPGA is reset.
LEMMA ResetsFpga ==
  ASSUME WinInv, ResetFpga
  PROVE  WinInv'
<1>1. /\ stack["dpc"] = << >> /\ stack["timer"] = << >> /\ stack["cancel"] = << >>
      /\ stack["ioctl"] = <<RiffaIoctlReset>> /\ Count(stack["ioctl"]) = 0
      /\ stack' = [stack EXCEPT !["ioctl"] = <<Reset3>>]
  BY AtReset, CallHeads DEF ResetFpga
<1>2. UNCHANGED <<way, chnl, req, intr, local>> /\ port' = IdlePort
  BY DEF ResetFpga, callerVars
<1>3. Current' = Current /\ (IsCancelling' <=> IsCancelling)
  BY <1>2 DEF Current, IsCancelling
<1>4. /\ chnl.Request # 0 => chnl.InUse = 1 \/ IsCancelling
      /\ chnl.InUse = 1 /\ (chnl.Request = 0 \/ IsCancelling) => chnl.Cancel = 1
  <2>1. ~SettingUp /\ ~At("ioctl", "reset_request")
    <3>1. <<RiffaIoctlReset>> \notin {<<SettingUpSend>>, <<SettingUpRecv>>}
      BY Apart DEF CallFunctions
    <3>2. Head(Head(<<RiffaIoctlReset>>)) = "reset_fpga"
      BY CallHeads
    <3>3. QED BY <1>1, <3>1, <3>2 DEF SettingUp, SettingUpSend, SettingUpRecv, At
  <2>2. QED BY <1>1, <2>1 DEF WinInv, InUseInv, At, Resting
<1>5. <<Reset3>> \in ResetStacks /\ <<Reset3>> # <<Reset2>>
      /\ <<Reset3>> # <<Reset1>> /\ <<Reset3>> # << >>
  BY Apart DEF ResetStacks, CallFunctions
<1>6. QED BY <1>1, <1>2, <1>3, <1>4, <1>5, RequestFacts, ResetStep

\* The channel is free again and its announcements are forgotten.
LEMMA ResetsChannel ==
  ASSUME WinInv, ResetChannel
  PROVE  WinInv'
<1>1. /\ stack["dpc"] = << >> /\ stack["timer"] = << >> /\ stack["cancel"] = << >>
      /\ Count(stack["ioctl"]) = 0 /\ stack' = [stack EXCEPT !["ioctl"] = <<Reset2>>]
  <2>1. Reset3 # Reset1
    BY Apart
  <2>2. QED BY <2>1, AtReset, CallHeads DEF ResetChannel
<1>2. UNCHANGED <<way, req, intr, local, port>>
  BY DEF ResetChannel, callerVars, fpgaVars
<1>3. /\ DOMAIN chnl' = ChnlFields /\ chnl'.Length = chnl.Length /\ chnl'.Ready = 0
      /\ chnl'.InUse = 0 /\ chnl'.ActiveCount = 0 /\ chnl'.Request = chnl.Request
  BY RequestFacts DEF ResetChannel, ChnlFields
<1>4. Current' = Current
  BY <1>2 DEF Current
<1>5. <<Reset2>> \in ResetStacks /\ <<Reset2>> # <<RiffaIoctlReset>> /\ <<Reset2>> # <<Reset3>>
  BY Apart DEF ResetStacks, CallFunctions
<1>6. QED BY <1>1, <1>2, <1>3, <1>4, <1>5, RequestFacts, ResetStep

\* The request that was the channel's is completed.
LEMMA ResetsRequest ==
  ASSUME WinInv, ResetRequest
  PROVE  WinInv'
<1>1. /\ stack["dpc"] = << >> /\ stack["timer"] = << >> /\ stack["cancel"] = << >>
      /\ stack["ioctl"] = <<Reset2>>
      /\ Count(stack["ioctl"]) = 0 /\ stack' = [stack EXCEPT !["ioctl"] = <<Reset1>>]
  <2>1. Reset2 # Reset1
    BY Apart
  <2>2. QED BY <2>1, AtReset, CallHeads DEF ResetRequest
<1>2. UNCHANGED <<way, intr, local, port>>
  BY DEF ResetRequest, callerVars, fpgaVars
<1>3. chnl.InUse = 0
  BY <1>1 DEF WinInv, InUseInv, Resets, Reset2
<1>4. <<Reset1>> \in ResetStacks /\ <<Reset1>> # <<RiffaIoctlReset>> /\ <<Reset1>> # <<Reset3>>
  BY Apart DEF ResetStacks, CallFunctions
<1>5. RiffaCompleteRequest(chnl, "cancelled") /\ DOMAIN chnl = ChnlFields
  BY RequestFacts DEF ResetRequest
<1>6. /\ DOMAIN chnl' = ChnlFields /\ chnl'.InUse = 0 /\ chnl'.Length = chnl.Length
      /\ chnl'.ActiveCount = chnl.ActiveCount
      /\ \/ /\ chnl'.Request = chnl.Request /\ req' = req
            /\ chnl.Request = 0 \/ IsCancelling
         \/ /\ chnl'.Request = 0 /\ Current' = Current /\ IsSequence(req')
            /\ DOMAIN req' = 1 .. Current
            /\ \A r \in 1 .. Current : DOMAIN req'[r] = ReqFields /\ req'[r].done \in 0 .. 1
  BY <1>3, <1>5, Completes
<1>7. chnl'.Ready = chnl.Ready
  BY <1>5 DEF RiffaCompleteRequest, ChnlFields
<1>8. CASE /\ chnl'.Request = chnl.Request /\ req' = req
           /\ chnl.Request = 0 \/ IsCancelling
  <2>1. Current' = Current /\ (IsCancelling' <=> IsCancelling)
    BY <1>8 DEF Current, IsCancelling
  <2>2. QED BY <1>1, <1>2, <1>4, <1>6, <1>7, <1>8, <2>1, RequestFacts, ResetStep
<1>9. CASE /\ chnl'.Request = 0 /\ Current' = Current /\ IsSequence(req')
           /\ DOMAIN req' = 1 .. Current
           /\ \A r \in 1 .. Current : DOMAIN req'[r] = ReqFields /\ req'[r].done \in 0 .. 1
  BY <1>1, <1>2, <1>4, <1>6, <1>7, <1>9, ResetStep
<1>10. QED BY <1>6, <1>8, <1>9

\* The data of interrupts are forgotten.
LEMMA ResetsInterrupt ==
  ASSUME WinInv, ResetInterruptData
  PROVE  WinInv'
<1>1. /\ stack["dpc"] = << >> /\ stack["timer"] = << >> /\ stack["cancel"] = << >>
      /\ stack["ioctl"] = <<Reset1>>
      /\ Count(stack["ioctl"]) = 0 /\ stack' = [stack EXCEPT !["ioctl"] = << >>]
  BY AtReset, CallHeads DEF ResetInterruptData
<1>2. UNCHANGED <<way, chnl, req, local, port>> /\ intr' = NoIntr
  BY DEF ResetInterruptData, callerVars, fpgaVars
<1>3. Current' = Current /\ (IsCancelling' <=> IsCancelling)
  BY <1>2 DEF Current, IsCancelling
<1>4. chnl.InUse = 0 /\ (chnl.Request # 0 => IsCancelling)
  <2>1. stack["ioctl"] \in Resets
    BY <1>1 DEF Resets, Reset1
  <2>2. ~At("ioctl", "reset_request")
    BY <1>1, AtCall, CallHeads, Apart DEF CallFunctions
  <2>3. QED BY <1>1, <2>1, <2>2 DEF WinInv, InUseInv, At, Resting
<1>5. << >> \in ResetStacks /\ << >> # <<RiffaIoctlReset>> /\ << >> # <<Reset3>>
  BY Apart DEF ResetStacks
<1>6. QED BY <1>1, <1>2, <1>3, <1>4, <1>5, RequestFacts, ResetStep

\* Every step of a call keeps the invariant.
LEMMA IoctlKeeps ==
  ASSUME WinInv, OneAtATime, Ioctl
  PROVE  WinInv'
BY CallQuietly, CallEnters, CallExits, CallClaims, CallSetsUp, CallReady, CallMarks,
   ResetsFpga, ResetsChannel, ResetsRequest, ResetsInterrupt
   DEF Ioctl, AnyThread, Quietly

\* So does the begin of a call.
LEMMA CallsKeep ==
  ASSUME WinInv, OneAtATime, Calls
  PROVE  WinInv'
BY TransferBegins, ResetBegins DEF Calls

-----------------------------------------------------------------------------
(* The invariant.                                                          *)

\* The invariant holds of a channel no call has used.
LEMMA InitInv ==
  ASSUME WinInit
  PROVE  WinInv
<1>1. /\ chnl.Ready = 0 /\ chnl.InUse = 0 /\ chnl.Length = 0 /\ chnl.ActiveCount = 0
      /\ chnl.Cancel = 0 /\ chnl.Request = 0 /\ DOMAIN chnl = ChnlFields
  BY DEF WinInit, ChnlFields
<1>2. /\ DOMAIN stack = Threads /\ stack["ioctl"] = << >> /\ stack["dpc"] = << >>
      /\ stack["timer"] = << >> /\ stack["cancel"] = << >>
  BY DEF WinInit, Threads
<1>3. req = << >> /\ IsSequence(req) /\ Current = 0 /\ DOMAIN req = {}
  <2>1. req = << >> /\ Len(<< >>) = 0 /\ << >> \in Seq({}) /\ DOMAIN << >> = {}
    BY DEF WinInit
  <2>2. IsSequence(<< >>)
    BY <2>1, IsSequenceIf, Zenon
  <2>3. QED BY <2>1, <2>2 DEF Current
<1>4. intr = NoIntr /\ port = IdlePort /\ DOMAIN local = LocalFields
  BY DEF WinInit, LocalFields
<1>5. WinTypes
  BY <1>1, <1>3, <1>4 DEF WinTypes, NoIntr, IntrFields, IdlePort, PortFields
<1>6. Tower(<< >>, DpcHelpers, DpcEvents \cup DpcHelpers)
  <2>1. Len(<< >>) = 0 /\ << >> \in Seq(DpcHelpers \cup (DpcEvents \cup DpcHelpers))
    OBVIOUS
  <2>2. QED BY <2>1 DEF Tower
<1>7. ControlInv
  BY <1>2, <1>6, CallRests DEF ControlInv, Resting
<1>8. LengthInv
  BY <1>1, <1>2, <1>4, CallRests DEF LengthInv, IdlePort, NoIntr, Announcing
<1>9. RequestInv
  BY <1>1, <1>2, <1>3, CallRests DEF RequestInv, At, Resting
<1>10. InUseInv
  BY <1>1, <1>2, <1>3, CallRests DEF InUseInv, At, IsCancelling
<1>11. ActiveCounted
  <2>1. chnl.ActiveCount = Count(stack["ioctl"]) + Count(stack["dpc"])
    BY <1>1, <1>2, CountNothing
  <2>2. QED BY <2>1 DEF ActiveCounted, Inside, Count, InsideOf
<1>12. QED BY <1>5, <1>7, <1>8, <1>9, <1>10, <1>11 DEF WinInv

\* Every step keeps the invariant.
LEMMA NextKeeps ==
  ASSUME WinInv, OneAtATime, [WinNext]_winVars
  PROVE  WinInv'
<1>1. CASE UNCHANGED winVars
  <2>1. UNCHANGED <<way, chnl, req, stack, local, intr, port>>
    BY <1>1 DEF winVars, callerVars, fpgaVars
  <2>2. WinTypes'
    BY <2>1 DEF WinInv, WinTypes, IsSequence
  <2>3. LengthInv'
    BY <2>1 DEF WinInv, LengthInv, Working
  <2>4. QED BY <2>1, <2>2, <2>3, NoThread
<1>2. QED BY <1>1, IoctlKeeps, DpcKeeps, AsideKeeps, CallsKeep, IsrKeeps, PortStep, Announces
          DEF WinNext

\* What the records of a channel hold (CHNL_DIR_STATE, IntrData), what each thread has still
\* to do, when a length is zero, whose the request is, whether the channel is claimed (InUse)
\* and how many functions are active (ActiveCount): no one of these six can be kept without
\* the others, together they hold of every channel.
THEOREM WinInvariant ==
  ASSUME OneAtATime
  PROVE  WinSpec => []WinInv
<1>1. WinInv /\ [WinNext]_winVars => WinInv'
  BY NextKeeps
<1>2. WinInit => WinInv
  BY InitInv
<1>3. QED BY <1>1, <1>2, PTL DEF WinSpec

\* A request is completed once, by whichever of the call, the deferred procedure call,
\* the timer and the cancel callback it falls to (RiffaCompleteRequest, RiffaEvtTimerFunc,
\* RiffaEvtRequestCancel, RiffaIoctlReset).
THEOREM WinCompletedOnce ==
  ASSUME OneAtATime
  PROVE  WinSpec => []CompletedOnce
<1>1. WinInv => CompletedOnce
  <2>1. ASSUME WinInv, NEW r \in DOMAIN req PROVE req[r].done < 2
    <3>1. req[r].done \in 0 .. 1
      BY <2>1, RequestFacts
    <3>2. QED BY <3>1
  <2>2. QED BY <2>1 DEF CompletedOnce
<1>2. QED BY <1>1, WinInvariant, PTL

\* ActiveCount counts the functions between RiffaThreadEnter and RiffaThreadExit.
THEOREM WinActiveCounted ==
  ASSUME OneAtATime
  PROVE  WinSpec => []ActiveCounted
<1>1. WinInv => ActiveCounted
  BY DEF WinInv
<1>2. QED BY <1>1, WinInvariant, PTL

\* When every thread is through and no cancel is left to the last one, InUse says whether
\* the channel has a request.
THEOREM WinInUseForRequest ==
  ASSUME OneAtATime
  PROVE  WinSpec => []InUseForRequest
<1>1. WinInv => InUseForRequest
  <2> SUFFICES ASSUME WinInv, \A t \in Threads : Resting(t), ~Deferred
               PROVE  chnl.InUse = 1 <=> chnl.Request # 0
    BY DEF InUseForRequest
  <2>1. /\ stack["ioctl"] = << >> /\ ~At("dpc", "complete") /\ Resting("cancel")
        /\ ~At("timer", "timer_cancels")
    BY DEF Resting, Threads, At
  <2>2. chnl.Cancel # 1 /\ (chnl.Request # 0 => ~IsCancelling)
    BY RequestFacts DEF Deferred, IsCancelling
  <2>3. QED BY <2>1, <2>2, CallRests DEF WinInv, InUseInv
<1>2. QED BY <1>1, WinInvariant, PTL
=============================================================================
