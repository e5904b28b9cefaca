-------------------------- MODULE InOrderDispatch --------------------------
(***************************************************************************)
(* What the host is promised of an instruction sequence: instructions are  *)
(* issued in program order, at most one per command slot, and a WAIT n     *)
(* keeps n slots to itself.                                                *)
(*   program = the instructions received and not yet issued                *)
(*   owed    = slots the last WAIT still covers                            *)
(*   slots   = what the two command slots of the last clock issued         *)
(***************************************************************************)
EXTENDS Instr

VARIABLES program, owed, slots

Init == program = << >> /\ owed = 0 /\ slots = <<NoInstr, NoInstr>>

\* A WAIT of 0 wraps around: it covers the whole range of the counter.
Duration(i) == IF i.op # "WAIT" THEN 1
               ELSE IF Cycles(i) = 0 THEN WAIT_MOD ELSE Cycles(i)

\* One slot, entered with program p and o slots still covered by a WAIT.  It
\* issues the next instruction, or is skipped (go is FALSE).
Free(p, o, go) == go /\ o = 0 /\ p # << >>
Issued(p, o, go) == IF Free(p, o, go) THEN Head(p) ELSE NoInstr
Rest(p, o, go) == IF Free(p, o, go) THEN Tail(p) ELSE p
Owed(p, o, go) == IF o > 0 THEN o - 1
                  ELSE IF Free(p, o, go) THEN Duration(Head(p)) - 1 ELSE 0

\* A clock is two slots in a row; at most one more instruction is received,
\* behind those that are waiting.
Clock(go0, go1) ==
  LET p == Rest(program, owed, go0)
      o == Owed(program, owed, go0)
      waiting == Rest(p, o, go1)
  IN  /\ slots' = << Issued(program, owed, go0), Issued(p, o, go1) >>
      /\ Len(program') \in Len(waiting) .. Len(waiting) + 1
      /\ SubSeq(program', 1, Len(waiting)) = waiting
      /\ owed' = Owed(p, o, go1)

\* Reset forgets the program; the clock's own slots may still issue.
Reset(go0, go1) ==
  /\ slots' = << Issued(program, owed, go0),
                 Issued(Rest(program, owed, go0), Owed(program, owed, go0), go1) >>
  /\ program' = << >>
  /\ owed' = 0

Next == \E go0, go1 \in BOOLEAN : Clock(go0, go1) \/ Reset(go0, go1)

Spec == Init /\ [][Next]_<<program, owed, slots>>
=============================================================================
