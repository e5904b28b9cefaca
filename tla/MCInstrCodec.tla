---------------------------- MODULE MCInstrCodec ----------------------------
(* Operands for InstrCodec.  The functions OR shifted operands together, so  *)
(* operands of no bit, of one bit and of all bits show every bit's place.    *)
EXTENDS InstrCodec

Probes(n) == {{}, 0 .. n - 1} \cup { {i} : i \in 0 .. n - 1 }

AllBanks == SUBSET (0 .. 2)
SomeRows == Probes(15)
SomeCols == Probes(10)
SomePatterns == Probes(8)
SomeCycles == Probes(10)
SomeVals == Probes(28)
=============================================================================
