------------------------------ MODULE MCParts ------------------------------
(***************************************************************************)
(* The parts that run by themselves, one beside another and never at once: *)
(* a behaviour is one part's, the variables of the others keep the values  *)
(* they start with.                                                        *)
(***************************************************************************)
EXTENDS MCInstrCodec, PipeRegSpec, CircQueue, FpgaProbe

VARIABLE part

PartsInit ==
  /\ part \in {"codec", "register", "queue", "probe"}
  /\ CodecInit /\ RegInit /\ QueueInit /\ ProbeInit

CodecPart == part = "codec" /\ CodecNext /\ UNCHANGED <<part, regVars, queueVars, probeVars>>
RegPart == part = "register" /\ RegNext /\ UNCHANGED <<part, call, queueVars, probeVars>>
QueuePart == part = "queue" /\ QueueNext /\ UNCHANGED <<part, call, regVars, probeVars>>
ProbePart == part = "probe" /\ ProbeNext /\ UNCHANGED <<part, call, regVars, queueVars>>

PartsNext == CodecPart \/ RegPart \/ QueuePart \/ ProbePart

PartsSpec == PartsInit /\ [][PartsNext]_<<part, call, regVars, queueVars, probeVars>>
=============================================================================
