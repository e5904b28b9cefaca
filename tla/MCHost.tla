------------------------------- MODULE MCHost -------------------------------
(***************************************************************************)
(* The two ways between the host and the memory controller: instructions   *)
(* to the dispatcher, and read data back.  A behaviour is one part's, the  *)
(* variables of the other keep the values they start with.                 *)
(***************************************************************************)
EXTENDS MCIseqHost, ReadBack

VARIABLE part

MCInit == part \in {"instructions", "readback"} /\ HostInit /\ ReadBackInit

HostPart == part = "instructions" /\ HostNext /\ UNCHANGED <<part, readBackVars>>
ReadBackPart == part = "readback" /\ ReadBackNext /\ UNCHANGED <<part, hostVars>>

MCNext == HostPart \/ ReadBackPart

\* Each part's own fairness, while it is the part that runs.
MCSpec ==
  /\ MCInit /\ [][MCNext]_<<part, hostVars, readBackVars>>
  /\ WF_hostVars(part = "instructions" /\ HostClk)
  /\ WF_readBackVars(part = "readback" /\ ReadBackClk)
  /\ WF_readBackVars(part = "readback" /\ MonitorRead)
=============================================================================
