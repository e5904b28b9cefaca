------------------------------ MODULE MCDriver ------------------------------
(***************************************************************************)
(* The software on the host: a channel of the Linux driver, and the        *)
(* retention test.  A behaviour is one part's, the variables of the other  *)
(* keep the values they start with.                                        *)
(***************************************************************************)
EXTENDS RiffaChannel, RetentionTest

VARIABLE part

\* The retention test has one initial state while the other part runs.
MCInit ==
  /\ part \in {"channel", "test"}
  /\ ChannelInit /\ TestInit
  /\ part # "test" => retention = 0 /\ row_ms = CHOOSE r \in RowTimes : TRUE

ChannelPart == part = "channel" /\ ChannelNext /\ UNCHANGED <<part, testVars>>
TestPart == part = "test" /\ TestNext /\ UNCHANGED <<part, channelVars>>

MCNext == ChannelPart \/ TestPart

\* Each part's own fairness, while it is the part that runs.
WhileChannel(A) == part = "channel" /\ A

MCSpec ==
  /\ MCInit /\ [][MCNext]_<<part, channelVars, testVars>>
  /\ WF_channelVars(WhileChannel(Thread)) /\ WF_channelVars(WhileChannel(Handler))
  /\ WF_channelVars(WhileChannel(Interrupt))
  /\ \A d \in Dirs : /\ WF_channelVars(WhileChannel(FetchSg(d)))
                     /\ WF_channelVars(WhileChannel(PortDone(d)))
  /\ WF_channelVars(WhileChannel(WritePage)) /\ WF_channelVars(WhileChannel(ReadPage))
  /\ WF_testVars(part = "test" /\ TestProgram) /\ WF_testVars(part = "test" /\ FpgaStep)
=============================================================================
