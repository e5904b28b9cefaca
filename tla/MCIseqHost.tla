---------------------------- MODULE MCIseqHost ----------------------------
(* Small instances of IseqHost.                                            *)
EXTENDS IseqHost

\* Waits of both parities, the shortest included.
ShortWaits == 1..3

Always == {TRUE}
Sometimes == {TRUE, FALSE}
=============================================================================
