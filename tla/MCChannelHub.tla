---------------------------- MODULE MCChannelHub ----------------------------
(* Small instances of ChannelHub.                                           *)
EXTENDS ChannelHub

MCChannels == {0, 1}
Setting(limit, seq, requests, rejects, faults) ==
  [limit |-> limit, seq |-> seq, requests |-> requests, rejects |-> rejects, faults |-> faults]
\* Three credits at the end of the job sequence and of modelled time; every
\* call failing; page models that do all they are given.
MCSettings == {Setting(3, 9, 4, TRUE, FALSE), Setting(9, 20, 2, FALSE, TRUE),
               Setting(9, 9, 2, FALSE, FALSE)}
============================================================================
