-------------------------- MODULE MCChannelWorkers --------------------------
(* Small instances of ChannelWorkers; see the .cfg files for the bounds.    *)
EXTENDS ChannelWorkers

Setting(workers, blocking, faults, jobs) ==
  [workers |-> workers, blocking |-> blocking, faults |-> faults, jobs |-> jobs]
\* A worker per channel with the blocking lifecycle; the polling lifecycle
\* with every call failing; one worker for both channels.
MCSettings == {Setting(2, TRUE, FALSE, 3), Setting(2, FALSE, TRUE, 2), Setting(1, FALSE, FALSE, 2)}
MCOneWorker == {Setting(1, FALSE, FALSE, 3)}
============================================================================
