----------------------------- MODULE MCQueueHif -----------------------------
(* The queue HIF on small instances.                                       *)
EXTENDS QueueHif

Base == [queues |-> {0}, depth |-> 3, records |-> 2, uids |-> 9, work |-> 3,
         cands |-> 2, dels |-> 0, resets |-> 0, late |-> 0, bad |-> 0, targets |-> 0,
         abort |-> FALSE, tear |-> FALSE, tidy |-> TRUE]

MCSettings ==
  {Base,
   [Base EXCEPT !.work = 2, !.late = 1],
   [Base EXCEPT !.depth = 2, !.late = 2],
   [Base EXCEPT !.queues = {0, 1}, !.depth = 2, !.cands = 4, !.work = 2],
   [Base EXCEPT !.depth = 2, !.dels = 2, !.cands = 4, !.work = 2],
   [Base EXCEPT !.depth = 2, !.dels = 2, !.cands = 4, !.work = 1, !.tidy = FALSE],
   [Base EXCEPT !.depth = 2, !.work = 2, !.dels = 1, !.targets = 1],
   [Base EXCEPT !.depth = 2, !.work = 1, !.cands = 3, !.late = 2, !.abort = TRUE,
                !.tidy = FALSE],
   [Base EXCEPT !.depth = 2, !.work = 1, !.late = 1, !.resets = 1, !.tear = TRUE],
   [Base EXCEPT !.depth = 2, !.work = 1, !.late = 1, !.resets = 1, !.bad = 1],
   [Base EXCEPT !.uids = 1]}
=============================================================================
