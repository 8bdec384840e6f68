---------------------------- MODULE MCFtlPools ----------------------------
(* Small format-3 instances: two domains of two blocks, so a wave has two  *)
(* runs, space runs out after three Writes and the last free block is kept. *)
EXTENDS FtlPools

rq(op, lba, count) == [op |-> op, lba |-> lba, count |-> count]
Plain == [requests |-> {rq("WRITE", 0, 8)}, writes |-> 0, reads |-> 0, restarts |-> 0, maint |-> 0,
          faults |-> FALSE, closing |-> FALSE, cancels |-> FALSE, credits |-> 2]

\* Long histories with reclaim, cuts at every step, failing children, and
\* cancelled or closed requests.
PoolSettings ==
  { [Plain EXCEPT !.requests = {rq("WRITE", 0, 8), rq("WRITE", 1, 2)}, !.writes = 6, !.maint = 1],
    [Plain EXCEPT !.requests = {rq("WRITE", 0, 8), rq("WRITE", 3, 4)}, !.writes = 4, !.restarts = 2],
    [Plain EXCEPT !.requests = {rq("WRITE", 1, 6), rq("READ", 0, 8)}, !.writes = 2, !.reads = 2,
                  !.faults = TRUE, !.restarts = 1],
    [Plain EXCEPT !.requests = {rq("WRITE", 3, 4), rq("WRITE", 0, 3), rq("READ", 1, 7)}, !.writes = 3,
                  !.reads = 1, !.cancels = TRUE, !.closing = TRUE, !.credits = 1] }

=============================================================================
