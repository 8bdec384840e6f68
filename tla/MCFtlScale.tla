----------------------------- MODULE MCFtlScale -----------------------------
(***************************************************************************)
(* FtlScale for TLC: what the runs may meet.                               *)
(***************************************************************************)
EXTENDS FtlScale

Rq(op, lba, count) == [op |-> op, lba |-> lba, count |-> count]
Setting(requests, writes, restarts, maint, faults, closing) ==
  [requests |-> requests, writes |-> writes, restarts |-> restarts, maint |-> maint,
   faults |-> faults, closing |-> closing]

\* One page again and again, and a two-page Write.
PageWrites == {Rq("WRITE", 0, Sectors), Rq("WRITE", 0, 2 * Sectors)}
\* Partial pages, a straddling request, Read and Flush.
SectorRequests == {Rq("WRITE", 0, 1), Rq("WRITE", 1, 2), Rq("WRITE", 0, 4), Rq("READ", 0, 4), Rq("FLUSH", 0, 0)}

MCSettings ==
  { Setting(PageWrites, 3, 1, 1, FALSE, FALSE),       \* power cuts
    Setting(PageWrites, 7, 0, 0, FALSE, FALSE),       \* space used up again and again
    Setting(SectorRequests, 2, 1, 0, TRUE, FALSE),    \* failing children
    Setting(PageWrites, 2, 1, 0, FALSE, TRUE) }       \* close

MCRecordLimit == {Setting(PageWrites, 9, 0, 0, FALSE, FALSE)}

=============================================================================
