------------------------------- MODULE MCFtl -------------------------------
(* The crash-safe FTL on small instances, one behaviour for each setting:   *)
(* format 2 with its metadata in detail (FtlScale), or format 3 with waves  *)
(* of runs (FtlPools).  A behaviour is one of the two for ever.  The format *)
(* 3 instance has two domains of two blocks: a wave has two runs, space     *)
(* runs out after three Writes and the last free block is kept.             *)
EXTENDS MCFtlScale

VARIABLES wp, rp
all == <<vars, wp, rp>>

PoolCase == INSTANCE MCFtlPools WITH
  LpnCount <- 4, DataBlocks <- 4, JournalSlots <- 8, PerDomain <- 2, WriteRuns <- 2, ReadRuns <- 3,
  Settings <- {}, cells <- media, meta <- m
Pools == INSTANCE FtlPools WITH
  LpnCount <- 4, DataBlocks <- 4, JournalSlots <- 8, PerDomain <- 2, WriteRuns <- 2, ReadRuns <- 3,
  Settings <- PoolCase!PoolSettings, cells <- media, meta <- m
ASSUME PoolsLegal == Pools!PoolConstants

\* Only the settings of format 3 have the NFC's credits.
Pooled == "credits" \in DOMAIN set

Idle == UNCHANGED <<wp, rp>>
BothInit == \/ Init /\ wp = <<>> /\ rp = <<>>
            \/ Pools!Init /\ formatted = TRUE
BothNext == \/ ~Pooled /\ Next /\ Idle
            \/ Pooled /\ Pools!Next /\ UNCHANGED formatted

\* The owner steps the FTL for ever and a client takes every answer.  What must
\* end is followed where the epoch may be closed and, in format 3, where children
\* fail.
Followed == set.closing \/ (Pooled /\ set.faults)
OwnerStep == \/ ~Pooled /\ Loop(Step) /\ Idle
             \/ Pooled /\ Followed /\ Pools!Firmware /\ UNCHANGED <<set, formatted>>
RetireStart == \/ ~Pooled /\ Loop(block_retire_start) /\ Idle
               \/ Pooled /\ Followed /\ Pools!Retire /\ UNCHANGED <<set, formatted>>
RetireQuery == ~Pooled /\ Loop(block_retire_query) /\ Idle
BothSpec == /\ BothInit /\ [][BothNext]_all
            /\ WF_all(OwnerStep) /\ WF_all(RetireStart) /\ WF_all(RetireQuery)

\* Format 2: a selectable root with its checkpoint and rail header is on the
\* medium at every instant; both: the tables in memory are true of the medium,
\* and of the runs in flight.
TablesSound == IF Pooled THEN Pools!PoolsSound ELSE TablesTrue /\ AuthorityReadable

\* Both implement FtlContract: an acknowledged Write stays, a cut or failed one
\* leaves a prefix, through power cuts, reclaim, checkpoints and cancels.
ContractHolds ==
  /\ IF Pooled THEN Pools!C!Init ELSE C!Init
  /\ [][IF Pooled THEN Pools!C!Next ELSE C!Next]_<<known, wr>>

\* A terminal report says exactly how many sectors are durable, and the durable
\* frontier moves only with the last group of a Write.
ReportsTrue == [][IF Pooled THEN Pools!ReportsTruth ELSE ReportsTruth]_all

Waiting == IF Pooled THEN Pools!Requested ELSE Requested
Draining == IF Pooled THEN Pools!Closing ELSE Closing
\* Recovery reaches a ready volume unless it is cut or closed first, every
\* accepted request ends, and a closed epoch becomes quiescent.
Progress ==
  /\ Followed => ((~Pooled /\ Recovering) ~> (Pooled \/ RecoveryOver))
  /\ Followed => (Waiting ~> ~Waiting)
  /\ Followed => (Draining ~> ~Draining)
=============================================================================
