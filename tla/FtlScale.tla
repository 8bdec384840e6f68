------------------------------ MODULE FtlScale ------------------------------
(***************************************************************************)
(* core/ftl-scale: the crash-safe FTL, as its format-2 construction runs   *)
(* it (windowed Host groups, one Host head).  Three machines take turns in *)
(* step_internal: metadata (format, recovery, checkpoint, journal), work   *)
(* (Host window, space, GC) and close; each waits while a lower one runs.  *)
(*                                                                         *)
(* A phase that waits for an NFC child is one step: it issues the child,   *)
(* the child completes and the phase consumes the result.  A power cut     *)
(* during it leaves the medium as it was or the child cut; a cut after the *)
(* child committed is a cut before the next step.                          *)
(***************************************************************************)
EXTENDS FtlMapping

CONSTANTS
  MaxWrites,    \* bound on accepted Writes
  Settings      \* what a run may meet, see set

ASSUME RunConstants ==
  /\ MaxWrites \in Nat
  /\ \A x \in Settings : /\ x.writes \in 0 .. MaxWrites /\ x.restarts \in Nat /\ x.maint \in Nat
                         /\ x.faults \in BOOLEAN /\ x.closing \in BOOLEAN

Lbas == 0 .. LpnCount * Sectors - 1

VARIABLES
  set,        \* requests: the Block requests [op, lba, count] a client may submit;
              \* writes, restarts, maint: bounds on accepted Writes, on power cuts and
              \* restarts, on gc_start and checkpoint_start; faults: NFC children may
              \* fail; closing: the client may close the epoch
  media,      \* place -> NAND block
  formatted,  \* a format has completed on this medium
  f,          \* the resident state
  m,          \* f->meta
  w,          \* f->work
  p,          \* f->parent
  known,      \* sector -> version, as a client reads it while the volume is ready
  wr,         \* the Write a client has in flight
  spent       \* [writes, restarts, maint]: the bounds used up

vars == <<set, media, formatted, f, m, w, p, known, wr, spent>>

C == INSTANCE FtlContract WITH store <- known

-----------------------------------------------------------------------------
(* Initial values.                                                         *)

NoRoot == [generation |-> 0, bank |-> 1, record |-> 0, mapseq |-> 0, frontier |-> 0,
           next_uid |-> 1, image |-> <<>>]

Resident ==
  [up |-> FALSE, ready |-> FALSE, quarantined |-> FALSE, admission_closed |-> FALSE,
   nfc_close |-> 0, root |-> NoRoot, map |-> [l \in Lpns |-> Unmapped],
   blocks |-> [b \in Data |-> FreeBlock(0)], validity |-> {}, host_head |-> None,
   record_sequence |-> 0, map_sequence |-> 0, durable_frontier |-> 0, next_block_uid |-> 1,
   journal_next |-> 1, erase_intent_block |-> None, erase_intent_sequence |-> 0]

NoRecord == [kind |-> "NONE"]
IdleMeta == [phase |-> "IDLE", mode |-> "NORMAL", cand |-> NoRoot, rec |-> NoRecord,
             ret |-> "IDLE", ordinal |-> 0, tail |-> FALSE, block |-> None, gen |-> 0]
IdleWork == [kind |-> "NONE", phase |-> "IDLE", rec |-> NoRecord, lbas |-> 0, first |-> 0,
             needed |-> 0, force |-> FALSE, effect |-> FALSE, src |-> None, dst |-> None,
             page |-> 0, live |-> 0, cells |-> <<>>]
NoParent == [owned |-> FALSE, state |-> "RETIRED", op |-> "NONE", lba |-> 0, count |-> 0,
             ver |-> 0, done |-> 0, base |-> 0, hseq |-> 0, cancelled |-> FALSE,
             outcome |-> "NONE", effect |-> "NONE"]

Init ==
  /\ set \in Settings
  /\ media = [x \in Place |-> Blank(0)] /\ formatted = FALSE
  /\ f = Resident /\ m = IdleMeta /\ w = IdleWork /\ p = NoParent
  /\ known = [x \in Lbas |-> 0] /\ wr = C!NoWrite
  /\ spent = [writes |-> 0, restarts |-> 0, maint |-> 0]

-----------------------------------------------------------------------------
(* Reading DATA pages.                                                     *)

meta_busy == m.phase # "IDLE"
running == f.up /\ ~f.quarantined

\* sf_data_oob_validate and the generation fact: the page under e is l's.
page_valid(md, g, l, e) ==
  /\ read_class(md, DataAt(e.b), e.p) = "VALID"
  /\ md[DataAt(e.b)].gen = e.gen
  /\ LET c == Content(md, DataAt(e.b), e.p)
     IN c.lpn = l /\ c.uid = e.uid /\ c.gen = e.gen /\ c.mask = e.mask

Lost == MaxWrites + 1

\* What a Read of every sector would return.
View(md, g) ==
  [x \in Lbas |->
     LET l == x \div Sectors
         e == g.map[l]
     IN IF e.state # "VALUE" THEN 0
        ELSE IF ~page_valid(md, g, l, e) THEN Lost
        ELSE IF x % Sectors \in e.mask THEN Content(md, DataAt(e.b), e.p).data[x % Sectors]
        ELSE 0]

-----------------------------------------------------------------------------
(* Failure.                                                                *)

failed_effect(quarantined) ==
  IF w.effect \/ quarantined THEN "UNKNOWN_PREFIX" ELSE IF p.done > 0 THEN "EXACT_PREFIX" ELSE "NONE"

\* sf_parent_fail, with the quarantine flag the caller leaves set.
parent_fail(quarantined) ==
  IF p.owned /\ p.state = "ACCEPTED"
  THEN /\ p' = [p EXCEPT
                  !.state = "TERMINAL",
                  !.outcome = IF p.cancelled THEN "CANCELLED" ELSE "FAILED",
                  !.effect = failed_effect(quarantined)]
       /\ w' = [IdleWork EXCEPT !.effect = quarantined /\ w.effect]
       /\ f' = [f EXCEPT !.quarantined = quarantined, !.ready = ~quarantined,
                         !.blocks = IF p.op = "WRITE" /\ f.host_head # None
                                    THEN [@ EXCEPT ![f.host_head].reserved = 0] ELSE @]
       /\ wr' = IF quarantined \/ p.op # "WRITE" THEN wr ELSE C!NoWrite
  ELSE /\ f' = [f EXCEPT !.quarantined = quarantined, !.ready = @ /\ ~quarantined]
       /\ UNCHANGED <<w, p, wr>>

sf_fail == parent_fail(TRUE)
metadata_fail == sf_fail /\ m' = IdleMeta

-----------------------------------------------------------------------------
(* Metadata: journal and checkpoint.                                       *)

\* begin_checkpoint: the candidate root and the first phase.
begin_checkpoint(g, mode, erased) ==
  [IdleMeta EXCEPT
     !.mode = mode, !.phase = IF erased THEN "CP_BODY" ELSE "CP_ERASE",
     !.cand = [generation |-> g.root.generation + 1, bank |-> 1 - g.root.bank,
               record |-> g.record_sequence, mapseq |-> g.map_sequence,
               frontier |-> g.durable_frontier, next_uid |-> g.next_block_uid, image |-> <<>>]]

can_checkpoint(g) == g.erase_intent_sequence = 0 /\ g.record_sequence <= RecordLimit
can_journal(g) == g.journal_next < JournalSlots /\ g.record_sequence < RecordLimit

begin_journal(r, mode, ret) ==
  [IdleMeta EXCEPT !.mode = mode, !.phase = "JOURNAL_A", !.rec = stamped(f, r), !.ret = ret,
                   !.block = m.block, !.gen = m.gen]

\* journal(): sf_journal_start for the work machine, which then waits in ww.
journal(r, ww) ==
  IF can_journal(f)
  THEN /\ m' = begin_journal(r, "NORMAL", "IDLE") /\ w' = ww
       /\ UNCHANGED <<f, p, wr>>
  ELSE sf_fail /\ UNCHANGED m

erase_order(bank) == <<RootAt(bank), CpAt(bank), RailAt(bank, 0), RailAt(bank, 1)>>

\* The NFC child of the current phase.
HasChild ==
  \/ m.phase \in {"CP_ERASE", "CP_BODY", "CP_HEADER_A", "CP_HEADER_B", "CP_ROOT", "CP_RETIRE",
                  "JOURNAL_A", "JOURNAL_B", "CLEAN_ERASE"}
  \/ ~meta_busy /\ w.phase \in {"HOST_PROGRAM_WAIT", "GC_PROGRAM_WAIT", "ERASE_WAIT"}
Child ==
  CASE m.phase = "CP_ERASE" -> erase(erase_order(m.cand.bank)[m.ordinal + 1])
    [] m.phase = "CP_BODY" -> program(CpAt(m.cand.bank), 0, <<[generation |-> m.cand.generation, image |-> cp_encode(f)]>>)
    [] m.phase = "CP_HEADER_A" -> program(RailAt(m.cand.bank, 0), 0, <<m.cand>>)
    [] m.phase = "CP_HEADER_B" -> program(RailAt(m.cand.bank, 1), 0, <<m.cand>>)
    [] m.phase = "CP_ROOT" -> program(RootAt(m.cand.bank), 0, <<m.cand>>)
    [] m.phase = "CP_RETIRE" -> erase(RootAt(f.root.bank))
    [] m.phase = "JOURNAL_A" -> program(RailAt(f.root.bank, 0), f.journal_next, <<m.rec>>)
    [] m.phase = "JOURNAL_B" -> program(RailAt(f.root.bank, 1), f.journal_next, <<m.rec>>)
    [] m.phase = "CLEAN_ERASE" -> erase(DataAt(m.block))
    [] w.phase = "ERASE_WAIT" -> erase(DataAt(w.src))
    [] w.phase = "GC_PROGRAM_WAIT" -> program(DataAt(w.dst), w.page, w.cells)
    [] w.phase = "HOST_PROGRAM_WAIT" -> program(DataAt(w.dst), f.blocks[w.dst].end, w.cells)

\* The child completes in full.
Complete == Takes(media, Child) /\ media' = Done(media, Child)

keep == UNCHANGED <<formatted, known, wr, spent>>

CpErase ==
  /\ running /\ m.phase = "CP_ERASE" /\ Complete
  /\ m' = IF m.ordinal + 1 = Len(erase_order(0))
          THEN [m EXCEPT !.phase = "CP_BODY", !.ordinal = 0] ELSE [m EXCEPT !.ordinal = @ + 1]
  /\ UNCHANGED <<f, w, p>> /\ keep

CpBody ==
  /\ running /\ m.phase = "CP_BODY" /\ Complete
  /\ m' = [m EXCEPT !.phase = "CP_HEADER_A", !.cand.image = cp_encode(f)]
  /\ UNCHANGED <<f, w, p>> /\ keep

CpHeader ==
  /\ running /\ m.phase \in {"CP_HEADER_A", "CP_HEADER_B"} /\ Complete
  /\ m' = [m EXCEPT !.phase = IF @ = "CP_HEADER_A" THEN "CP_HEADER_B" ELSE "CP_ROOT"]
  /\ UNCHANGED <<f, w, p>> /\ keep

\* checkpoint_complete: the candidate is the root; recovery goes on to clean.
checkpoint_complete ==
  LET g == [f EXCEPT !.root = m.cand, !.journal_next = 1]
  IN /\ f' = IF m.mode = "FORMAT" THEN [sf_rebuild_indexes(g) EXCEPT !.ready = TRUE] ELSE g
     /\ m' = IF m.mode = "RECOVER" THEN [IdleMeta EXCEPT !.mode = "RECOVER", !.phase = "CLEAN_SELECT"]
             ELSE IdleMeta
     /\ formatted' = TRUE
     /\ UNCHANGED <<w, p, known, wr, spent>>

CpRoot ==
  /\ running /\ m.phase = "CP_ROOT" /\ Complete
  /\ IF f.root.generation > 0
     THEN m' = [m EXCEPT !.phase = "CP_RETIRE"] /\ UNCHANGED <<f, w, p>> /\ keep
     ELSE checkpoint_complete

CpRetire ==
  /\ running /\ m.phase = "CP_RETIRE" /\ Complete
  /\ checkpoint_complete

JournalProgram ==
  /\ running /\ m.phase \in {"JOURNAL_A", "JOURNAL_B"} /\ Complete
  /\ m' = [m EXCEPT !.phase = IF @ = "JOURNAL_A" THEN "JOURNAL_B" ELSE "JOURNAL_APPLY"]
  /\ UNCHANGED <<f, w, p>> /\ keep

JournalApply ==
  /\ running /\ m.phase = "JOURNAL_APPLY"
  /\ IF record_valid(f, m.rec)
     THEN /\ f' = [record_apply(f, m.rec) EXCEPT !.journal_next = @ + 1]
          /\ m' = IF m.ret = "IDLE" THEN IdleMeta ELSE [m EXCEPT !.phase = m.ret, !.rec = NoRecord]
          /\ known' = IF f.ready THEN View(media, f') ELSE known
          /\ wr' = IF m.rec.kind = "MAP_WINDOW" THEN [wr EXCEPT !.done = @ + w.lbas] ELSE wr
          /\ UNCHANGED <<w, p>>
     ELSE metadata_fail /\ UNCHANGED known
  /\ UNCHANGED <<media, formatted, spent>>

-----------------------------------------------------------------------------
(* Format and recovery.                                                    *)

format_start ==
  /\ ~f.up /\ ~formatted
  /\ f' = [Resident EXCEPT !.up = TRUE]
  /\ m' = [IdleMeta EXCEPT !.mode = "FORMAT", !.phase = "FORMAT_ERASE"]
  /\ UNCHANGED <<media, w, p>> /\ keep

\* The erase loop over all blocks is one step: no root exists before it ends.
FormatErase ==
  /\ running /\ m.phase = "FORMAT_ERASE" /\ ~f.admission_closed
  /\ media' = [x \in Place |-> Blank(media[x].gen + 1)]
  /\ LET g == [f EXCEPT !.blocks = [b \in Data |-> FreeBlock(media'[DataAt(b)].gen)]]
     IN f' = g /\ m' = begin_checkpoint(g, "FORMAT", TRUE)
  /\ UNCHANGED <<w, p>> /\ keep

recover_start ==
  /\ ~f.up /\ formatted
  /\ f' = [Resident EXCEPT !.up = TRUE]
  /\ m' = [IdleMeta EXCEPT !.mode = "RECOVER", !.phase = "READ_ROOT_A"]
  /\ UNCHANGED <<media, w, p>> /\ keep

\* A close before the first child abandons the startup.
StartupClosed ==
  /\ running /\ f.admission_closed /\ ~f.ready /\ m.phase \in {"FORMAT_ERASE", "READ_ROOT_A"}
  /\ m' = IdleMeta
  /\ UNCHANGED <<media, f, w, p>> /\ keep

root_class(k) == read_class(media, RootAt(k), 0)
root_at(k) == Content(media, RootAt(k), 0)
Gap(a, b) == IF a > b THEN a - b ELSE b - a

\* Both roots valid must be neighbours; the newer one is selected.
roots_agree ==
  /\ \E k \in {0, 1} : root_class(k) = "VALID"
  /\ (\A k \in {0, 1} : root_class(k) = "VALID") => Gap(root_at(0).generation, root_at(1).generation) = 1
select_root ==
  IF root_class(0) # "VALID" THEN 1
  ELSE IF root_class(1) = "VALID" /\ root_at(1).generation > root_at(0).generation THEN 1 ELSE 0

\* The CP page is readable, belongs to the root and rebuilds; no rail header is
\* erased or foreign, and one is readable.
checkpoint_readable(r, k) ==
  /\ read_class(media, CpAt(k), 0) = "VALID"
  /\ Content(media, CpAt(k), 0) = [generation |-> r.generation, image |-> r.image]
  /\ rebuild_valid(cp_decode(f, r, r.image))
  /\ \A q \in {0, 1} :
       /\ read_class(media, RailAt(k, q), 0) # "ERASED"
       /\ read_class(media, RailAt(k, q), 0) = "VALID" => Content(media, RailAt(k, q), 0) = r
  /\ \E q \in {0, 1} : read_class(media, RailAt(k, q), 0) = "VALID"

\* READ_ROOT_A to READ_HEADER_B: reads only.
ReadCheckpoint ==
  /\ running /\ m.phase = "READ_ROOT_A" /\ ~f.admission_closed
  /\ IF roots_agree /\ checkpoint_readable(root_at(select_root), select_root)
     THEN /\ f' = LET r == root_at(select_root)
                  IN sf_rebuild_indexes(cp_decode(f, r, r.image))
          /\ m' = [m EXCEPT !.phase = "REPLAY_PAIR", !.ordinal = 1]
          /\ UNCHANGED <<w, p, wr>>
     ELSE metadata_fail
  /\ UNCHANGED <<media, formatted, known, spent>>

\* READ_JOURNAL_A, READ_JOURNAL_B and replay_pair for one slot.
replay_pair ==
  LET bank == f.root.bank
      class(q) == read_class(media, RailAt(bank, q), m.ordinal)
      rec(q) == Content(media, RailAt(bank, q), m.ordinal)
      one == IF class(0) = "VALID" THEN rec(0) ELSE rec(1)
      some == class(0) = "VALID" \/ class(1) = "VALID"
      good == IF some
              THEN /\ ~m.tail
                   /\ (class(0) = "VALID" /\ class(1) = "VALID") => rec(0) = rec(1)
                   /\ one.sequence <= RecordLimit /\ record_valid(f, one)
              ELSE ~(class(0) = "ECC" /\ class(1) = "ECC")
  IN
  /\ running /\ m.phase = "REPLAY_PAIR"
  /\ IF good
     THEN /\ f' = IF some THEN [record_apply(f, one) EXCEPT !.journal_next = m.ordinal + 1] ELSE f
          /\ m' = [m EXCEPT !.tail = @ \/ ~some, !.ordinal = @ + 1,
                            !.phase = IF m.ordinal + 1 = JournalSlots THEN "NORMALIZE" ELSE @]
          /\ UNCHANGED <<w, p, wr>>
     ELSE metadata_fail
  /\ UNCHANGED <<media, formatted, known, spent>>

Normalize ==
  /\ running /\ m.phase = "NORMALIZE"
  /\ LET g == [sf_seal_recovered_heads(sf_rebuild_indexes(f))
                 EXCEPT !.erase_intent_sequence = 0, !.erase_intent_block = None]
     IN IF rebuild_valid(f) /\ can_checkpoint(g)
        THEN f' = g /\ m' = begin_checkpoint(g, "RECOVER", FALSE) /\ UNCHANGED <<w, p, wr>>
        ELSE metadata_fail
  /\ UNCHANGED <<media, formatted, known, spent>>

CleanSelect ==
  /\ running /\ m.phase = "CLEAN_SELECT"
  /\ IF reclaim_pending(f) = {}
     THEN IF rebuild_valid(f)
          THEN /\ f' = [sf_rebuild_indexes(f) EXCEPT !.ready = TRUE] /\ m' = IdleMeta
               /\ known' = View(media, f') /\ wr' = C!NoWrite /\ UNCHANGED <<w, p>>
          ELSE metadata_fail /\ UNCHANGED known
     ELSE IF f.journal_next > JournalSlots - 2
     THEN IF can_checkpoint(f)
          THEN m' = begin_checkpoint(f, "RECOVER", FALSE) /\ UNCHANGED <<f, w, p, wr, known>>
          ELSE metadata_fail /\ UNCHANGED known
     ELSE IF can_journal(f)
     THEN LET b == Least(reclaim_pending(f))
          IN /\ m' = [begin_journal(record_block(f, "ERASE_INTENT", b), "RECOVER", "CLEAN_ERASE")
                        EXCEPT !.block = b]
             /\ UNCHANGED <<f, w, p, wr, known>>
     ELSE metadata_fail /\ UNCHANGED known
  /\ UNCHANGED <<media, formatted, spent>>

CleanErase ==
  /\ running /\ m.phase = "CLEAN_ERASE" /\ Complete
  /\ m' = [m EXCEPT !.phase = "CLEAN_DONE", !.gen = media'[DataAt(m.block)].gen]
  /\ UNCHANGED <<f, w, p>> /\ keep

CleanDone ==
  /\ running /\ m.phase = "CLEAN_DONE"
  /\ IF can_journal(f)
     THEN /\ m' = begin_journal([record_block(f, "ERASE_DONE", m.block) EXCEPT
                                   !.intent = f.erase_intent_sequence, !.final = m.gen],
                                "RECOVER", "CLEAN_SELECT")
          /\ UNCHANGED <<f, w, p, wr>>
     ELSE metadata_fail
  /\ UNCHANGED <<media, formatted, known, spent>>

-----------------------------------------------------------------------------
(* Space and garbage collection.                                           *)

clean_boundary ==
  /\ w.kind = "NONE" /\ ~w.effect /\ ~meta_busy
  /\ f.host_head # None => f.blocks[f.host_head].reserved = 0

\* sf_space_start once it is allowed: a checkpoint first when the journal is short.
space_start(needed, force) ==
  LET ww == [IdleWork EXCEPT !.kind = "SPACE", !.phase = "SPACE", !.needed = needed, !.force = force]
  IN IF sf_record_space(f, 5)
     THEN w' = ww /\ UNCHANGED <<f, m>>
     ELSE /\ w' = [ww EXCEPT !.phase = "WAIT_CP"]
          /\ m' = begin_checkpoint(f, "NORMAL", FALSE) /\ UNCHANGED f

maintenance_call ==
  /\ running /\ f.ready /\ ~f.admission_closed /\ ~p.owned /\ clean_boundary
  /\ f.erase_intent_sequence = 0
  /\ spent.maint < set.maint /\ spent' = [spent EXCEPT !.maint = @ + 1]

checkpoint_start ==
  /\ maintenance_call
  /\ m' = begin_checkpoint(f, "NORMAL", FALSE)
  /\ UNCHANGED <<media, formatted, f, w, p, known, wr>>

gc_start(needed) ==
  /\ maintenance_call
  /\ \/ \E b \in victim_set(f) : f.blocks[b].live <= PPB - needed
     \/ f.host_head # None /\ f.blocks[f.host_head].live <= PPB - needed
  /\ space_start(needed, TRUE)
  /\ UNCHANGED <<media, formatted, p, known, wr>>

Working(phase) == running /\ ~meta_busy /\ w.kind \in {"SPACE", "GC"} /\ w.phase = phase
still == UNCHANGED <<media, formatted, known, spent>>

\* Mutant: the wait for a checkpoint never ends.
SpaceResume_CloseOnly ==
  /\ Working("CLOSE_WAIT")
  /\ w' = [w EXCEPT !.phase = "SPACE"]
  /\ UNCHANGED <<f, m, p, wr>> /\ still
\* WAIT_CP and CLOSE_WAIT: the metadata machine is done.
SpaceResume ==
  /\ Working("WAIT_CP") \/ Working("CLOSE_WAIT")
  /\ w' = [w EXCEPT !.phase = "SPACE"]
  /\ UNCHANGED <<f, m, p, wr>> /\ still

UINT16_MAX == 65535

start_erase(b) ==
  IF f.blocks[b].live > 0 \/ f.blocks[b].gen = UINT16_MAX THEN sf_fail /\ UNCHANGED m
  ELSE journal(record_block(f, "ERASE_INTENT", b), [w EXCEPT !.src = b, !.phase = "ERASE_INTENT_WAIT"])

opening(kind, b) == [record_block(f, kind, b) EXCEPT !.uid = f.next_block_uid]

prepare_space ==
  /\ Working("SPACE")
  /\ IF f.host_head # None
     THEN IF ~w.force /\ head_tail(f) >= w.needed
          THEN w' = IdleWork /\ UNCHANGED <<f, m, p, wr>>
          ELSE journal(record_block(f, "CLOSE", f.host_head), [w EXCEPT !.phase = "CLOSE_WAIT"])
     ELSE IF reclaim_pending(f) # {} THEN start_erase(Least(reclaim_pending(f)))
     ELSE IF ~w.force /\ Cardinality(free_set(f)) > 1
     THEN journal(opening("OPEN_HOST", sf_free_best(f)), [w EXCEPT !.phase = "OPEN_WAIT"])
     ELSE IF victim_set(f) = {} THEN sf_fail /\ UNCHANGED m
     ELSE LET b == victim_top(f) IN
          IF f.blocks[b].live = 0 THEN start_erase(b)
          ELSE IF free_set(f) = {} \/ f.blocks[b].live > PPB - w.needed
          THEN sf_fail /\ UNCHANGED m
          ELSE journal(opening("OPEN_GC_DEST", sf_free_best(f)),
                       [w EXCEPT !.phase = "OPEN_WAIT", !.kind = "GC", !.src = b,
                                 !.dst = sf_free_best(f), !.page = 0, !.live = f.blocks[b].live])
  /\ still

\* OPEN_WAIT: a Host head is ready, or the copy into the destination starts.
Opened ==
  /\ Working("OPEN_WAIT")
  /\ w' = IF w.kind = "SPACE" THEN IdleWork
          ELSE [w EXCEPT !.phase = "GC_READ",
                         !.rec = [record_block(f, "GC_COMMIT", w.src) EXCEPT
                                    !.other = w.dst, !.other_uid = f.blocks[w.dst].uid]]
  /\ UNCHANGED <<f, m, p, wr>> /\ still

\* w.page counts the pages moved; the source page is the next valid one.
moved_pages == {w.rec.deltas[i].before.p : i \in 1 .. Len(w.rec.deltas)}
GcRead ==
  LET left == {q \in Pages : <<w.src, q>> \in f.validity /\ q \notin moved_pages}
      q == Least(left)
      l == Content(media, DataAt(w.src), q).lpn
      after == ValueEntry(w.dst, w.page, f.blocks[w.dst].gen, f.map[l].mask, f.blocks[w.dst].uid)
      d == [lpn |-> l, before |-> f.map[l], after |-> after]
  IN
  /\ Working("GC_READ")
  /\ IF w.page = w.live THEN journal(w.rec, [w EXCEPT !.phase = "GC_COMMIT_WAIT"])
     ELSE IF left = {} \/ read_class(media, DataAt(w.src), q) # "VALID" THEN sf_fail /\ UNCHANGED m
     ELSE IF <<f.map[l].b, f.map[l].p>> # <<w.src, q>> \/ ~page_valid(media, f, l, f.map[l])
     THEN sf_fail /\ UNCHANGED m
     ELSE /\ w' = [w EXCEPT !.phase = "GC_PROGRAM_WAIT", !.rec.deltas = Append(@, d),
                            !.cells = <<[lpn |-> l, uid |-> after.uid, gen |-> after.gen,
                                         mask |-> after.mask,
                                         data |-> Content(media, DataAt(w.src), q).data]>>]
          /\ UNCHANGED <<f, m, p, wr>>
  /\ still

GcProgrammed ==
  /\ Working("GC_PROGRAM_WAIT") /\ Complete
  /\ w' = [w EXCEPT !.page = @ + 1, !.phase = "GC_READ", !.cells = <<>>]
  /\ UNCHANGED <<f, m, p>> /\ keep

GcCommitted ==
  /\ Working("GC_COMMIT_WAIT")
  /\ start_erase(w.src) /\ still

EraseIntended ==
  /\ Working("ERASE_INTENT_WAIT")
  /\ w' = [w EXCEPT !.phase = "ERASE_WAIT"]
  /\ UNCHANGED <<f, m, p, wr>> /\ still

Erased ==
  /\ Working("ERASE_WAIT") /\ Complete
  /\ journal([record_block(f, "ERASE_DONE", w.src) EXCEPT
                !.intent = f.erase_intent_sequence, !.final = media'[DataAt(w.src)].gen],
             [w EXCEPT !.phase = "ERASE_DONE_WAIT"])
  /\ UNCHANGED <<formatted, known, spent>>

EraseDone ==
  /\ Working("ERASE_DONE_WAIT")
  /\ w' = IF w.kind = "GC" THEN IdleWork ELSE [w EXCEPT !.force = FALSE, !.phase = "SPACE"]
  /\ UNCHANGED <<f, m, p, wr>> /\ still

-----------------------------------------------------------------------------
(* Host requests: the parent and its windows.                              *)

Min(a, b) == IF a <= b THEN a ELSE b

\* The next window of a parent: first LPN, sectors and pages.
partial(pp) == (pp.lba + pp.done) % Sectors # 0 \/ pp.count - pp.done < Sectors
window(pp) ==
  LET lba == pp.lba + pp.done
      left == pp.count - pp.done
  IN IF partial(pp) THEN [first |-> lba \div Sectors, pages |-> 1, lbas |-> Min(Sectors - (lba % Sectors), left)]
     ELSE [first |-> lba \div Sectors, pages |-> left \div Sectors, lbas |-> left]
cut(win, pp, pages) ==
  IF partial(pp) THEN win ELSE [win EXCEPT !.pages = pages, !.lbas = pages * Sectors]

\* Sectors of page l that lbas sectors from lba on cover.
mask_for(lba, lbas, l) == {s \in Offsets : l * Sectors + s \in lba .. lba + lbas - 1}

host(win, phase) ==
  [IdleWork EXCEPT !.kind = "HOST", !.phase = phase, !.lbas = win.lbas, !.first = win.first]

\* Only the last group advances the durable frontier.
group_frontier(pp, win) == IF pp.done + win.lbas = pp.count THEN pp.hseq ELSE pp.base

\* A Write window: its deltas and the reserved pages of the head.
write_window(pp, win) ==
  LET h == f.host_head
      start == f.blocks[h].end
      delta(n) ==
        LET l == win.first + n - 1
            before == f.map[l]
        IN [lpn |-> l, before |-> before,
            after |-> ValueEntry(h, start + n - 1, f.blocks[h].gen,
                        before.mask \cup mask_for(pp.lba + pp.done, win.lbas, l), f.blocks[h].uid)]
  IN /\ w' = [host(win, "WINDOW_BUILD") EXCEPT
                !.dst = h,
                !.rec = [record_block(f, "MAP_WINDOW", h) EXCEPT
                           !.deltas = [n \in 1 .. win.pages |-> delta(n)],
                           !.frontier = group_frontier(pp, win)]]
     /\ f' = [f EXCEPT !.blocks[h].reserved = win.pages]
     /\ UNCHANGED m

\* A Read window is one run of unmapped pages or of adjacent physical pages.
read_run(pp) ==
  LET win == window(pp)
      first == f.map[win.first]
      same(n) == LET e == f.map[win.first + n] IN
        IF first.state # "VALUE" THEN e.state # "VALUE"
        ELSE e.state = "VALUE" /\ e.b = first.b /\ e.p = first.p + n /\ e.gen = first.gen
  IN CHOOSE n \in 1 .. win.pages :
       /\ \A k \in 0 .. n - 1 : same(k)
       /\ n = win.pages \/ ~same(n)

\* sf_window_prepare: what the next group of pp starts.
window_prepare(pp) ==
  CASE pp.op = "FLUSH" -> "GROUP"
    [] pp.op = "READ" -> "GROUP"
    [] f.record_sequence >= RecordLimit -> "NO_CAPACITY"
    [] OTHER -> IF ~sf_record_space(f, 1) THEN "CHECKPOINT"
                ELSE IF head_tail(f) = 0 THEN "SPACE" ELSE "GROUP"

prepare_group(pp) ==
  LET win == window(pp) IN
  CASE window_prepare(pp) = "NO_CAPACITY" -> FALSE
    [] window_prepare(pp) = "CHECKPOINT" ->
         m' = begin_checkpoint(f, "NORMAL", FALSE) /\ UNCHANGED <<f, w>>
    [] window_prepare(pp) = "SPACE" -> space_start(Min(win.pages, MaxHostDeltas), FALSE)
    [] pp.op = "FLUSH" -> w' = [IdleWork EXCEPT !.kind = "HOST", !.phase = "FLUSH"] /\ UNCHANGED <<f, m>>
    [] pp.op = "READ" -> w' = host(cut(win, pp, read_run(pp)), "WINDOW_READ") /\ UNCHANGED <<f, m>>
    [] OTHER -> write_window(pp, cut(win, pp, Min(win.pages, head_tail(f))))

candidate(r) ==
  [NoParent EXCEPT !.owned = TRUE, !.state = "ACCEPTED", !.op = r.op, !.lba = r.lba,
                   !.count = r.count, !.ver = spent.writes + 1, !.base = f.durable_frontier,
                   !.hseq = f.durable_frontier + (IF r.op = "WRITE" THEN 1 ELSE 0)]

\* ACCEPTED takes the parent; BACKPRESSURE starts maintenance and owns nothing.
block_submit(r) ==
  LET pp == candidate(r)
      accepted == window_prepare(pp) = "GROUP"
  IN
  /\ running /\ f.ready /\ ~f.admission_closed /\ ~p.owned /\ clean_boundary
  /\ r.op = "WRITE" => spent.writes < set.writes
  /\ prepare_group(pp)
  /\ p' = IF accepted THEN pp ELSE p
  /\ wr' = IF accepted /\ r.op = "WRITE"
           THEN [lba |-> r.lba, count |-> r.count, ver |-> pp.ver, done |-> 0] ELSE wr
  /\ spent' = IF accepted /\ r.op = "WRITE" THEN [spent EXCEPT !.writes = @ + 1] ELSE spent
  /\ UNCHANGED <<media, formatted, known>>

parent_step ==
  /\ running /\ p.owned /\ p.state = "ACCEPTED" /\ clean_boundary
  /\ IF p.cancelled \/ f.admission_closed
     THEN /\ p' = [p EXCEPT !.cancelled = TRUE, !.state = "TERMINAL", !.outcome = "CANCELLED",
                            !.effect = IF p.done > 0 THEN "EXACT_PREFIX" ELSE "NONE"]
          /\ wr' = IF p.op = "WRITE" THEN C!NoWrite ELSE wr
          /\ UNCHANGED <<f, m, w>>
     ELSE IF window_prepare(p) = "NO_CAPACITY" THEN parent_fail(FALSE) /\ UNCHANGED m
     ELSE prepare_group(p) /\ UNCHANGED <<p, wr>>
  /\ still

group_success ==
  LET final == p.done + w.lbas = p.count
      exact == p.op = "WRITE" => f.durable_frontier = IF final THEN p.hseq ELSE p.base
  IN IF ~exact THEN sf_fail
     ELSE /\ p' = IF final THEN [p EXCEPT !.done = p.count, !.state = "TERMINAL",
                                          !.outcome = "SUCCEEDED", !.effect = "FULL"]
                  ELSE [p EXCEPT !.done = @ + w.lbas]
          /\ w' = IdleWork
          /\ wr' = IF final /\ p.op = "WRITE" THEN C!NoWrite ELSE wr
          /\ UNCHANGED f

Hosting(phase) == running /\ ~meta_busy /\ w.kind = "HOST" /\ w.phase = phase

\* A cancel is honoured while no child runs and no DATA page was programmed.
WindowCancelled ==
  /\ running /\ ~meta_busy /\ w.kind = "HOST" /\ p.cancelled /\ ~w.effect
  /\ w.phase # "HOST_PROGRAM_WAIT"
  /\ parent_fail(FALSE) /\ UNCHANGED m /\ still

WindowFlush ==
  /\ Hosting("FLUSH") /\ ~p.cancelled
  /\ group_success /\ UNCHANGED m /\ still

publish_read ==
  LET pages == 1 .. (w.lbas + Sectors - 1) \div Sectors
      e(n) == f.map[w.first + n - 1]
  IN IF \A n \in pages : e(n).state = "VALUE" => page_valid(media, f, w.first + n - 1, e(n))
     THEN group_success ELSE parent_fail(FALSE)

WindowRead ==
  /\ Hosting("WINDOW_READ") /\ ~p.cancelled
  /\ publish_read
  /\ UNCHANGED m /\ still

\* issue_program and merge_partial: the page that delta d programs.
merge_partial(d) ==
  LET mine == mask_for(p.lba + p.done, w.lbas, d.lpn)
  IN [lpn |-> d.lpn, uid |-> d.after.uid, gen |-> d.after.gen, mask |-> d.after.mask,
      data |-> [s \in Offsets |->
         IF s \in mine THEN p.ver
         ELSE IF s \in d.before.mask THEN Content(media, DataAt(d.before.b), d.before.p).data[s]
         ELSE 0]]

\* WINDOW_BUILD and RMW_WAIT: a partial page keeps the sectors it does not write.
WindowBuild ==
  LET ds == w.rec.deltas
      old == ds[1].before
      kept == old.mask \ mask_for(p.lba + p.done, w.lbas, ds[1].lpn)
  IN
  /\ Hosting("WINDOW_BUILD") /\ ~p.cancelled
  /\ IF partial(p) /\ kept # {} /\ ~page_valid(media, f, ds[1].lpn, old)
     THEN parent_fail(FALSE)
     ELSE /\ w' = [w EXCEPT !.phase = "HOST_PROGRAM_WAIT", 
                            !.cells = [i \in 1 .. Len(ds) |-> merge_partial(ds[i])]]
          /\ UNCHANGED <<f, p, wr>>
  /\ UNCHANGED m /\ still

WindowProgrammed ==
  /\ Hosting("HOST_PROGRAM_WAIT") /\ Complete
  /\ w' = [w EXCEPT !.phase = "HOST_PAGE", !.effect = TRUE, !.cells = <<>>]
  /\ UNCHANGED <<f, m, p>> /\ keep

\* EFFECT_NONE: cancelled below before dispatch, or rejected.
WindowNotProgrammed ==
  /\ Hosting("HOST_PROGRAM_WAIT") /\ (p.cancelled \/ set.faults)
  /\ parent_fail(FALSE) /\ UNCHANGED m /\ still

WindowMap ==
  /\ Hosting("HOST_PAGE")
  /\ journal(w.rec, [w EXCEPT !.phase = "HOST_MAP_WAIT"])
  /\ still

WindowMapped ==
  /\ Hosting("HOST_MAP_WAIT")
  /\ group_success /\ UNCHANGED m /\ still

-----------------------------------------------------------------------------
(* Cancel, retirement, close, failures and power cuts.                     *)

block_cancel ==
  /\ running /\ p.owned /\ p.state = "ACCEPTED" /\ ~p.cancelled
  /\ p' = [p EXCEPT !.cancelled = TRUE]
  /\ UNCHANGED <<media, f, m, w>> /\ keep

block_retire_start ==
  /\ running /\ p.owned /\ p.state = "TERMINAL"
  /\ p' = [p EXCEPT !.state = "DRAINING"]
  /\ UNCHANGED <<media, f, m, w>> /\ keep

block_retire_query ==
  /\ running /\ p.owned /\ p.state = "DRAINING" /\ w.kind = "NONE" /\ ~meta_busy
  /\ p' = NoParent
  /\ UNCHANGED <<media, f, m, w>> /\ keep

block_close ==
  /\ set.closing /\ f.up /\ ~f.admission_closed
  /\ f' = [f EXCEPT !.admission_closed = TRUE]
  /\ p' = IF p.owned THEN [p EXCEPT !.cancelled = TRUE] ELSE p
  /\ UNCHANGED <<media, m, w>> /\ keep

\* nfc_close: 1 the NFC reset was sent, 2 the NFC is quiescent.
close_step ==
  /\ running /\ f.admission_closed /\ ~p.owned /\ w.kind = "NONE" /\ ~meta_busy
  /\ f.nfc_close < 2
  /\ f' = [f EXCEPT !.nfc_close = @ + 1]
  /\ UNCHANGED <<media, m, w, p>> /\ keep

quiescent == f.admission_closed /\ ~f.quarantined /\ f.nfc_close = 2

fini ==
  /\ f.up /\ quiescent /\ spent.restarts < set.restarts
  /\ f' = Resident /\ m' = IdleMeta /\ w' = IdleWork /\ p' = NoParent
  /\ spent' = [spent EXCEPT !.restarts = @ + 1]
  /\ UNCHANGED <<media, formatted, known, wr>>

\* The child is refused by the medium, or fails with an unknown effect.
ChildFailed ==
  /\ running /\ HasChild
  /\ \/ ~Takes(media, Child) /\ UNCHANGED media
     \/ set.faults /\ Takes(media, Child) /\ media' \in {media, Done(media, Child), Cut(media, Child)}
  /\ sf_fail /\ m' = IF meta_busy THEN IdleMeta ELSE m
  /\ UNCHANGED <<formatted, known, spent>>

crash ==
  /\ f.up /\ spent.restarts < set.restarts
  /\ media' \in {media} \cup (IF running /\ HasChild THEN {Cut(media, Child)} ELSE {})
  /\ f' = Resident /\ m' = IdleMeta /\ w' = IdleWork /\ p' = NoParent
  /\ spent' = [spent EXCEPT !.restarts = @ + 1]
  /\ UNCHANGED <<formatted, known, wr>>

Step ==
  \/ CpErase \/ CpBody \/ CpHeader \/ CpRoot \/ CpRetire \/ JournalProgram \/ JournalApply
  \/ FormatErase \/ StartupClosed \/ ReadCheckpoint \/ replay_pair \/ Normalize
  \/ CleanSelect \/ CleanErase \/ CleanDone
  \/ SpaceResume \/ prepare_space \/ Opened \/ GcRead \/ GcProgrammed \/ GcCommitted
  \/ EraseIntended \/ Erased \/ EraseDone
  \/ parent_step \/ WindowCancelled \/ WindowFlush \/ WindowRead \/ WindowBuild
  \/ WindowProgrammed \/ WindowNotProgrammed \/ WindowMap \/ WindowMapped \/ ChildFailed
  \/ close_step

Client ==
  \/ format_start \/ recover_start \/ checkpoint_start \/ gc_start(1)
  \/ (\E r \in set.requests : block_submit(r))
  \/ block_cancel \/ block_retire_start \/ block_retire_query \/ block_close \/ fini

Next == UNCHANGED set /\ (Step \/ Client \/ crash)
Spec == Init /\ [][Next]_vars

-----------------------------------------------------------------------------
(* Properties.                                                             *)

\* Phases, roles and counters stay in range; the journal cursor never passes
\* the last slot (ftl_scale_meta.h, ftl_scale_work.h, ftl_scale_parent.h).
TypeOK ==
  /\ set \in Settings /\ DOMAIN media = Place
  /\ f.host_head \in 0 .. None /\ f.journal_next \in 1 .. JournalSlots
  /\ \A b \in Data : /\ f.blocks[b].role \in {"FREE", "HOST_OPEN", "GC_DEST", "CLOSED", "RECLAIM_PENDING"}
                     /\ f.blocks[b].end \in 0 .. PPB /\ f.blocks[b].live \in 0 .. PPB
                     /\ f.blocks[b].reserved \in 0 .. PPB - f.blocks[b].end
  /\ f.record_sequence <= RecordLimit /\ f.map_sequence <= f.record_sequence
  /\ w.kind \in {"NONE", "HOST", "SPACE", "GC"} /\ wr.done <= wr.count

\* The FTL implements FtlContract: across power cuts at any NAND operation, GC,
\* checkpoints and cancels, acknowledged Writes stay and a cut Write leaves a
\* prefix of whole groups (sf_record_validate_apply, sf_meta_step, sf_gc_step).
Contract == C!Spec

\* Power cuts, cancels, closes and a full volume never quarantine the FTL: every
\* recovery reads a consistent root, checkpoint and journal, and space
\* maintenance always finds a block and journal room (metadata_fail, sf_fail).
NeverQuarantined == ~set.faults => ~f.quarantined

\* At every instant the medium holds one selectable root with its checkpoint and
\* a rail header: CP_ERASE destroys the root of the other bank first, CP_ROOT
\* comes last, CP_RETIRE only after it (checkpoint_erase_block, sf_meta_step).
AuthorityReadable ==
  formatted => roots_agree /\ checkpoint_readable(root_at(select_root), select_root)

\* A FREE block is physically erased at the generation the table holds, so an
\* OPEN never programs over old cells (SF_ERASE_DONE, CLEAN_DONE).
FreeIsErased ==
  f.ready => \A b \in Data : f.blocks[b].role = "FREE" => media[DataAt(b)] = Blank(f.blocks[b].gen)

\* Between groups the unprogrammed tail of the Host head is what the table says,
\* also after a cancelled or rejected window (sf_window_step, sf_parent_fail).
HeadTailErased ==
  f.ready /\ clean_boundary /\ f.host_head # None =>
    LET blk == media[DataAt(f.host_head)]
    IN ~blk.torn /\ Len(blk.cells) = f.blocks[f.host_head].end /\ blk.gen = f.blocks[f.host_head].gen

\* The incremental validity bitmap and live counts equal what the map says, so a
\* block with a mapped page is never chosen as empty (validity_set, live_pages).
IndexExact ==
  f.ready => \A b \in Data : /\ {x \in f.validity : x[1] = b} = Mapped(f, b)
                             /\ f.blocks[b].live = Cardinality(Mapped(f, b))

\* Space maintenance that was started has the journal records it needs; the
\* FTL's README says it reserves records before it accepts work (sf_space_start).
RecordsReserved ==
  [][ (w.kind \in {"SPACE", "GC"} /\ ~set.faults) => ~f'.quarantined ]_vars

\* The terminal status of a Write tells the truth: FULL only when every sector is
\* mapped, EXACT_PREFIX the exact count, NONE nothing (sf_parent_fail,
\* sf_parent_group_success).
TerminalTruth ==
  (p.state = "ACCEPTED" /\ p'.state = "TERMINAL" /\ p.op = "WRITE") =>
        CASE p'.effect = "FULL" -> wr.done = wr.count
          [] p'.effect = "EXACT_PREFIX" -> wr.done = p'.done /\ p'.done > 0
          [] p'.effect = "NONE" -> wr.done = 0
          [] OTHER -> f'.quarantined

\* The durable frontier moves only forward, and only with the last group of a
\* Write (record.durable_frontier in sf_window_prepare).
FrontierLast ==
  (f.ready /\ f'.ready /\ f'.durable_frontier # f.durable_frontier) =>
        /\ f'.durable_frontier = f.durable_frontier + 1
        /\ wr'.done = wr'.count

-----------------------------------------------------------------------------
(* The firmware's loop steps whatever is runnable; the client retires what *)
(* became terminal.  Checked where the NFC answers and a client closes.    *)
Loop(A) == set.closing /\ A /\ UNCHANGED set

\* Recovery runs until the volume is ready, unless it is cut or closed first; an accepted
\* request until it is terminal; a closed epoch until the FTL is quiescent.
Recovering == set.closing /\ running /\ m.mode = "RECOVER"
RecoveryOver == f.ready \/ ~f.up \/ f.admission_closed
Requested == set.closing /\ p.owned /\ p.state = "ACCEPTED"
Closing == set.closing /\ f.admission_closed /\ f.up /\ ~quiescent

\* The tables in memory are true of the medium: types, free blocks, the head's
\* tail and the validity index (see each part).
TablesTrue == TypeOK /\ FreeIsErased /\ HeadTailErased /\ IndexExact

\* What a Write reports and what recovery will find agree: terminal status and
\* durable frontier (see each part).
ReportsTruth == TerminalTruth /\ FrontierLast
=============================================================================
