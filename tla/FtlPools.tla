------------------------------ MODULE FtlPools ------------------------------
(***************************************************************************)
(* core/ftl-scale in its format-3 construction: a Write is cut in waves of *)
(* runs, one run per open head, whose programs are in flight together; a   *)
(* Read keeps several runs in flight and delivers them in logical order.   *)
(*                                                                         *)
(* FtlScale has the metadata in detail.  Here a journal record, a          *)
(* checkpoint, an erase with its two records and the relocation of a       *)
(* victim are each one transaction `meta` that completes in one step; a    *)
(* power cut finds it done or not done, and recovery is one step.  A block *)
(* is identified by its erase generation; validity, heads and the heaps    *)
(* are what the block table and the map say.                               *)
(***************************************************************************)
EXTENDS Integers, Sequences, FiniteSets

CONSTANTS
  LpnCount, Sectors, PPB, DataBlocks, JournalSlots,   \* as in FtlMapping
  PerDomain,    \* blocks of one head domain (sf_head_domain)
  WriteRuns,    \* SF_WRITE_RUNS
  ReadRuns,     \* SF_READ_RUNS
  Settings      \* what a run may meet, see set

Data == 0 .. DataBlocks - 1
None == DataBlocks
Lpns == 0 .. LpnCount - 1
Offsets == 0 .. Sectors - 1
Lbas == 0 .. LpnCount * Sectors - 1
DomainCount == DataBlocks \div PerDomain
Domains == 0 .. DomainCount - 1

PoolConstants ==
  /\ {LpnCount, Sectors, PPB, DataBlocks, JournalSlots, PerDomain, WriteRuns, ReadRuns} \subseteq Nat \ {0}
  /\ DataBlocks % PerDomain = 0 /\ LpnCount <= (DataBlocks - 2) * (PPB - 1)
  /\ JournalSlots > DomainCount + 4

VARIABLES
  set,     \* requests: what the client may ask for; writes, reads, restarts, maint: bounds;
           \* faults: children may fail; closing: the epoch may be closed; credits: the
           \* operations the NFC accepts at a time
  cells,   \* block -> its programmed pages
  f,       \* map, block table and flags
  meta,    \* the metadata transaction in progress
  w,       \* f->work
  wp,      \* f->writes
  rp,      \* f->reads
  p,       \* f->parent
  known,   \* sector -> version, as a client would read it
  wr,      \* the Write a client has in flight
  spent    \* the bounds used up

vars == <<set, cells, f, meta, w, wp, rp, p, known, wr, spent>>

C == INSTANCE FtlContract WITH store <- known

-----------------------------------------------------------------------------
(* Initial values.                                                         *)

Unmapped == [b |-> None, p |-> 0, gen |-> 0, mask |-> {}]
FreeBlock(gen) == [role |-> "FREE", gen |-> gen, end |-> 0, reserved |-> 0]
Torn == [lpn |-> LpnCount]

Idle == [kind |-> "IDLE"]
IdleWork == [kind |-> "NONE", phase |-> "IDLE", effect |-> FALSE, force |-> FALSE, src |-> None]
NoWave == [active |-> FALSE, phase |-> "IDLE", start |-> 0, run |-> <<>>,
           map_cursor |-> 1, todo |-> {}, committed |-> 0, failed |-> FALSE]
EmptyRun == [state |-> "EMPTY", off |-> 0, lbas |-> 0, first |-> 0, map |-> <<>>, data |-> <<>>]
NoReads == [active |-> FALSE, issued |-> 0, stopping |-> FALSE,
            run |-> [i \in 1 .. ReadRuns |-> EmptyRun]]
NoParent == [owned |-> FALSE, state |-> "RETIRED", op |-> "NONE", lba |-> 0, count |-> 0,
             ver |-> 0, done |-> 0, base |-> 0, cancelled |-> FALSE, effect |-> "NONE",
             buf |-> <<>>]

Init ==
  /\ set \in Settings
  /\ cells = [b \in Data |-> <<>>]
  /\ f = [map |-> [l \in Lpns |-> Unmapped], blk |-> [b \in Data |-> FreeBlock(0)],
          frontier |-> 0, slots |-> 1, preferred |-> 0, quarantined |-> FALSE,
          closed |-> FALSE, quiet |-> FALSE]
  /\ meta = Idle /\ w = IdleWork /\ wp = NoWave /\ rp = NoReads /\ p = NoParent
  /\ known = [x \in Lbas |-> 0] /\ wr = C!NoWrite
  /\ spent = [writes |-> 0, reads |-> 0, restarts |-> 0, maint |-> 0]

-----------------------------------------------------------------------------
(* Blocks, heads and pages.                                                *)

Least(S) == CHOOSE x \in S : \A y \in S : x <= y
Smaller(a, b) == IF a <= b THEN a ELSE b
Only(S) == CHOOSE x \in S : TRUE
ceiling(a, b) == (a + b - 1) \div b

value(e) == e.b # None
live(g, b) == {l \in Lpns : g.map[l].b = b}
sf_head_domain(b) == b \div PerDomain
heads(g) == {b \in Data : g.blk[b].role = "HOST_OPEN"}
head(g, d) == {b \in heads(g) : sf_head_domain(b) = d}
sf_heads_unreserved == \A b \in heads(f) : f.blk[b].reserved = 0

sf_head_tail(g, d) ==
  IF head(g, d) = {} THEN 0
  ELSE LET k == g.blk[Least(head(g, d))] IN IF k.reserved > 0 THEN 0 ELSE PPB - k.end

free_set(g) == {b \in Data : g.blk[b].role = "FREE"}
best(g, S) ==
  LET wear == Least({g.blk[b].gen : b \in S}) IN Least({b \in S : g.blk[b].gen = wear})
victims(g) == {b \in Data : g.blk[b].role = "CLOSED" /\ Cardinality(live(g, b)) < PPB}
victim_top(g) ==
  LET n == Least({Cardinality(live(g, b)) : b \in victims(g)})
  IN best(g, {b \in victims(g) : Cardinality(live(g, b)) = n})

sf_record_space(records) == f.slots + records <= JournalSlots

\* sf_read_page_valid: the page under e is the one l was mapped to.
page_valid(cs, g, l, e) ==
  /\ e.gen = g.blk[e.b].gen /\ e.p < Len(cs[e.b])
  /\ LET c == cs[e.b][e.p + 1] IN c # Torn /\ c.lpn = l /\ c.gen = e.gen /\ c.mask = e.mask

Lost == 99
View(cs, g) ==
  [x \in Lbas |->
     LET l == x \div Sectors
         e == g.map[l]
     IN IF ~value(e) \/ x % Sectors \notin e.mask THEN 0
        ELSE IF ~page_valid(cs, g, l, e) THEN Lost
        ELSE cs[e.b][e.p + 1].data[x % Sectors]]

meta_busy == meta # Idle
running == ~f.quarantined

\* sf_parent_clean_boundary.
clean_boundary == w.kind = "NONE" /\ ~w.effect /\ ~meta_busy /\ sf_heads_unreserved

-----------------------------------------------------------------------------
(* The end of a parent.                                                    *)

\* sf_write_known_prefix: runs of an unfinished wave that are already mapped.
\* Mutant: programmed runs are counted before they are mapped.
sf_write_known_prefix_Programmed(wave) ==
  LET n == Cardinality({i \in 1 .. Len(wave.run) : wave.run[i].state = "RESOLVED"})
  IN IF wave.active /\ n > 0 THEN wave.run[n].off + wave.run[n].lbas - wave.start ELSE 0
sf_write_known_prefix(wave) == IF wave.active THEN wave.committed ELSE 0

\* sf_parent_fail, with the parent, wave, effect_seen and quarantine the caller leaves.
parent_fail(pp, wave, effect, quarantined) ==
  LET done == pp.done + sf_write_known_prefix(wave) IN
  IF pp.owned /\ pp.state = "ACCEPTED"
  THEN /\ p' = [pp EXCEPT !.state = "TERMINAL", !.done = done,
                  !.effect = IF effect \/ quarantined THEN "UNKNOWN_PREFIX"
                             ELSE IF done > 0 THEN "EXACT_PREFIX" ELSE "NONE"]
       /\ w' = [IdleWork EXCEPT !.effect = quarantined /\ effect]
       /\ wr' = IF quarantined \/ p.op # "WRITE" THEN wr ELSE C!NoWrite
  ELSE UNCHANGED <<p, w, wr>>

sf_fail == parent_fail(p, wp, w.effect, TRUE) /\ f' = [f EXCEPT !.quarantined = TRUE]

\* sf_parent_group_success for a group of lbas sectors.
group_success(pp, lbas) ==
  LET done == pp.done + lbas IN
  IF done = pp.count THEN [pp EXCEPT !.done = done, !.state = "TERMINAL", !.effect = "FULL"]
  ELSE [pp EXCEPT !.done = done]

-----------------------------------------------------------------------------
(* Metadata transactions.                                                  *)

\* The map after the deltas of a run or of a relocation; the block's cursor.
remap(g, b, gen, first, ds) ==
  LET I == 1 .. Len(ds)
      new(i) == [b |-> b, p |-> first + i - 1, gen |-> gen, mask |-> ds[i].mask]
      end == first + Len(ds)
  IN [g EXCEPT
        !.map = [l \in Lpns |-> IF \E i \in I : ds[i].lpn = l
                                THEN new(CHOOSE i \in I : ds[i].lpn = l) ELSE @[l]],
        !.blk[b] = [@ EXCEPT !.end = end, !.reserved = 0,
                             !.role = IF end = PPB THEN "CLOSED" ELSE @]]

\* sf_record_validate_apply refuses a MAP record that does not fit the tables.
record_valid(g, t) ==
  CASE t.kind = "MAP" ->
         /\ g.blk[t.b].role = "HOST_OPEN" /\ g.blk[t.b].gen = t.gen /\ g.blk[t.b].end = t.first
         /\ g.blk[t.b].reserved \in {0, Len(t.deltas)} /\ t.frontier >= g.frontier
         /\ \A i \in 1 .. Len(t.deltas) : t.deltas[i].before = g.map[t.deltas[i].lpn]
    [] t.kind = "OPEN" -> g.blk[t.b].role = "FREE" /\ head(g, sf_head_domain(t.b)) = {}
    [] t.kind = "CLOSE" -> g.blk[t.b].role = "HOST_OPEN" /\ g.blk[t.b].reserved = 0
    [] t.kind = "ERASE" -> live(g, t.b) = {} /\ g.blk[t.b].role \in {"CLOSED", "RECLAIM_PENDING"}
    [] t.kind = "GC" -> heads(g) = {} /\ g.blk[t.b].role = "CLOSED" /\ g.blk[t.dst].role = "FREE"
    [] OTHER -> TRUE

\* The pages of victim b in page order, as deltas.
relocated(g, b) ==
  LET pages == {g.map[l].p : l \in live(g, b)}
      nth(i) == CHOOSE q \in pages : Cardinality({x \in pages : x < q}) = i - 1
  IN [i \in 1 .. Cardinality(pages) |->
        LET l == CHOOSE x \in live(g, b) : g.map[x].p = nth(i)
        IN [lpn |-> l, mask |-> g.map[l].mask, before |-> g.map[l],
            data |-> cells[b][nth(i) + 1].data]]

page_cells(gen, ds) ==
  [i \in 1 .. Len(ds) |-> [lpn |-> ds[i].lpn, gen |-> gen, mask |-> ds[i].mask, data |-> ds[i].data]]

apply(g, t) ==
  CASE t.kind = "MAP" -> [remap(g, t.b, t.gen, t.first, t.deltas) EXCEPT
                            !.frontier = t.frontier, !.slots = @ + 1]
    [] t.kind = "OPEN" -> [g EXCEPT !.blk[t.b].role = "HOST_OPEN", !.slots = @ + 1]
    [] t.kind = "CLOSE" -> [g EXCEPT !.blk[t.b].role = "CLOSED", !.blk[t.b].end = PPB, !.slots = @ + 1]
    [] t.kind = "ERASE" -> [g EXCEPT !.blk[t.b] = FreeBlock(@.gen + 1), !.slots = @ + 2]
    [] t.kind = "GC" ->
         LET h == remap([g EXCEPT !.blk[t.dst].role = "HOST_OPEN"], t.dst, g.blk[t.dst].gen, 0, relocated(g, t.b))
         IN [h EXCEPT !.blk[t.b].role = "RECLAIM_PENDING", !.blk[t.dst].role = "HOST_OPEN", !.slots = @ + 2]
    [] t.kind = "CP" -> [g EXCEPT !.slots = 1]

applied_cells(g, t) ==
  CASE t.kind = "ERASE" -> [cells EXCEPT ![t.b] = <<>>]
    [] t.kind = "GC" -> [cells EXCEPT ![t.dst] = page_cells(g.blk[t.dst].gen, relocated(g, t.b))]
    [] OTHER -> cells

\* The transaction commits and is applied; a MAP makes sectors of the Write durable.
MetaDone ==
  /\ running /\ meta_busy
  /\ IF record_valid(f, meta)
     THEN /\ f' = apply(f, meta) /\ cells' = applied_cells(f, meta) /\ UNCHANGED <<p, w>>
          /\ wr' = IF meta.kind = "MAP" THEN [wr EXCEPT !.done = @ + meta.lbas] ELSE wr
          /\ known' = View(cells', f')
     ELSE sf_fail /\ UNCHANGED <<cells, known>>
  /\ meta' = Idle
  /\ UNCHANGED <<wp, rp, spent>>

\* One of its NFC children fails (metadata_fail); what it wrote may still be
\* found by recovery, so the transaction stays where it is.
MetaFail ==
  /\ running /\ meta_busy /\ set.faults
  /\ sf_fail
  /\ UNCHANGED <<cells, meta, wp, rp, known, spent>>

-----------------------------------------------------------------------------
(* Space (ftl_scale_gc.c), between waves only.                             *)

start(t, ww) == meta' = t /\ w' = ww /\ UNCHANGED f
space(phase) == [IdleWork EXCEPT !.kind = "SPACE", !.phase = phase]

sf_checkpoint_start(ww) == start([kind |-> "CP"], ww)

\* sf_head_open_start for a domain without a head.
sf_head_open_start(d) ==
  LET b == best(f, {x \in free_set(f) : sf_head_domain(x) = d}) IN
  IF sf_record_space(1) THEN start([kind |-> "OPEN", b |-> b], space("OPEN_WAIT"))
  ELSE sf_checkpoint_start(IdleWork)

sf_space_start(force) ==
  LET ww == [space("SPACE") EXCEPT !.force = force] IN
  IF sf_record_space(DomainCount + 4) THEN w' = ww /\ UNCHANGED <<f, meta>>
  ELSE sf_checkpoint_start(ww)

\* fwlab_ftl_scale_gc_start: maintenance on request, with no parent.
gc_start ==
  /\ running /\ ~f.closed /\ ~p.owned /\ clean_boundary
  /\ \E b \in heads(f) \cup victims(f) : Cardinality(live(f, b)) < PPB
  /\ spent.maint < set.maint /\ spent' = [spent EXCEPT !.maint = @ + 1]
  /\ sf_space_start(TRUE)
  /\ UNCHANGED <<cells, wp, rp, p, known, wr>>

\* prepare_space and the waits of sf_gc_step: one transaction per step.
SpaceStep ==
  LET pending == {b \in Data : f.blk[b].role = "RECLAIM_PENDING" /\ live(f, b) = {}}
      top == victim_top(f)
      size == Cardinality(live(f, top))
      Start(t, ww) == start(t, ww) /\ UNCHANGED <<p, wr>>
      erase(b) == Start([kind |-> "ERASE", b |-> b], [w EXCEPT !.force = FALSE])
  IN
  /\ running /\ ~meta_busy /\ w.kind = "SPACE"
  /\ IF w.phase = "GC_COMMIT_WAIT" THEN Start([kind |-> "ERASE", b |-> w.src], space("OPEN_WAIT"))
     ELSE IF w.phase = "OPEN_WAIT" \/ (~w.force /\ \E d \in Domains : sf_head_tail(f, d) > 0)
     THEN w' = IdleWork /\ UNCHANGED <<f, meta, p, wr>>
     ELSE IF heads(f) # {} THEN Start([kind |-> "CLOSE", b |-> Least(heads(f))], w)
     ELSE IF pending # {} THEN erase(Least(pending))
     ELSE IF ~w.force /\ Cardinality(free_set(f)) > 1
     THEN Start([kind |-> "OPEN", b |-> best(f, free_set(f))], space("OPEN_WAIT"))
     ELSE IF victims(f) = {} THEN sf_fail /\ UNCHANGED meta
     ELSE IF size = 0 THEN erase(top)
     ELSE IF free_set(f) = {} \/ size > PPB - 1 THEN sf_fail /\ UNCHANGED meta
     ELSE Start([kind |-> "GC", b |-> top, dst |-> best(f, free_set(f))],
                [space("GC_COMMIT_WAIT") EXCEPT !.src = top])
  /\ UNCHANGED <<cells, wp, rp, known, spent>>

-----------------------------------------------------------------------------
(* A wave of Write runs (ftl_scale_write.c).                               *)

requested_mask(lba, lbas, l) == {s \in Offsets : l * Sectors + s \in lba .. lba + lbas - 1}

\* The pages the rest of the parent touches.
physical_pages(pp) == ceiling(((pp.lba + pp.done) % Sectors) + pp.count - pp.done, Sectors)

\* sf_head_select, again and again: the domains of the next wave, in rotation,
\* each with pages left in its head or with a free block to open.
openable(d) ==
  /\ head(f, d) = {} /\ Cardinality(free_set(f)) > 1
  /\ \E b \in free_set(f) : sf_head_domain(b) = d
selected(physical) ==
  LET turn == [n \in 1 .. DomainCount |-> (f.preferred + n - 1) % DomainCount]
      ready == SelectSeq(turn, LAMBDA d : sf_head_tail(f, d) > 0 \/ openable(d))
  IN SubSeq(ready, 1, Smaller(Smaller(WriteRuns, physical), Len(ready)))

\* One run: a span of the head of domain d, its deltas and the Host's sectors.
write_run(pp, off, d, pages) ==
  LET lba == pp.lba + off
      lbas == Smaller(pages * Sectors - (lba % Sectors), pp.count - off)
      b == Least(head(f, d))
      delta(i) ==
        LET l == lba \div Sectors + i - 1
            req == requested_mask(lba, lbas, l)
        IN [lpn |-> l, before |-> f.map[l], mask |-> f.map[l].mask \cup req, req |-> req,
            data |-> [s \in Offsets |-> IF s \in req THEN pp.ver ELSE 0]]
  IN [dom |-> d, b |-> b, gen |-> f.blk[b].gen, first |-> f.blk[b].end, off |-> off,
      lbas |-> lbas, deltas |-> [i \in 1 .. pages |-> delta(i)], state |-> "PREPARED",
      reserved |-> TRUE]

\* The pages left are spread evenly over the domains left, within each tail.
plan_run(pp, a, d, domains) ==
  LET pages == Smaller(ceiling(a.left, domains), sf_head_tail(f, d))
      r == write_run(pp, a.off, d, pages)
  IN [runs |-> Append(a.runs, r), off |-> a.off + r.lbas, left |-> a.left - pages]
planned(pp, ds) ==
  LET n == Len(ds)
      plan[i \in 0 .. n] ==
        IF i = 0 THEN [runs |-> <<>>, off |-> pp.done, left |-> physical_pages(pp)]
        ELSE Only({plan_run(pp, a, ds[i], n - i + 1) : a \in {plan[i - 1]}})
  IN plan[n].runs

\* needs_rmw: mapped sectors of the page that the Host does not overwrite.
\* Mutant: a partial page is written without reading the rest of it.
preserve_None(d) == {}
preserve(d) == IF value(d.before) THEN d.before.mask \ d.req ELSE {}
needing_rmw(runs) ==
  {x \in (1 .. Len(runs)) \X (1 .. PPB) :
     x[2] <= Len(runs[x[1]].deltas) /\ preserve(runs[x[1]].deltas[x[2]]) # {}}

\* sf_write_parent_prepare: the wave is built from the state as it is now, after
\* any head it needs was opened.
sf_write_parent_prepare(pp) ==
  \E ds \in {selected(physical_pages(pp))} :
    LET closed == {i \in 1 .. Len(ds) : sf_head_tail(f, ds[i]) = 0} IN
    IF closed # {} THEN sf_head_open_start(ds[Least(closed)]) /\ UNCHANGED wp
    ELSE IF ds = <<>> THEN sf_space_start(FALSE) /\ UNCHANGED wp
    ELSE IF ~sf_record_space(Len(ds)) THEN sf_checkpoint_start(IdleWork) /\ UNCHANGED wp
    ELSE \E runs \in {planned(pp, ds)} :
           /\ wp' = [NoWave EXCEPT !.active = TRUE, !.phase = "RMW", !.start = pp.done, !.run = runs,
                       !.todo = {runs[x[1]].deltas[x[2]].lpn : x \in needing_rmw(runs)}]
           /\ f' = [f EXCEPT !.blk = [b \in Data |->
                       IF \E i \in 1 .. Len(runs) : runs[i].b = b
                       THEN [@[b] EXCEPT !.reserved =
                               Len(runs[CHOOSE i \in 1 .. Len(runs) : runs[i].b = b].deltas)]
                       ELSE @[b]]]
           /\ w' = [IdleWork EXCEPT !.kind = "HOST"] /\ UNCHANGED meta

accepted(r) == r.state \in {"WAIT", "RESOLVED"}
Runs == 1 .. Len(wp.run)
stopping == p.cancelled \/ f.closed
Waving(phase) == running /\ ~meta_busy /\ wp.active /\ wp.phase = phase

\* unreserve and abandon_unaccepted: the reservations of the runs of S end.
unreserved(g, S) ==
  [g EXCEPT !.blk = [b \in Data |-> IF \E i \in S : wp.run[i].reserved /\ wp.run[i].b = b
                                     THEN [@[b] EXCEPT !.reserved = 0] ELSE @[b]]]

\* Nothing was accepted: the wave leaves no trace.
fail_unprogrammed ==
  /\ f' = unreserved(f, Runs)
  /\ wp' = NoWave
  /\ parent_fail(p, NoWave, FALSE, FALSE)
\* One page at a time is read before any program starts.
RmwStart ==
  /\ Waving("RMW")
  /\ IF stopping THEN fail_unprogrammed
     ELSE /\ wp' = [wp EXCEPT !.phase = IF wp.todo # {} THEN "RMW_WAIT" ELSE "DATA"]
          /\ UNCHANGED <<f, p, w, wr>>
  /\ UNCHANGED <<cells, meta, rp, known, spent>>

RmwDone ==
  LET l == Least(wp.todo)
      merged(d) ==
        IF d.lpn # l THEN d
        ELSE LET old == cells[d.before.b][d.before.p + 1]
             IN [d EXCEPT !.data = [s \in Offsets |-> IF s \in preserve(d) THEN old.data[s] ELSE @[s]]]
      good == page_valid(cells, f, l, f.map[l])
  IN
  /\ Waving("RMW_WAIT")
  /\ \/ /\ stopping \/ set.faults \/ ~good
        /\ fail_unprogrammed
     \/ /\ ~stopping /\ good
        /\ wp' = [wp EXCEPT !.phase = "RMW", !.todo = @ \ {l},
                            !.run = [i \in Runs |-> [@[i] EXCEPT !.deltas =
                                       [k \in DOMAIN @ |-> merged(@[k])]]]]
        /\ UNCHANGED <<f, p, w, wr>>
  /\ UNCHANGED <<cells, meta, rp, known, spent>>

\* What the NFC may answer a program; a failed one may leave a torn page.
Answers == IF set.faults THEN {"OK", "NONE", "TORN"} ELSE {"OK"}
programmed(cs, r, a) ==
  CASE a = "OK" -> [cs EXCEPT ![r.b] = @ \o page_cells(r.gen, r.deltas)]
    [] a = "TORN" -> [cs EXCEPT ![r.b] = Append(@, Torn)]
    [] OTHER -> cs
\* The answers out of the runs in 1 .. n, each run in a block of its own.
landed(n, out) ==
  LET cs[i \in 0 .. n] ==
        IF i = 0 THEN cells
        ELSE IF i \in DOMAIN out THEN programmed(cs[i - 1], wp.run[i], out[i]) ELSE cs[i - 1]
  IN cs[n]

\* The ordered fill pass: n runs are accepted in all, in order; then the NFC
\* holds the next one back, or rejects it, or the wave is stopping.
filled(n, drop) ==
  [i \in Runs |-> IF wp.run[i].state # "PREPARED" THEN wp.run[i]
                  ELSE IF i <= n THEN [wp.run[i] EXCEPT !.state = "WAIT"]
                  ELSE IF drop THEN [wp.run[i] EXCEPT !.state = "SKIPPED", !.reserved = FALSE]
                  ELSE wp.run[i]]

\* data_step: fill, then collect whatever the NFC has finished.
DataStep ==
  LET before == Cardinality({i \in Runs : accepted(wp.run[i])})
      held == Cardinality({i \in Runs : wp.run[i].state = "WAIT"})
      stop == stopping \/ wp.failed
      room == IF stop THEN 0 ELSE Smaller(set.credits - held, Len(wp.run) - before)
  IN
  /\ Waving("DATA")
  /\ \E n \in before .. before + room :
     \E rejected \in IF set.faults /\ ~stop /\ n < Len(wp.run) THEN BOOLEAN ELSE {FALSE} :
     \E run \in {filled(n, stop \/ rejected)} :
     \E done \in SUBSET {i \in Runs : run[i].state = "WAIT"} :
     \E out \in [done -> Answers] :
            LET dropped == {i \in Runs : run[i].state = "SKIPPED"}
                after == [i \in Runs |-> IF i \in done THEN [run[i] EXCEPT !.state = "RESOLVED"] ELSE run[i]]
                failed == wp.failed \/ rejected \/ \E i \in done : out[i] # "OK"
                over == \A i \in Runs : after[i].state \in {"RESOLVED", "SKIPPED"}
            IN /\ cells' = landed(Len(wp.run), out)
               /\ IF over /\ ~failed /\ n = 0 THEN fail_unprogrammed
                  ELSE /\ wp' = [wp EXCEPT !.run = after, !.failed = failed,
                                   !.phase = IF ~over THEN @ ELSE IF failed THEN "ABORT" ELSE "MAP"]
                       /\ f' = unreserved(f, dropped)
                       /\ w' = [w EXCEPT !.effect = @ \/ n > 0] /\ UNCHANGED <<p, wr>>
  /\ UNCHANGED <<meta, rp, known, spent>>

\* abort_step: the NFC is reset and drained, then the FTL asks for recovery.
AbortStep ==
  /\ \/ /\ Waving("ABORT") /\ wp' = [wp EXCEPT !.phase = "ABORT_WAIT"]
        /\ UNCHANGED <<f, p, w, wr>>
     \/ Waving("ABORT_WAIT") /\ sf_fail /\ UNCHANGED wp
  /\ UNCHANGED <<cells, meta, rp, known, spent>>

accepted_runs == {i \in Runs : accepted(wp.run[i])}
accepted_lbas == LET last == wp.run[Cardinality(accepted_runs)] IN last.off + last.lbas - wp.start

\* The frontier moves with the last MAP of the last wave only.
map_frontier ==
  IF wp.map_cursor = Cardinality(accepted_runs) /\ wp.start + accepted_lbas = p.count
  THEN p.base + 1 ELSE p.base

MapStart ==
  LET r == wp.run[wp.map_cursor] IN
  /\ Waving("MAP")
  /\ meta' = [kind |-> "MAP", b |-> r.b, gen |-> r.gen, first |-> r.first, deltas |-> r.deltas,
              frontier |-> map_frontier, lbas |-> r.lbas]
  /\ wp' = [wp EXCEPT !.phase = "MAP_WAIT"]
  /\ UNCHANGED <<cells, f, rp, p, w, known, wr, spent>>

MapDone ==
  /\ Waving("MAP_WAIT")
  /\ wp' = [wp EXCEPT !.run[wp.map_cursor].reserved = FALSE, !.map_cursor = @ + 1,
                      !.committed = @ + wp.run[wp.map_cursor].lbas,
                      !.phase = IF wp.map_cursor = Cardinality(accepted_runs) THEN "FINISH" ELSE "MAP"]
  /\ UNCHANGED <<cells, f, meta, rp, p, w, known, wr, spent>>

\* sf_parent_group_success checks the frontier before it reports.
Finish ==
  LET pp == group_success(p, wp.committed) IN
  /\ Waving("FINISH")
  /\ IF wp.committed = accepted_lbas /\ sf_heads_unreserved
        /\ f.frontier = IF pp.done = p.count THEN p.base + 1 ELSE p.base
     THEN /\ p' = pp /\ w' = IdleWork /\ wp' = NoWave
          /\ f' = [f EXCEPT !.preferred = (wp.run[Cardinality(accepted_runs)].dom + 1) % DomainCount]
          /\ wr' = IF pp.state = "TERMINAL" THEN C!NoWrite ELSE wr
     ELSE sf_fail /\ UNCHANGED wp
  /\ UNCHANGED <<cells, meta, rp, known, spent>>

-----------------------------------------------------------------------------
(* The pool of Read runs (ftl_scale_read.c).  Operation UIDs are given in  *)
(* the order of the offsets, so the offset stands for the UID.             *)

\* prepare: the longest run of consecutive pages, mapped or unmapped.
read_run(issued) ==
  LET lba == p.lba + issued
      left == p.count - issued
      first == lba \div Sectors
      e == f.map[first]
      partial == lba % Sectors # 0 \/ left < Sectors
      same(k) == LET x == f.map[first + k] IN
                 IF value(e) THEN x.b = e.b /\ x.gen = e.gen /\ x.p = e.p + k ELSE ~value(x)
      most == IF partial THEN 1 ELSE left \div Sectors
      pages == CHOOSE n \in 1 .. most : /\ \A k \in 0 .. n - 1 : same(k)
                                        /\ n = most \/ ~same(n)
  IN [state |-> IF value(e) THEN "SUBMIT" ELSE "READY", off |-> issued, first |-> first,
      lbas |-> IF partial THEN Smaller(Sectors - (lba % Sectors), left) ELSE pages * Sectors,
      map |-> [k \in 1 .. pages |-> f.map[first + k - 1]], data |-> <<>>]

InState(run, S) == {i \in 1 .. ReadRuns : run[i].state \in S}
oldest(run, S) == CHOOSE i \in InState(run, S) : \A j \in InState(run, S) : run[i].off <= run[j].off

\* One turn of the fill pass: the run with the oldest UID that is not accepted,
\* else the next run; a run the NFC holds back ends the pass.
fill_turn(a, rejects) ==
  LET turn(b, i) ==
        IF b.stop THEN [b EXCEPT !.run[i].state = "READY"]
        ELSE IF b.room > 0 THEN [b EXCEPT !.run[i].state = "WAIT", !.room = @ - 1]
        ELSE IF rejects THEN [b EXCEPT !.run[i].state = "READY", !.stop = TRUE]
        ELSE [b EXCEPT !.held = TRUE]
      empty == InState(a.run, {"EMPTY"})
      next == read_run(a.issued)
      added == [a EXCEPT !.run[Least(empty)] = next, !.issued = @ + next.lbas]
  IN IF a.held THEN a
     ELSE IF InState(a.run, {"SUBMIT"}) # {} THEN turn(a, oldest(a.run, {"SUBMIT"}))
     ELSE IF a.stop \/ a.issued >= p.count \/ empty = {} THEN a
     ELSE IF next.state = "READY" THEN added
     ELSE turn(added, Least(empty))

read_filled(room, rejects) ==
  LET pass[n \in 0 .. ReadRuns] ==
        IF n = 0 THEN [run |-> rp.run, issued |-> rp.issued, room |-> room, held |-> FALSE,
                       stop |-> rp.stopping \/ stopping]
        ELSE Only({fill_turn(a, rejects) : a \in {pass[n - 1]}})
  IN pass[ReadRuns]

\* What a finished run brings, or nothing when a page is not the mapped one.
pages_of(r) == [k \in 1 .. Len(r.map) |-> cells[r.map[k].b][r.map[k].p + 1].data]
valid_read(r) == \A k \in 1 .. Len(r.map) : page_valid(cells, f, r.first + k - 1, r.map[k])

\* sf_read_zero_invalid: a sector that is not in the mask reads as zero.
sectors_of(r) ==
  [x \in 1 .. r.lbas |->
     LET lba == p.lba + r.off + x - 1
         k == lba \div Sectors - r.first + 1
     IN IF value(r.map[k]) /\ lba % Sectors \in r.map[k].mask THEN r.data[k][lba % Sectors] ELSE 0]

prefix_run(a) == {i \in InState(a.run, {"READY"}) : a.run[i].off = a.p.done}

\* The run at the end of the delivered prefix, if it is ready, is delivered.
deliver_turn(a) ==
  LET ready == prefix_run(a)
      i == Least(ready)
      r == a.run[i]
      current == \A k \in 1 .. Len(r.map) : r.map[k] = f.map[r.first + k - 1]
  IN IF a.stop \/ ready = {} THEN a
     ELSE IF ~current THEN [a EXCEPT !.stop = TRUE]
     ELSE [a EXCEPT !.run[i] = EmptyRun,
                    !.p = [group_success(@, r.lbas) EXCEPT !.buf = @ \o sectors_of(r)]]

deliver(run) ==
  LET turn[n \in 0 .. ReadRuns] ==
        IF n = 0 THEN [run |-> run, p |-> p, stop |-> FALSE]
        ELSE Only({deliver_turn(a) : a \in {turn[n - 1]}})
  IN turn[ReadRuns]

\* sf_read_pool_step, whole: fill, one turn of the NFC, collect, deliver, end.
ReadStep ==
  LET held == Cardinality(InState(rp.run, {"WAIT"})) IN
  /\ running /\ rp.active
  /\ \E room \in 0 .. set.credits - held :
     \E rejects \in IF set.faults THEN BOOLEAN ELSE {FALSE} :
     \E a \in {read_filled(room, rejects)} :
       \E done \in SUBSET InState(a.run, {"WAIT"}) :
       \E bad \in IF set.faults THEN SUBSET done ELSE {{}} :
       \E good \in {{i \in done \ bad : valid_read(a.run[i])}} :
         LET collected == [i \in 1 .. ReadRuns |->
                             IF i \notin done THEN a.run[i]
                             ELSE [a.run[i] EXCEPT !.state = "READY",
                                     !.data = IF i \in good THEN pages_of(a.run[i]) ELSE <<>>]]
             stopped == a.stop \/ done # good
         IN
       \E d \in {IF stopped THEN [run |-> collected, p |-> p, stop |-> TRUE] ELSE deliver(collected)} :
         LET left == [i \in 1 .. ReadRuns |->
                        IF d.stop /\ d.run[i].state \in {"READY", "SUBMIT"} THEN EmptyRun ELSE d.run[i]]
             over == InState(left, {"SUBMIT", "WAIT", "READY"}) = {} /\ (d.stop \/ d.p.done = p.count)
         IN /\ rp' = IF over THEN NoReads
                     ELSE [rp EXCEPT !.run = left, !.issued = a.issued, !.stopping = d.stop]
            /\ IF over /\ d.stop THEN parent_fail(d.p, NoWave, FALSE, FALSE)
               ELSE /\ p' = d.p /\ UNCHANGED wr
                    /\ w' = IF d.p.done > p.done THEN IdleWork ELSE w
  /\ UNCHANGED <<cells, f, meta, wp, known, spent>>

-----------------------------------------------------------------------------
(* The parent and its client.                                              *)

\* prepare_group for the parent pp: owned' says whether it now has work.
prepare_group(pp) ==
  IF pp.op = "READ"
  THEN /\ rp' = [NoReads EXCEPT !.active = TRUE]
       /\ w' = [IdleWork EXCEPT !.kind = "HOST"] /\ UNCHANGED <<f, meta, wp>>
  ELSE sf_write_parent_prepare(pp) /\ UNCHANGED rp

\* block_submit and sf_parent_admit: a request that first needs maintenance is
\* held back, and the client asks again.
Submit(rq) ==
  LET pp == [NoParent EXCEPT !.owned = TRUE, !.state = "ACCEPTED", !.op = rq.op, !.lba = rq.lba,
               !.count = rq.count, !.base = f.frontier,
               !.ver = IF rq.op = "WRITE" THEN spent.writes + 1 ELSE 0]
  IN
  /\ running /\ ~f.closed /\ ~p.owned /\ clean_boundary
  /\ IF rq.op = "WRITE" THEN spent.writes < set.writes ELSE spent.reads < set.reads
  /\ prepare_group(pp)
  /\ IF w'.kind = "HOST"
     THEN /\ p' = pp
          /\ wr' = IF rq.op = "WRITE"
                   THEN [lba |-> rq.lba, count |-> rq.count, ver |-> pp.ver, done |-> 0] ELSE wr
          /\ spent' = IF rq.op = "WRITE" THEN [spent EXCEPT !.writes = @ + 1]
                      ELSE [spent EXCEPT !.reads = @ + 1]
     ELSE UNCHANGED <<p, wr, spent>>
  /\ UNCHANGED <<cells, known>>

\* sf_parent_step: the next wave of the same parent, at a clean boundary.
ParentStep ==
  /\ running /\ p.owned /\ p.state = "ACCEPTED" /\ clean_boundary /\ ~rp.active
  /\ IF stopping
     THEN /\ parent_fail([p EXCEPT !.cancelled = TRUE], NoWave, FALSE, FALSE)
          /\ UNCHANGED <<f, meta, wp, rp>>
     ELSE prepare_group(p) /\ UNCHANGED <<p, wr>>
  /\ UNCHANGED <<cells, known, spent>>

Cancel ==
  /\ p.owned /\ p.state = "ACCEPTED" /\ ~p.cancelled /\ set.cancels
  /\ p' = [p EXCEPT !.cancelled = TRUE]
  /\ UNCHANGED <<cells, f, meta, w, wp, rp, known, wr, spent>>

Close ==
  /\ set.closing /\ ~f.closed
  /\ f' = [f EXCEPT !.closed = TRUE]
  /\ p' = [p EXCEPT !.cancelled = @ \/ p.owned]
  /\ UNCHANGED <<cells, meta, w, wp, rp, known, wr, spent>>

\* block_retire_start and block_retire_query.
Retire ==
  /\ running /\ p.owned /\ p.state = "TERMINAL" /\ w.kind = "NONE" /\ ~meta_busy
  /\ p' = NoParent
  /\ UNCHANGED <<cells, f, meta, w, wp, rp, known, wr, spent>>

close_step ==
  /\ running /\ f.closed /\ ~f.quiet /\ w.kind = "NONE" /\ ~p.owned /\ ~meta_busy
  /\ f' = [f EXCEPT !.quiet = TRUE]
  /\ UNCHANGED <<cells, meta, w, wp, rp, p, known, wr, spent>>

-----------------------------------------------------------------------------
(* Power cut and recovery.                                                 *)

\* sf_seal_recovered_heads: a head is closed, a block without data reclaimed.
reclaimed(g) == {b \in Data : g.blk[b].role # "FREE" /\ live(g, b) = {}}
recovered(g) ==
  LET n == Cardinality(reclaimed(g))
      per == (JournalSlots - 1) \div 2          \* erases between two checkpoints
  IN [g EXCEPT
        !.blk = [b \in Data |->
                   IF b \in reclaimed(g) THEN FreeBlock(@[b].gen + 1)
                   ELSE IF @[b].role = "FREE" THEN @[b]
                   ELSE [@[b] EXCEPT !.end = PPB, !.reserved = 0,
                          !.role = IF @ = "RECLAIM_PENDING" THEN @ ELSE "CLOSED"]],
        !.slots = IF n = 0 THEN 1 ELSE 1 + 2 * (n - per * ((n - 1) \div per)),
        !.preferred = 0, !.quarantined = FALSE, !.closed = FALSE, !.quiet = FALSE]

\* Programs in flight may have happened, in part or in full; the transaction
\* in progress is found done or not done.
PowerCut ==
  LET flying == {i \in Runs : wp.active /\ wp.run[i].state = "WAIT"} IN
  /\ spent.restarts < set.restarts
  /\ \E out \in [flying -> {"OK", "NONE", "TORN"}] :
     \E done \in IF meta_busy /\ record_valid(f, meta) THEN BOOLEAN ELSE {FALSE} :
       LET g == recovered(IF done THEN apply(f, meta) ELSE f)
           cs == IF flying # {} THEN landed(Len(wp.run), out)
                 ELSE IF done THEN applied_cells(f, meta) ELSE cells
       IN /\ f' = g
          /\ cells' = [b \in Data |-> IF g.blk[b].role = "FREE" THEN <<>> ELSE cs[b]]
  /\ known' = View(cells', f') /\ wr' = C!NoWrite
  /\ meta' = Idle /\ w' = IdleWork /\ wp' = NoWave /\ rp' = NoReads /\ p' = NoParent
  /\ spent' = [spent EXCEPT !.restarts = @ + 1]

-----------------------------------------------------------------------------
Firmware ==
  \/ MetaDone \/ SpaceStep \/ RmwStart \/ RmwDone \/ DataStep \/ AbortStep
  \/ MapStart \/ MapDone \/ Finish \/ ReadStep \/ ParentStep \/ close_step

Next ==
  /\ UNCHANGED set
  /\ \/ Firmware \/ MetaFail \/ gc_start \/ Cancel \/ Close \/ Retire \/ PowerCut
     \/ \E rq \in set.requests : Submit(rq)

\* The owner keeps stepping the FTL, and a client takes every answer.
Spec ==
  /\ Init /\ [][Next]_vars
  /\ WF_vars(Firmware /\ UNCHANGED set) /\ WF_vars(Retire /\ UNCHANGED set)

-----------------------------------------------------------------------------
(* Properties.                                                             *)

\* The tables and pools hold what their types say.
TypeOK ==
  /\ \A l \in Lpns : f.map[l].b \in Data \cup {None} /\ f.map[l].mask \subseteq Offsets
  /\ \A b \in Data : f.blk[b].end \in 0 .. PPB /\ f.blk[b].end + f.blk[b].reserved <= PPB
                    /\ Len(cells[b]) <= PPB
  /\ \A d \in Domains : Cardinality(head(f, d)) <= 1
  /\ f.slots \in 1 .. JournalSlots /\ p.done <= p.count

\* Programs are accepted in plan order, so what a stopped wave has programmed
\* is a prefix of the Host's sectors ("collectors never bypass a BP UID"); a
\* Read run that the NFC holds back is newer than every accepted one.
AcceptedInOrder ==
  /\ wp.active => accepted_runs = 1 .. Cardinality(accepted_runs)
  /\ \A i \in InState(rp.run, {"WAIT"}), j \in InState(rp.run, {"SUBMIT"}) : rp.run[i].off < rp.run[j].off

\* A reservation belongs to a run of the active wave, and to its size; after
\* the wave none is left (sf_head_unreserve, the MAP record).
ReservedByRun ==
  \A b \in Data : f.blk[b].reserved > 0 =>
    wp.active /\ \E i \in Runs : wp.run[i].reserved /\ wp.run[i].b = b
                                 /\ Len(wp.run[i].deltas) = f.blk[b].reserved

\* The next page of a head is erased unless a run of the wave owns it: no Write
\* ever programs a page twice, whatever was abandoned before.
TailErased ==
  running => \A b \in Data :
    /\ f.blk[b].role = "FREE" => cells[b] = <<>>
    /\ b \in heads(f) /\ (wp.active => \A i \in Runs : wp.run[i].b # b \/ wp.run[i].state = "SKIPPED")
       => Len(cells[b]) = f.blk[b].end

\* The map snapshots of a wave and of a Read pool are still the map when they
\* are used: no maintenance comes between.
SnapshotsHold ==
  running =>
    /\ wp.active => \A i \in Runs : i > wp.map_cursor \/ (i = wp.map_cursor /\ wp.phase # "MAP_WAIT") =>
         \A k \in 1 .. Len(wp.run[i].deltas) : wp.run[i].deltas[k].before = f.map[wp.run[i].deltas[k].lpn]
    /\ \A i \in InState(rp.run, {"SUBMIT", "WAIT", "READY"}) : LET r == rp.run[i] IN
         \A k \in 1 .. Len(r.map) : r.map[k] = f.map[r.first + k - 1]

\* What a Read has delivered is, sector by sector, what the client wrote last,
\* in order and without holes, although the runs finish in any order.
ReadsExact ==
  p.op = "READ" => /\ Len(p.buf) = p.done
                   /\ \A i \in 1 .. p.done : p.buf[i] = known[p.lba + i - 1]

\* Every mapped sector can be read, and without a failing child the FTL never
\* quarantines itself: no record of a wave is refused, space never runs out.
NeverLost ==
  /\ \A x \in Lbas : known[x] # Lost
  /\ ~set.faults => ~f.quarantined

\* The tables, runs and reads of format 3 are sound (see each part).
PoolsSound ==
  TypeOK /\ AcceptedInOrder /\ ReservedByRun /\ TailErased /\ SnapshotsHold /\ ReadsExact /\ NeverLost

\* Waves or not, a Write changes the sectors in order and a power cut leaves
\* a prefix of it; an acknowledged Write stays (FtlContract).
Contract == C!Spec

\* A terminal report is true: FULL, EXACT_PREFIX and NONE say exactly how many
\* sectors are durable; an unknown prefix is reported with the FTL quarantined
\* and never claims more than is durable (sf_parent_fail, sf_write_known_prefix).
ReportsTruth ==
    (p.state = "ACCEPTED" /\ p'.state = "TERMINAL") =>
        IF p.op = "READ" THEN p'.done = Len(p'.buf) /\ (p'.effect = "FULL") = (p'.done = p.count)
        ELSE CASE p'.effect = "FULL" -> wr.done = wr.count
               [] p'.effect = "EXACT_PREFIX" -> wr.done = p'.done /\ p'.done > 0
               [] p'.effect = "NONE" -> wr.done = 0
               [] OTHER -> f'.quarantined /\ p'.done <= wr.done

\* An accepted request runs until it is terminal, a closed epoch until it is
\* quiescent or quarantined.
Requested == p.state = "ACCEPTED"
Closing == f.closed /\ ~f.quiet /\ ~f.quarantined

=============================================================================
