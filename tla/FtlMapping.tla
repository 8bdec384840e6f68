----------------------------- MODULE FtlMapping -----------------------------
(***************************************************************************)
(* core/ftl-scale, the data of the format-2 FTL: the NAND blocks it uses,  *)
(* the resident map and block table, and the one function that validates   *)
(* and applies a journal record (ftl_scale_mapping.c), which both normal   *)
(* operation and recovery call.                                            *)
(*                                                                         *)
(* An LPN is a 4-KiB logical page of Sectors sectors.  A physical page is  *)
(* a block and a page index; its DATA identity is block_uid * PPB + page.  *)
(* A digest or a CRC stands for the bytes it covers, so a root carries the *)
(* checkpoint image itself.  All blocks are GOOD.                          *)
(***************************************************************************)
EXTENDS Naturals, Sequences, FiniteSets

CONSTANTS
  LpnCount,        \* layout.lpn_count
  DataBlocks,      \* physical_blocks - data_first_block
  PPB,             \* geometry.pages_per_block
  Sectors,         \* SF_SECTORS_PER_PAGE
  MaxHostDeltas,   \* SF_MAX_HOST_DELTAS: the tail a victim must leave
  JournalSlots,    \* layout.journal_slots
  RecordLimit      \* config.record_sequence_limit

\* The quota of sf_layout_make; its journal holds at least the records of one
\* space transaction besides the header.
ASSUME LayoutLegal ==
  /\ {LpnCount, DataBlocks, PPB, Sectors, MaxHostDeltas, JournalSlots, RecordLimit} \subseteq Nat
  /\ LpnCount > 0 /\ Sectors > 0 /\ MaxHostDeltas \in 1 .. PPB - 1
  /\ DataBlocks > 2 /\ LpnCount <= (DataBlocks - 2) * (PPB - MaxHostDeltas)
  /\ JournalSlots > 6

Data == 0 .. DataBlocks - 1
None == DataBlocks               \* SF_NONE
Lpns == 0 .. LpnCount - 1
Pages == 0 .. PPB - 1
Offsets == 0 .. Sectors - 1

Least(S) == CHOOSE x \in S : \A y \in S : x <= y

-----------------------------------------------------------------------------
(* The NAND below the NFC.  A block accepts a program at its next page; an *)
(* aborted program leaves its pages unreadable, an aborted erase the whole *)
(* block unreadable and unprogrammable until it is erased again.           *)

RootAt(bank) == <<"root", bank>>
CpAt(bank) == <<"cp", bank>>
RailAt(bank, rail) == <<"rail", bank, rail>>
DataAt(b) == <<"data", b>>

Place == {RootAt(k) : k \in {0, 1}} \cup {CpAt(k) : k \in {0, 1}}
         \cup {RailAt(k, r) : k \in {0, 1}, r \in {0, 1}} \cup {DataAt(b) : b \in Data}

Blank(gen) == [gen |-> gen, torn |-> FALSE, cells |-> <<>>]
Cell(c) == [ok |-> TRUE, c |-> c]
TornCell == [ok |-> FALSE]

program(at, page, contents) == [kind |-> "PROGRAM", at |-> at, page |-> page, contents |-> contents]
erase(at) == [kind |-> "ERASE", at |-> at, page |-> 0, contents |-> <<>>]

\* The medium takes the mutation; otherwise it answers a failure.
Takes(md, o) ==
  o.kind = "ERASE" \/ (~md[o.at].torn /\ o.page = Len(md[o.at].cells))

Done(md, o) ==
  IF o.kind = "ERASE" THEN [md EXCEPT ![o.at] = Blank(@.gen + 1)]
  ELSE [md EXCEPT ![o.at].cells = @ \o [i \in 1 .. Len(o.contents) |-> Cell(o.contents[i])]]

Cut(md, o) ==
  IF o.kind = "ERASE" THEN [md EXCEPT ![o.at].torn = TRUE]
  ELSE [md EXCEPT ![o.at].cells = @ \o [i \in 1 .. Len(o.contents) |-> TornCell]]

read_class(md, at, page) ==
  IF md[at].torn THEN "ECC"
  ELSE IF page >= Len(md[at].cells) THEN "ERASED"
  ELSE IF md[at].cells[page + 1].ok THEN "VALID" ELSE "ECC"
Content(md, at, page) == md[at].cells[page + 1].c

-----------------------------------------------------------------------------
(* The resident state f: root, map, blocks, validity, host_head, counters. *)

Unmapped == [state |-> "UNMAPPED", b |-> None, p |-> 0, gen |-> 0, mask |-> {}, uid |-> 0]
ValueEntry(b, p, gen, mask, buid) ==
  [state |-> "VALUE", b |-> b, p |-> p, gen |-> gen, mask |-> mask, uid |-> buid * PPB + p]

FreeBlock(gen) == [role |-> "FREE", uid |-> 0, gen |-> gen, end |-> 0, live |-> 0, reserved |-> 0]

value_entry(f, e) ==
  /\ e.state = "VALUE" /\ e.mask # {} /\ e.b \in Data
  /\ f.blocks[e.b].role # "FREE" /\ f.blocks[e.b].uid # 0
  /\ e.gen = f.blocks[e.b].gen
  /\ e.uid = f.blocks[e.b].uid * PPB + e.p

head_tail(f) == IF f.host_head = None THEN 0 ELSE PPB - f.blocks[f.host_head].end

\* The tops of the free heap (wear, id) and of the victim heap (live, wear, id).
free_set(f) == {b \in Data : f.blocks[b].role = "FREE" /\ f.blocks[b].reserved = 0}
victim_set(f) == {b \in Data : /\ f.blocks[b].role = "CLOSED" /\ f.blocks[b].reserved = 0
                               /\ f.blocks[b].live < PPB}
sf_free_best(f) ==
  LET wear == Least({f.blocks[b].gen : b \in free_set(f)})
  IN Least({b \in free_set(f) : f.blocks[b].gen = wear})
victim_top(f) ==
  LET live == Least({f.blocks[b].live : b \in victim_set(f)})
      S == {b \in victim_set(f) : f.blocks[b].live = live}
      wear == Least({f.blocks[b].gen : b \in S})
  IN Least({b \in S : f.blocks[b].gen = wear})

reclaim_pending(f) == {b \in Data : f.blocks[b].role = "RECLAIM_PENDING" /\ f.blocks[b].live = 0}

\* Mutant: the slots already used are not counted.
sf_record_space_Unused(f, records) ==
  records <= JournalSlots /\ f.record_sequence + records <= RecordLimit
sf_record_space(f, records) ==
  /\ f.journal_next + records <= JournalSlots
  /\ f.record_sequence + records <= RecordLimit

-----------------------------------------------------------------------------
(* A journal record and its application.                                   *)

Mapping(kind) == kind \in {"MAP_WINDOW", "GC_COMMIT"}

record_block(f, kind, b) ==
  [kind |-> kind, block |-> b, uid |-> f.blocks[b].uid, gen |-> f.blocks[b].gen,
   other |-> None, other_uid |-> 0, deltas |-> <<>>, frontier |-> f.durable_frontier,
   intent |-> 0, final |-> 0]

\* begin_journal: the record as it is written.
stamped(f, r) ==
  LET seq == f.record_sequence + 1
      wrap == IF Mapping(r.kind) THEN 1 ELSE 0
  IN [kind |-> r.kind, block |-> r.block, uid |-> r.uid, gen |-> r.gen, other |-> r.other,
      other_uid |-> r.other_uid, deltas |-> r.deltas,
      frontier |-> IF Mapping(r.kind) THEN r.frontier ELSE f.durable_frontier,
      intent |-> IF r.kind = "ERASE_INTENT" THEN seq ELSE r.intent,
      final |-> r.final, epoch |-> f.root.generation, sequence |-> seq,
      before |-> f.map_sequence, after |-> f.map_sequence + wrap]

delta_ok(f, r, dest, start, i) ==
  LET d == r.deltas[i] IN
  /\ d.lpn \in Lpns /\ d.before = f.map[d.lpn]
  /\ value_entry(f, d.after)
  /\ d.after.b = dest /\ d.after.p = start + i - 1
  /\ <<d.after.b, d.after.p>> \notin f.validity
  /\ d.before.state = "VALUE" => value_entry(f, d.before) /\ <<d.before.b, d.before.p>> \in f.validity
  /\ r.kind = "GC_COMMIT" =>
       d.before.state = "VALUE" /\ d.before.b = r.block /\ d.after.mask = d.before.mask
  /\ IF r.kind = "MAP_WINDOW" THEN d.lpn = r.deltas[1].lpn + i - 1
     ELSE \A j \in 1 .. i - 1 : r.deltas[j].lpn # d.lpn

\* The first switch of sf_record_validate_apply.
record_valid(f, r) ==
  LET blk == f.blocks[r.block]
      dest == IF r.kind = "GC_COMMIT" THEN r.other ELSE r.block
  IN
  /\ r.epoch = f.root.generation /\ r.sequence = f.record_sequence + 1
  /\ r.before = f.map_sequence
  /\ r.after = f.map_sequence + (IF Mapping(r.kind) THEN 1 ELSE 0)
  /\ IF Mapping(r.kind) THEN r.frontier >= f.durable_frontier ELSE r.frontier = f.durable_frontier
  /\ CASE r.kind \in {"OPEN_HOST", "OPEN_GC_DEST"} ->
            /\ blk.role = "FREE" /\ blk.live = 0 /\ r.gen = blk.gen /\ r.uid = f.next_block_uid
            /\ r.kind = "OPEN_HOST" => f.host_head = None
       [] r.kind = "CLOSE" -> blk.role = "HOST_OPEN" /\ r.uid = blk.uid /\ blk.reserved = 0
       [] Mapping(r.kind) ->
            /\ Len(r.deltas) > 0 /\ dest \in Data
            /\ Len(r.deltas) <= PPB - f.blocks[dest].end
            /\ IF r.kind = "GC_COMMIT"
               THEN /\ dest # r.block /\ blk.role = "CLOSED" /\ r.uid = blk.uid
                    /\ blk.live = Len(r.deltas)
                    /\ f.blocks[dest].role = "GC_DEST" /\ r.other_uid = f.blocks[dest].uid
                    /\ f.blocks[dest].end = 0 /\ f.host_head = None
               ELSE blk.role = "HOST_OPEN" /\ r.uid = blk.uid /\ f.host_head = dest
            /\ \A i \in 1 .. Len(r.deltas) : delta_ok(f, r, dest, f.blocks[dest].end, i)
       [] r.kind = "ERASE_INTENT" ->
            /\ blk.live = 0 /\ blk.reserved = 0 /\ blk.role \in {"CLOSED", "RECLAIM_PENDING"}
            /\ r.uid = blk.uid /\ r.gen = blk.gen /\ r.intent = r.sequence
            /\ f.erase_intent_block \in {None, r.block}
       [] r.kind = "ERASE_DONE" ->
            /\ blk.live = 0 /\ blk.role = "RECLAIM_PENDING" /\ r.uid = blk.uid
            /\ f.erase_intent_block = r.block
            /\ r.intent # 0 /\ r.intent = f.erase_intent_sequence
            /\ r.gen = blk.gen /\ r.final > r.gen

\* Mutant: the old pages stay valid.
superseded_Kept(ds) == {}
\* The pages that the deltas stop mapping.
superseded(ds) ==
  {<<ds[i].before.b, ds[i].before.p>> : i \in {j \in 1 .. Len(ds) : ds[j].before.state = "VALUE"}}

\* The map, validity and live counts after the deltas of a mapping record.
remapped(f, ds) ==
  LET I == 1 .. Len(ds)
      old == superseded(ds)
      new == {<<ds[i].after.b, ds[i].after.p>> : i \in I}
      Of(b, S) == Cardinality({x \in S : x[1] = b})
  IN [f EXCEPT
        !.map = [l \in Lpns |-> IF \E i \in I : ds[i].lpn = l
                                THEN ds[CHOOSE i \in I : ds[i].lpn = l].after ELSE @[l]],
        !.validity = (@ \ old) \cup new,
        !.blocks = [b \in Data |->
           [@[b] EXCEPT !.live = @ + Of(b, new) - Of(b, old),
                        !.end = @ + Of(b, new)]]]

\* The second switch of sf_record_validate_apply.
record_apply(f, r) ==
  LET g == IF Mapping(r.kind) THEN remapped(f, r.deltas) ELSE f
      b == r.block
      h == CASE r.kind = "OPEN_HOST" ->
                  [g EXCEPT !.blocks[b].uid = r.uid, !.blocks[b].role = "HOST_OPEN",
                            !.blocks[b].end = 0, !.next_block_uid = @ + 1, !.host_head = b]
             [] r.kind = "OPEN_GC_DEST" ->
                  [g EXCEPT !.blocks[b].uid = r.uid, !.blocks[b].role = "GC_DEST",
                            !.blocks[b].end = 0, !.next_block_uid = @ + 1]
             [] r.kind = "CLOSE" ->
                  [g EXCEPT !.blocks[b].role = "CLOSED", !.blocks[b].end = PPB, !.host_head = None]
             [] r.kind = "GC_COMMIT" ->
                  [g EXCEPT !.blocks[b].role = "RECLAIM_PENDING",
                            !.blocks[r.other].role = "HOST_OPEN", !.host_head = r.other]
             [] r.kind = "MAP_WINDOW" ->
                  LET full == g.blocks[b].end = PPB
                  IN [g EXCEPT !.blocks[b].reserved = 0,
                               !.blocks[b].role = IF full THEN "CLOSED" ELSE @,
                               !.host_head = IF full THEN None ELSE @]
             [] r.kind = "ERASE_INTENT" ->
                  [g EXCEPT !.blocks[b].role = "RECLAIM_PENDING",
                            !.erase_intent_block = b, !.erase_intent_sequence = r.sequence]
             [] r.kind = "ERASE_DONE" ->
                  [g EXCEPT !.blocks[b] = FreeBlock(r.final),
                            !.erase_intent_block = None, !.erase_intent_sequence = 0]
  IN [h EXCEPT !.record_sequence = r.sequence, !.map_sequence = r.after,
               !.durable_frontier = r.frontier]

-----------------------------------------------------------------------------
(* Recovery's checks and normalisation of the resident state.              *)

Mapped(f, b) == {<<f.map[l].b, f.map[l].p>> : l \in {x \in Lpns : f.map[x].state = "VALUE" /\ f.map[x].b = b}}

rebuild_valid(f) ==
  /\ \A b \in Data :
       LET k == f.blocks[b] IN
       /\ k.end <= PPB
       /\ k.role = "FREE" => k.uid = 0 /\ k.end = 0
       /\ k.role # "FREE" => k.uid # 0 /\ k.uid < f.next_block_uid
       /\ k.role = "RECLAIM_PENDING" => Mapped(f, b) = {}
  /\ Cardinality({b \in Data : f.blocks[b].role = "HOST_OPEN"}) <= 1
  /\ \A l \in Lpns : f.map[l].state = "VALUE" =>
       /\ value_entry(f, f.map[l]) /\ f.map[l].p < f.blocks[f.map[l].b].end
       /\ \A k \in Lpns \ {l} : f.map[k].state = "VALUE" =>
            <<f.map[k].b, f.map[k].p>> # <<f.map[l].b, f.map[l].p>>

sf_rebuild_indexes(f) ==
  LET open == {b \in Data : f.blocks[b].role = "HOST_OPEN"}
  IN [f EXCEPT
        !.validity = UNION {Mapped(f, b) : b \in Data},
        !.host_head = IF open = {} THEN None ELSE Least(open),
        !.blocks = [b \in Data |-> [@[b] EXCEPT !.live = Cardinality(Mapped(f, b)), !.reserved = 0]]]

sf_seal_recovered_heads(f) ==
  [f EXCEPT
     !.host_head = None,
     !.blocks = [b \in Data |->
        LET open == @[b].role \in {"HOST_OPEN", "GC_DEST"}
            closed == open \/ @[b].role = "CLOSED"
        IN [@[b] EXCEPT !.end = IF open THEN PPB ELSE @,
                        !.role = IF ~closed THEN @
                                 ELSE IF f.blocks[b].live = 0 THEN "RECLAIM_PENDING"
                                 ELSE "CLOSED"]]]

\* What a checkpoint stores of f, and the resident state a checkpoint restores.
cp_encode(f) ==
  [map |-> f.map,
   blocks |-> [b \in Data |-> [f.blocks[b] EXCEPT !.live = 0, !.reserved = 0]]]
cp_decode(f, root, image) ==
  [f EXCEPT !.root = root, !.map = image.map, !.blocks = image.blocks,
            !.record_sequence = root.record, !.map_sequence = root.mapseq,
            !.durable_frontier = root.frontier, !.next_block_uid = root.next_uid,
            !.journal_next = 1, !.erase_intent_block = None, !.erase_intent_sequence = 0]

=============================================================================
