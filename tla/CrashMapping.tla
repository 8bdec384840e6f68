---------------------------- MODULE CrashMapping ----------------------------
(***************************************************************************)
(* The crash-consistent mapping layer C3.4 on top of the NFC model C3.3    *)
(* and the file-backed NAND media: two logical atoms kept on six blocks of *)
(* four pages.  A write programs a data page and then a MAP record in the  *)
(* journal block, a trim a TOMBSTONE; a checkpoint writes the whole map    *)
(* and its anchor to a block of its own and erases the journal; relocation *)
(* copies the only live page of a block, records the move and erases the   *)
(* block.  Every program and erase is one physical transaction.  Power may *)
(* fail between any two transitions of the NFC, and what is then found on  *)
(* the media is all that recovery has.                                     *)
(*                                                                         *)
(* "set" is the configuration of the run, "dev" the media, the NFC and the *)
(* mapping instance, "env" the host's budgets and what it was told.        *)
(***************************************************************************)
EXTENDS Integers, Sequences, FiniteSets, FiniteSetsExt, SequencesExt

CONSTANT Settings

VARIABLES set, dev, env
vars == <<set, dev, env>>

The(S) == CHOOSE x \in S : TRUE

Atoms == 0 .. 1
PerBlock == 4
Blocks == 0 .. 5
DataBlocks == 0 .. 2
Journal == 3
CheckpointBlock(slot) == 4 + slot
Pages == 0 .. 23
DataPages == 0 .. 11
PagesOf(b) == b * PerBlock .. b * PerBlock + PerBlock - 1
RECORD_LIMIT == 15
CHECKPOINT_LIMIT == 2
VersionLimit == 3
Slots == 2

(***************************************************************************)
(* Media.  A page is erased, torn or holds a record; payload and checksums *)
(* are the record itself.                                                  *)
(***************************************************************************)
Erased == [type |-> "erased"]
Torn == [type |-> "torn"]
FreshBlock == [good |-> TRUE, clean |-> TRUE, gen |-> 0, next |-> 0]
FreshMedia == [page |-> [p \in Pages |-> Erased], block |-> [b \in Blocks |-> FreshBlock]]

file_program(m, p, rec, whole) ==
  [page |-> [m.page EXCEPT ![p] = IF whole THEN rec ELSE Torn],
   block |-> [m.block EXCEPT ![p \div PerBlock].next = (p % PerBlock) + 1]]
file_erase(m, b, count, whole) ==
  [page |-> [p \in Pages |-> IF p \in PagesOf(b) /\ p % PerBlock < count THEN Erased ELSE m.page[p]],
   block |-> [m.block EXCEPT ![b] =
                IF whole THEN [@ EXCEPT !.clean = TRUE, !.gen = @ + 1, !.next = 0] ELSE [@ EXCEPT !.clean = FALSE]]]
file_mark_bad(m, b) == [m EXCEPT !.block[b].good = FALSE]

(***************************************************************************)
(* Records.  An entry is what the map knows of an atom.                    *)
(***************************************************************************)
NoEntry == [kind |-> "none", ver |-> 0, copy |-> 0, state |-> 0, auth |-> 0, data |-> 0, ppa |-> 0, gen |-> 0, val |-> 0]
Logical == {"map", "tomb", "reloc"}
\* what a MAP or RELOCATION record makes of its atom
Mapped(r) == [kind |-> "value", ver |-> r.ver, copy |-> r.copy, state |-> r.state, auth |-> r.id,
              data |-> r.tid, ppa |-> r.tppa, gen |-> r.tgen, val |-> r.val]
Buried(r) == [NoEntry EXCEPT !.kind = "tomb", !.ver = r.ver, !.state = r.state, !.auth = r.id]

checkpoint_entry_valid(e) ==
  /\ e.ver <= VersionLimit /\ e.copy <= 1
  /\ IF e.kind = "value" THEN e.ver # 0 /\ e.state # 0 /\ e.auth # 0 /\ e.data # 0 /\ e.ppa \in DataPages
     ELSE e.data = 0 /\ e.val = 0
common_record_valid(r) ==
  /\ r.id \in 1 .. RECORD_LIMIT /\ r.seq \in 1 .. RECORD_LIMIT
  /\ r.type \in {"data"} \cup Logical => r.ver \in 1 .. VersionLimit /\ r.copy <= 1 /\ r.state # 0
  /\ r.type = "map" => r.copy = 0 /\ r.tppa \in DataPages /\ r.tid \in 1 .. RECORD_LIMIT
  /\ r.type = "tomb" => r.copy = 0
  /\ r.type = "reloc" => r.copy = 1 /\ r.tppa \in DataPages /\ r.sppa \in DataPages /\ r.tid # 0 /\ r.auth # 0
  /\ r.type = "check" => /\ r.cp \in 1 .. CHECKPOINT_LIMIT /\ r.nextId # 0 /\ r.nextState # 0
                         /\ \A a \in Atoms : checkpoint_entry_valid(r.entry[a])
  /\ r.type = "anchor" => r.cp \in 1 .. CHECKPOINT_LIMIT /\ r.slot < 2 /\ r.cpId # 0

\* c34_record_decode: what a page is to the mapping
c34_record_decode(page, block) ==
  IF page = Erased THEN "erased"
  ELSE IF page = Torn \/ ~block.clean THEN "torn"
  ELSE IF block.good /\ page.gen = block.gen /\ common_record_valid(page) THEN "ok"
  ELSE "invalid"
decode_page(m, p) == c34_record_decode(m.page[p], m.block[p \div PerBlock])

(***************************************************************************)
(* Recovery from a raw image.                                              *)
(***************************************************************************)
\* the data page an entry points at is there and is the one meant
data_matches(m, ok, a, e, before) ==
  /\ e.ppa \in DataPages /\ e.ppa \in ok
  /\ LET r == m.page[e.ppa] IN
     /\ r.type = "data" /\ r.atom = a /\ r.ver = e.ver /\ r.copy = e.copy /\ r.state = e.state
     /\ r.id = e.data /\ r.val = e.val
     /\ m.block[e.ppa \div PerBlock].gen = e.gen
     /\ before = 0 \/ r.seq < before

checkpoint_pair(m, slot) ==
  LET b == CheckpointBlock(slot)
      image == m.page[b * PerBlock]
      anchor == m.page[b * PerBlock + 1]
      found == {decode_page(m, b * PerBlock), decode_page(m, b * PerBlock + 1)}
  IN IF "invalid" \in found THEN "corrupt"
     ELSE IF found # {"ok"} THEN "none"
     ELSE IF /\ image.type = "check" /\ anchor.type = "anchor" /\ image.cp = slot + 1
             /\ anchor.cp = image.cp /\ anchor.slot = slot /\ anchor.cpId = image.id
             /\ anchor.image = image /\ anchor.covered = image.covered THEN "valid"
     ELSE "corrupt"

record_identity_unique(m, ok) ==
  \A p, q \in ok : p < q => m.page[p].id # m.page[q].id /\ m.page[p].seq # m.page[q].seq

\* apply_mapping_record: one journal record on top of the map so far
applicable(m, ok, r, cur) ==
  /\ r.pred = cur.state
  /\ \/ /\ r.type = "map" /\ r.ver > cur.ver /\ r.copy = 0 /\ r.auth = cur.auth
        /\ data_matches(m, ok, r.atom, Mapped(r), r.seq)
     \/ r.type = "tomb" /\ r.ver > cur.ver /\ r.copy = 0
     \/ /\ r.type = "reloc" /\ cur.kind = "value" /\ r.state = cur.state /\ r.ver = cur.ver
        /\ r.copy = cur.copy + 1 /\ r.auth = cur.auth /\ r.sppa = cur.ppa /\ r.sgen = cur.gen
        /\ r.val = cur.val
        /\ data_matches(m, ok, r.atom, Mapped(r), r.seq)
apply_mapping_record(m, ok, acc, r) ==
  IF acc.ok /\ applicable(m, ok, r, acc.l2p[r.atom])
  THEN [acc EXCEPT !.l2p[r.atom] = IF r.type = "tomb" THEN Buried(r) ELSE Mapped(r)]
  ELSE [acc EXCEPT !.ok = FALSE]

\* classify_p2l: the highest block that is wholly free is kept in reserve
Reserve(m) == {b \in DataBlocks : /\ m.block[b].good /\ m.block[b].clean
                                  /\ \A p \in PagesOf(b) : m.page[p] = Erased}
classify_page(m, ok, l2p, reserve, p) ==
  LET r == m.page[p] IN
  IF r = Erased THEN IF p \div PerBlock = reserve THEN "reserved" ELSE "free"
  ELSE IF p \notin ok THEN "torn"
  ELSE IF l2p[r.atom].kind = "value" /\ l2p[r.atom].data = r.id /\ l2p[r.atom].ppa = p THEN "live"
  ELSE IF l2p[r.atom].kind # "none" /\ r.ver <= l2p[r.atom].ver THEN "stale"
  ELSE "orphan"
classify_p2l(m, ok, l2p) ==
  The({[p \in DataPages |-> classify_page(m, ok, l2p, reserve, p)] : reserve \in {Max(Reserve(m) \cup {-1})}})

\* the image holds only records where they belong
well_placed(m, ok) ==
  /\ \A p \in ok \cap DataPages : m.page[p].type = "data"
  /\ \A p \in PagesOf(Journal) : /\ decode_page(m, p) # "invalid"
                                 /\ p \in ok => m.page[p].type \in Logical
  /\ \A s \in 0 .. 1, i \in 2 .. 3 : CheckpointBlock(s) * PerBlock + i \notin ok
  /\ record_identity_unique(m, ok)
  /\ \A s \in 0 .. 1 : checkpoint_pair(m, s) # "corrupt"

NoCheckpoint == [cp |-> 0, covered |-> 0, nextId |-> 1, nextState |-> 1, entry |-> [a \in Atoms |-> NoEntry]]
selected(m) ==
  LET S == {s \in 0 .. 1 : checkpoint_pair(m, s) = "valid"}
  IN IF S = {} THEN NoCheckpoint ELSE m.page[CheckpointBlock(Max(S)) * PerBlock]
\* the journal records a recovery applies, in commit order
replayed(m, ok, mark) ==
  SetToSortSeq({m.page[p] : p \in {q \in PagesOf(Journal) \cap ok : m.page[q].seq > mark}},
               LAMBDA x, y : x.seq < y.seq)
\* the largest of a field over the readable records
Largest(S) == Max(S \cup {0})

Recovered(m, ok, c, run) ==
  LET good == /\ run.ok
              /\ \A a \in Atoms : run.l2p[a].kind = "value" => data_matches(m, ok, a, run.l2p[a], 0)
  IN [ok |-> good, map |-> TRUE, l2p |-> run.l2p,
      p2l |-> IF good THEN classify_p2l(m, ok, run.l2p) ELSE <<>>,
      cp |-> c.cp, mark |-> c.covered,
      rec |-> Max({Largest({m.page[p].id : p \in ok}) + 1, c.nextId}),
      state |-> Max({Largest({m.page[p].state : p \in {q \in ok : m.page[q].type \in {"data"} \cup Logical}}) + 1,
                     c.nextState}),
      seq |-> Largest({m.page[p].seq : p \in ok}) + 1]
checkpoint_to_l2p(c) ==
  /\ \A a \in Atoms : LET e == c.entry[a] IN
       /\ e.kind = "tomb" => e.ver # 0 /\ e.state # 0 /\ e.auth # 0
       /\ e.kind = "none" => e.ver = 0 /\ e.state = 0 /\ e.auth = 0
replay_from(m, ok, start, recs) ==
  LET run[i \in 0 .. Len(recs)] ==
        IF i = 0 THEN start ELSE The({apply_mapping_record(m, ok, acc, recs[i]) : acc \in {run[i - 1]}})
  IN run[Len(recs)]
Replay(m, ok, c) ==
  The({replay_from(m, ok, [ok |-> checkpoint_to_l2p(c), l2p |-> c.entry], recs) : recs \in {replayed(m, ok, c.covered)}})
\* c34_recover_image; map tells whether the tables were touched at all
recover_with(m, ok) ==
  IF well_placed(m, ok)
  THEN The({The({Recovered(m, ok, c, run) : run \in {Replay(m, ok, c)}}) : c \in {selected(m)}})
  ELSE [ok |-> FALSE, map |-> FALSE]
c34_recover_image(m) == The({recover_with(m, ok) : ok \in {{p \in Pages : decode_page(m, p) = "ok"}}})

\* a step answers with a result and the device it leaves
Ok(d) == [r |-> "ok", d |-> d]
Fails(r, d) == [r |-> r, d |-> d]

(***************************************************************************)
(* The NFC model: one operation at a time is all C3.4 asks of it.  Queued  *)
(* and scheduled are one state, and a transfer is one unit: neither a cut  *)
(* nor a cancel tells them apart.                                          *)
(***************************************************************************)
NoOp == [kind |-> "none"]
NoCache == [kind |-> "none"]
Operation(kind, p, rec) ==
  [kind |-> kind, ppa |-> p, rec |-> rec, run |-> FALSE, unit |-> 0, units |-> 0, why |-> "", fault |-> "clean",
   cancel |-> FALSE, owned |-> FALSE]
Mutating == {"execute", "erase"}

cache_token_valid(d, kind) == d.cache.kind = kind /\ d.cache.ppa = d.op.ppa
begin_program_execute(d) ==
  LET b == d.m.block[d.op.ppa \div PerBlock] IN
  IF ~cache_token_valid(d, "program") THEN "stale"
  ELSE IF ~b.good THEN "bad"
  ELSE IF ~b.clean \/ d.m.page[d.op.ppa] # Erased THEN "not erased"
  ELSE IF d.op.ppa % PerBlock # b.next THEN "order"
  ELSE ""
begin_erase(d) == IF d.m.block[d.op.ppa \div PerBlock].good THEN "" ELSE "bad"
begin_read_trigger(d) == IF d.m.block[d.op.ppa \div PerBlock].good THEN "" ELSE "bad"
legality(d) ==
  IF d.op.cancel THEN "cancelled"
  ELSE CASE d.op.kind = "execute" -> begin_program_execute(d)
         [] d.op.kind = "erase" -> begin_erase(d)
         [] d.op.kind = "trigger" -> begin_read_trigger(d)
         [] d.op.kind = "fetch" -> IF cache_token_valid(d, "read") THEN "" ELSE "stale"
         [] OTHER -> ""
\* the fault a profile may strike the operation with
fault_classes(d) ==
  {"clean"} \cup
  IF d.op = NoOp \/ d.op.run \/ legality(d) # "" THEN {}
  ELSE CASE d.op.kind \in Mutating -> set.faults \cap {"grown bad", "no effect", "torn"}
         [] d.op.kind = "trigger" -> set.faults \cap {"ecc"}
         [] OTHER -> {}
c33_begin_operation(d, fault) ==
  LET why == legality(d) IN
  [d EXCEPT !.op.run = TRUE, !.op.why = why, !.op.fault = fault,
            !.op.rec = IF d.op.kind = "execute" /\ why = "" THEN d.cache.rec ELSE @,
            !.op.units = IF why # "" THEN 1
                         ELSE CASE d.op.kind = "erase" -> PerBlock [] d.op.kind = "execute" -> 2 [] OTHER -> 1]

Completion(terminal, effect, whole, bad) ==
  [terminal |-> terminal, effect |-> effect, whole |-> whole, bad |-> bad, ecc |-> FALSE]
NoCompletion == Completion("none", FALSE, FALSE, FALSE)
completion_failure == Completion("failed", FALSE, FALSE, FALSE)
completion_success == Completion("success", FALSE, FALSE, FALSE)
\* the operation leaves its completion in the graph that polls for it
Complete(d, c) == [d EXCEPT !.g.comp = c, !.op = NoOp]
\* the media commits the transaction: the binding becomes a receipt
make_receipt(d) == [d EXCEPT !.held = FALSE, !.receipt = TRUE]
\* the media's transactions: one binding or one receipt at a time
txn_bind(d) == IF d.held \/ d.receipt THEN Fails("no capacity", d) ELSE Ok([d EXCEPT !.held = TRUE])
txn_abandon(d) == [d EXCEPT !.held = FALSE]
txn_receipt(d) == [d EXCEPT !.receipt = FALSE]
txn_quiescent(d) == ~d.held /\ ~d.receipt
GrowBad(d) ==
  make_receipt([Complete(d, [completion_failure EXCEPT !.bad = TRUE])
                  EXCEPT !.m = file_mark_bad(d.m, d.op.ppa \div PerBlock)])
Committed(d, m, whole) ==
  make_receipt([Complete(d, Completion(IF whole THEN "success" ELSE "failed", TRUE, whole, FALSE)) EXCEPT !.m = m])
finish_program_execute(d) ==
  LET e == CASE d.op.fault = "grown bad" -> GrowBad(d)
             [] d.op.fault = "no effect" -> Complete(d, completion_failure)
             [] OTHER -> LET whole == d.op.fault = "clean"
                         IN Committed(d, file_program(d.m, d.op.ppa, d.op.rec, whole), whole)
  IN [e EXCEPT !.cache = NoCache]
finish_erase(d) ==
  LET b == d.op.ppa \div PerBlock IN
  CASE d.op.fault = "grown bad" -> GrowBad(d)
    [] d.op.fault = "no effect" -> Complete(d, completion_failure)
    [] d.op.fault = "torn" -> Committed(d, file_erase(d.m, b, PerBlock \div 2, FALSE), FALSE)
    [] OTHER -> Committed(d, file_erase(d.m, b, PerBlock, TRUE), TRUE)
finish_program_transfer(d) ==
  [Complete(d, completion_success) EXCEPT !.cache = [kind |-> "program", ppa |-> d.op.ppa, rec |-> d.op.rec]]
finish_read_trigger(d) ==
  LET page == d.m.page[d.op.ppa] IN
  [Complete(d, completion_success) EXCEPT !.cache =
     [kind |-> "read", ppa |-> d.op.ppa, rec |-> page,
      ecc |-> d.op.fault = "ecc" \/ page = Torn \/ ~d.m.block[d.op.ppa \div PerBlock].clean]]
finish_read_transfer(d) ==
  IF ~cache_token_valid(d, "read") THEN Complete(d, completion_failure)
  ELSE IF d.cache.ecc THEN Complete(d, [completion_failure EXCEPT !.ecc = TRUE])
  ELSE [Complete(d, completion_success) EXCEPT !.cache = NoCache, !.g.main = d.cache.rec]
c33_finish_operation(d) ==
  IF d.op.owned /\ d.op.kind \notin Mutating THEN Complete(d, completion_failure)
  ELSE IF d.op.why = "cancelled" THEN Complete(d, Completion("cancelled", FALSE, FALSE, FALSE))
  ELSE IF d.op.why # "" THEN Complete(d, [completion_failure EXCEPT !.bad = d.op.why = "bad"])
  ELSE CASE d.op.kind = "transfer" -> finish_program_transfer(d)
         [] d.op.kind = "execute" -> finish_program_execute(d)
         [] d.op.kind = "trigger" -> finish_read_trigger(d)
         [] d.op.kind = "fetch" -> finish_read_transfer(d)
         [] d.op.kind = "erase" -> finish_erase(d)
\* model_step with one transition, then model_poll
model_step(d, fault) ==
  IF ~d.op.run THEN c33_begin_operation(d, fault)
  ELSE IF d.op.unit + 1 < d.op.units THEN [d EXCEPT !.op.unit = @ + 1]
  ELSE c33_finish_operation(d)

model_cancel(d) == [d EXCEPT !.op.cancel = TRUE]
\* the NFC forgets the drain once it has answered that it is quiescent
model_quiescent(d) == IF ~d.drain THEN Fails("invalid", d) ELSE Ok([d EXCEPT !.drain = d.op # NoOp])
\* reset: what has not begun is cancelled, what runs is owned by the reset
model_reset_begin(d) ==
  [d EXCEPT !.drain = TRUE, !.cache = NoCache,
            !.op = IF @ = NoOp THEN NoOp ELSE [@ EXCEPT !.owned = TRUE, !.cancel = @ \/ ~d.op.run]]

\* power: a program or erase that runs leaves what its units so far did
c33_commit_power_prefix(d) ==
  IF d.op.kind \notin Mutating \/ ~d.op.run \/ d.op.unit = 0 \/ d.op.why # "" THEN d.m
  ELSE IF d.op.kind = "execute" THEN file_program(d.m, d.op.ppa, d.op.rec, FALSE)
  ELSE file_erase(d.m, d.op.ppa \div PerBlock, d.op.unit, FALSE)

(***************************************************************************)
(* The mapping instance.                                                   *)
(***************************************************************************)
NoMutation == [ver |-> 0, state |-> 0, pred |-> 0, val |-> 0, data |-> 0, ppa |-> 0, gen |-> 0, copy |-> 0,
               mapped |-> FALSE]
NoRequest == [kind |-> "none", mask |-> {}, durable |-> FALSE]
NoRecord == [type |-> "none"]
NoGraph == [kind |-> "none", st |-> "idle", uid |-> 0, req |-> NoRequest, atom |-> 0, mut |-> <<>>,
            ready |-> FALSE, sent |-> FALSE, terminal |-> "none", effect |-> "none", status |-> "success",
            bound |-> FALSE, rec |-> NoRecord, check |-> NoRecord, ppa |-> 0, victim |-> 0, dest |-> 0,
            comp |-> NoCompletion, main |-> NoRecord, got |-> 0]
NoOverlay == -1
Bare == [a \in Atoms |-> NoOverlay]
Instance(m) ==
  [m |-> m, op |-> NoOp, cache |-> NoCache, drain |-> FALSE, held |-> FALSE, receipt |-> FALSE,
   up |-> TRUE, phase |-> 0, inner |-> 1, rec |-> 1, state |-> 1, seq |-> 1, cp |-> 0, mark |-> 0, last |-> 0,
   l2p |-> [a \in Atoms |-> NoEntry], p2l |-> [p \in DataPages |-> "free"], blk |-> m.block,
   over |-> Bare, reg |-> <<>>, side |-> <<>>, obl |-> <<>>, g |-> NoGraph]

\* c34_refresh: the tables from the media; the counters never go back
c34_refresh(d) ==
  The({IF r.ok
       THEN Ok([d EXCEPT !.l2p = r.l2p, !.p2l = r.p2l, !.cp = r.cp, !.mark = r.mark, !.blk = d.m.block,
                         !.rec = Max({@, r.rec}), !.state = Max({@, r.state}), !.seq = Max({@, r.seq})])
       ELSE Fails("corrupt", IF r.map THEN [d EXCEPT !.l2p = r.l2p] ELSE d)
       : r \in {c34_recover_image(d.m)}})
c34_init(m) == LET i == c34_refresh(Instance(m)) IN IF i.r = "ok" THEN i.d ELSE [i.d EXCEPT !.up = FALSE]

overlay_present(d) == d.over # Bare
take_record_identity(d) ==
  IF d.rec > RECORD_LIMIT \/ d.seq > RECORD_LIMIT THEN Fails("exhausted", d)
  ELSE Ok([d EXCEPT !.rec = @ + 1, !.seq = @ + 1])
c34_allocate_journal(d) ==
  LET b == d.blk[Journal] IN b.good /\ b.clean /\ b.next < PerBlock
JournalPage(d) == Journal * PerBlock + d.blk[Journal].next

\* the record and its place are ready in the graph
Prepared(d, rec, p) == [d EXCEPT !.g.rec = rec, !.g.ppa = p]
DataRecord(d, x, p, copy) ==
  [type |-> "data", atom |-> d.g.atom, ver |-> x.ver, copy |-> copy, id |-> d.rec, seq |-> d.seq,
   state |-> x.state, pred |-> x.pred, gen |-> d.blk[p \div PerBlock].gen, val |-> x.val]
\* c34_build_data_record for the active atom
c34_build_data_record(d, p, copy) ==
  LET x == d.g.mut[d.g.atom]
      t == take_record_identity(d)
  IN IF ~d.blk[p \div PerBlock].good THEN Fails("invalid", d)
     ELSE IF t.r # "ok" THEN t
     ELSE Ok(Prepared([t.d EXCEPT !.g.mut[d.g.atom] =
                         [x EXCEPT !.data = d.rec, !.ppa = p, !.gen = d.blk[p \div PerBlock].gen, !.copy = copy]],
                      DataRecord(d, x, p, copy), p))
LogicalRecord(d, type, x, copy) ==
  [type |-> type, atom |-> d.g.atom, ver |-> x.ver, copy |-> copy, id |-> d.rec, seq |-> d.seq,
   state |-> x.state, pred |-> d.l2p[d.g.atom].state, gen |-> d.blk[Journal].gen]
Pointer(r, x, val, auth) == r @@ [val |-> val, tppa |-> x.ppa, tgen |-> x.gen, tid |-> x.data, auth |-> auth]
\* c34_build_mapping_record, c34_build_tombstone_record, c34_build_relocation_record
c34_build_mapping_record(d) ==
  LET x == d.g.mut[d.g.atom] IN Pointer(LogicalRecord(d, "map", x, 0), x, x.val, d.l2p[d.g.atom].auth)
c34_build_tombstone_record(d) == LogicalRecord(d, "tomb", d.g.mut[d.g.atom], 0)
c34_build_relocation_record(d) ==
  LET x == d.g.mut[d.g.atom]
      e == d.l2p[d.g.atom]
  IN Pointer(LogicalRecord(d, "reloc", [x EXCEPT !.state = e.state], 1), x, e.val, e.auth)
       @@ [sppa |-> e.ppa, sgen |-> e.gen]
\* the journal record of the active atom, in the journal's next page
prepare_meta(d) ==
  LET t == take_record_identity(d)
      rec == CASE d.g.kind = "relocation" -> c34_build_relocation_record(d)
               [] d.g.req.kind = "write" -> c34_build_mapping_record(d)
               [] OTHER -> c34_build_tombstone_record(d)
  IN IF ~c34_allocate_journal(d) \/ (d.g.kind = "relocation" /\ d.l2p[d.g.atom].kind # "value")
     THEN Fails("invalid", d)
     ELSE IF t.r # "ok" THEN t ELSE Ok(Prepared(t.d, rec, JournalPage(d)))
FreePages(d) == {p \in DataPages : d.p2l[p] = "free"}
c34_allocate_data(d) == [d EXCEPT !.p2l[Min(FreePages(d))] = "reserved"]
prepare_outer_data(d) ==
  IF FreePages(d) = {} THEN Fails("no capacity", d)
  ELSE c34_build_data_record(c34_allocate_data(d), Min(FreePages(d)), 0)

(***************************************************************************)
(* Driving the NFC.                                                        *)
(***************************************************************************)
next_inner(d) ==
  IF set.inner = 0 THEN Ok(d)
  ELSE IF d.inner > set.inner THEN Fails("exhausted", d) ELSE Ok([d EXCEPT !.inner = @ + 1])
submit_request(d, kind, p, next) == Ok([d EXCEPT !.op = Operation(kind, p, d.g.rec), !.g.ppa = p, !.g.st = next])
nfc_request(d, kind, p, next) ==
  LET i == next_inner(d) IN IF i.r # "ok" THEN i ELSE submit_request(i.d, kind, p, next)
\* bind_physical: one transaction at a time
nfc_bound(d, kind, p, next) ==
  LET i == next_inner(d) IN
  IF d.g.bound THEN Fails("invalid", d)
  ELSE IF i.r # "ok" THEN i
  ELSE LET t == txn_bind(i.d) IN
       IF t.r # "ok" THEN t ELSE submit_request([t.d EXCEPT !.g.bound = TRUE], kind, p, next)
c34_nfc_program_transfer(d, next) == nfc_request(d, "transfer", d.g.ppa, next)
c34_nfc_program_execute(d, next) == nfc_bound(d, "execute", d.g.ppa, next)
c34_nfc_read_trigger(d) == nfc_request(d, "trigger", d.g.victim, "wait read trigger")
c34_nfc_read_transfer(d) == nfc_request(d, "fetch", d.g.ppa, "wait read transfer")
c34_nfc_erase(d) == nfc_bound(d, "erase", (d.g.ppa \div PerBlock) * PerBlock, "wait erase")
c34_nfc_finish_physical(d) ==
  IF ~d.g.bound THEN Fails("invalid", d)
  ELSE IF d.receipt THEN Ok([txn_receipt(d) EXCEPT !.g.bound = FALSE])
  ELSE IF ~d.g.comp.effect /\ ~d.g.comp.bad /\ d.held THEN Ok([txn_abandon(d) EXCEPT !.g.bound = FALSE])
  ELSE Fails("invariant", d)
program_complete(c) == c.terminal = "success" /\ c.effect /\ c.whole
failure_effect(c) == IF ~c.effect THEN "none" ELSE IF c.whole THEN "full" ELSE "unknown"

\* c34_graph_fail
c34_graph_fail(d, status, effect) ==
  LET partial == \E a \in DOMAIN d.g.mut : d.g.mut[a].mapped
      g == [d.g EXCEPT !.status = status, !.effect = effect, !.st = "failed"]
  IN IF d.g.kind # "outer" THEN [d EXCEPT !.g = g]
     ELSE [d EXCEPT
             !.g = IF d.g.sent THEN g
                   ELSE [g EXCEPT !.ready = TRUE, !.terminal = IF status = "cancelled" THEN "cancelled" ELSE "failed"],
             !.obl = IF d.g.uid \in DOMAIN @
                     THEN [@ EXCEPT ![d.g.uid] = IF d.g.sent \/ partial THEN "indeterminate" ELSE "no commit"]
                     ELSE @]
Without(f, x) == [k \in DOMAIN f \ {x} |-> f[k]]

Transferred(t, next) == IF t.r # "ok" THEN t ELSE c34_nfc_program_transfer(t.d, next)
start_data_transfer(d) ==
  The({Transferred(t, "wait data transfer") :
         t \in {IF d.g.rec # NoRecord THEN Ok(d)
                ELSE IF d.g.kind = "outer" THEN prepare_outer_data(d) ELSE Fails("invariant", d)}})
start_meta_transfer(d) ==
  The({Transferred(t, "wait meta transfer") :
         t \in {IF d.g.rec # NoRecord THEN Ok(d)
                ELSE IF d.g.kind \in {"outer", "relocation"} THEN prepare_meta(d) ELSE Fails("invariant", d)}})
drive_ready_state(d) ==
  CASE d.g.st = "data transfer" -> start_data_transfer(d)
    [] d.g.st = "data execute" -> c34_nfc_program_execute(d, "wait data execute")
    [] d.g.st = "meta transfer" -> start_meta_transfer(d)
    [] d.g.st = "meta execute" -> c34_nfc_program_execute(d, "wait meta execute")
    [] d.g.st = "read trigger" -> c34_nfc_read_trigger(d)
    [] d.g.st = "read transfer" -> c34_nfc_read_transfer(d)
    [] d.g.st = "erase" -> c34_nfc_erase(d)
    [] OTHER -> Fails("invariant", d)

finish_outer_mutations(d) ==
  LET e == [d EXCEPT !.over = [a \in Atoms |-> IF a \in DOMAIN d.g.mut THEN NoOverlay ELSE @[a]],
                     !.g.status = "success", !.g.terminal = "success", !.g.ready = @ \/ ~d.g.sent, !.g.st = "done"]
  IN [e EXCEPT !.obl = IF d.g.uid \in DOMAIN d.side THEN [@ EXCEPT ![d.g.uid] = "mapped"] ELSE Without(@, d.g.uid)]
\* the transaction is closed, then the tables follow the media
Closed(d) == {[f |-> f, r |-> c34_refresh(f.d)] : f \in {c34_nfc_finish_physical(d)}}
\* mutant: the tables are not read again after a failed program
program_failed_stale(d, r) ==
  Ok(c34_graph_fail([d EXCEPT !.receipt = FALSE, !.held = FALSE, !.g.bound = FALSE], "media", failure_effect(d.g.comp)))
program_failed(d, r) == Ok(c34_graph_fail(r.d, "media", failure_effect(d.g.comp)))
anchor_record(d, c) ==
  [type |-> "anchor", id |-> d.rec, seq |-> d.seq, gen |-> d.blk[CheckpointBlock(c.cp - 1)].gen,
   cp |-> c.cp, slot |-> c.cp - 1, cpId |-> c.id, image |-> c, covered |-> c.covered]
\* the atoms the mutation has yet to map
select_next_atom(d) == {a \in DOMAIN d.g.mut : a > d.g.atom}
\* C_MAP: the journal record is on the media, the next atom or the end
mapped_atom(d) ==
  LET e == [d EXCEPT !.g.mut[d.g.atom].mapped = TRUE, !.over[d.g.atom] = NoOverlay, !.g.rec = NoRecord]
      next == select_next_atom(d)
  IN IF next = {} THEN finish_outer_mutations(e)
     ELSE [e EXCEPT !.g.atom = Min(next), !.g.st = IF d.g.req.kind = "write" THEN "data transfer" ELSE "meta transfer"]
\* mutant: a write is finished once its data is programmed
data_programmed_early(d) ==
  IF d.g.kind = "outer" THEN Ok(mapped_atom(d)) ELSE Ok([d EXCEPT !.g.rec = NoRecord, !.g.st = "meta transfer"])
data_programmed(d) ==
  LET c == d.g.check
      t == take_record_identity(d)
  IN IF d.g.kind # "checkpoint" THEN Ok([d EXCEPT !.g.rec = NoRecord, !.g.st = "meta transfer"])
     ELSE IF t.r # "ok" THEN t
     ELSE Ok([Prepared(t.d, anchor_record(d, c), CheckpointBlock(c.cp - 1) * PerBlock + 1) EXCEPT !.g.st = "meta transfer"])
after_data_execute(d) ==
  The({IF x.f.r # "ok" THEN x.f
       ELSE IF ~program_complete(d.g.comp) THEN program_failed(d, x.r)
       ELSE IF x.r.r # "ok" THEN x.r ELSE data_programmed(x.r.d) : x \in Closed(d)})
meta_programmed(d) ==
  LET e == d.l2p[d.g.atom] IN
  CASE d.g.kind = "outer" -> Ok(mapped_atom(d))
    [] d.g.kind = "relocation" ->
         IF e.kind = "value" /\ e.copy = 1 /\ e.ppa = d.g.dest
         THEN Ok([d EXCEPT !.g.ppa = d.g.victim, !.g.st = "erase"]) ELSE Fails("invariant", d)
    [] OTHER -> IF d.cp = d.g.check.cp THEN Ok([d EXCEPT !.g.ppa = Journal * PerBlock, !.g.st = "erase"])
                ELSE Fails("invariant", d)
after_meta_execute(d) ==
  The({IF x.f.r # "ok" THEN x.f
       ELSE IF ~program_complete(d.g.comp) THEN program_failed(d, x.r)
       ELSE IF x.r.r # "ok" THEN x.r ELSE meta_programmed(x.r.d) : x \in Closed(d)})

\* validate_read_payload: the page holds what the map says of the atom
validate_read_payload(d) ==
  LET r == d.g.main
      e == d.l2p[d.g.atom]
  IN /\ c34_record_decode(r, d.blk[e.ppa \div PerBlock]) = "ok"
     /\ r.type = "data" /\ r.atom = d.g.atom /\ r.ver = e.ver /\ r.copy = e.copy /\ r.state = e.state
     /\ r.id = e.data /\ r.val = e.val
after_read_transfer(d) ==
  IF d.g.comp.terminal # "success" \/ d.g.comp.ecc \/ ~validate_read_payload(d)
  THEN Ok(c34_graph_fail(d, "media", "none"))
  ELSE IF d.g.kind = "outer"
  THEN Ok([d EXCEPT !.g.got = d.g.main.val, !.g.status = "success", !.g.terminal = "success", !.g.ready = TRUE,
                    !.g.st = "done"])
  ELSE The({IF t.r # "ok" THEN t ELSE Ok([t.d EXCEPT !.g.st = "data transfer"]) :
              t \in {c34_build_data_record([d EXCEPT !.g.mut[d.g.atom].val = d.g.main.val], d.g.dest, 1)}})
after_erase(d) ==
  The({IF x.f.r # "ok" THEN x.f ELSE IF x.r.r # "ok" THEN x.r
       ELSE Ok([x.r.d EXCEPT !.g.status = IF program_complete(d.g.comp) THEN "success" ELSE "media", !.g.st = "done"])
       : x \in Closed(d)})
\* a transfer into the page register
after_transfer(d, next) ==
  Ok(IF d.g.comp.terminal = "success" THEN [d EXCEPT !.g.st = next] ELSE c34_graph_fail(d, "media", "none"))

handle_completed_inner(d) ==
  IF d.phase = 1
  THEN The({IF d.g.bound /\ x.f.r # "ok" THEN Fails("invariant", d)
            ELSE Ok(c34_graph_fail(x.r.d, "cancelled", failure_effect(d.g.comp))) : x \in Closed(d)})
  ELSE IF d.g.comp.terminal = "cancelled" THEN Ok(c34_graph_fail(d, "cancelled", failure_effect(d.g.comp)))
  ELSE CASE d.g.st = "wait data transfer" -> after_transfer(d, "data execute")
         [] d.g.st = "wait data execute" -> after_data_execute(d)
         [] d.g.st = "wait meta transfer" -> after_transfer(d, "meta execute")
         [] d.g.st = "wait meta execute" -> after_meta_execute(d)
         [] d.g.st = "wait read trigger" -> after_transfer(d, "read transfer")
         [] d.g.st = "wait read transfer" -> after_read_transfer(d)
         [] d.g.st = "wait erase" -> after_erase(d)
Ended(d) == d.g.st \in {"done", "failed"}
\* mutant: a command that ends after its event is never cleared
cleanup_completed_graph_kept(d) == IF ~Ended(d) \/ d.g.kind = "outer" THEN d ELSE [d EXCEPT !.g = NoGraph]
cleanup_completed_graph(d) ==
  IF ~Ended(d) \/ (d.g.kind = "outer" /\ d.g.ready /\ ~d.g.sent) THEN d ELSE [d EXCEPT !.g = NoGraph]
\* the part of c34_drive_one that has no operation under way; a bound media is only waited for
drive_idle(d) ==
  IF d.phase = 1
  THEN Ok(cleanup_completed_graph(c34_graph_fail([d EXCEPT !.over = Bare], "cancelled", "none")))
  ELSE IF Ended(d) THEN Ok(cleanup_completed_graph(d))
  ELSE The({IF t.r \in {"ok", "no capacity"} THEN Ok(t.d)
            ELSE Fails(t.r, c34_graph_fail(IF t.r = "exhausted" THEN [t.d EXCEPT !.phase = 2] ELSE t.d, "media", "none"))
            : t \in {drive_ready_state(d)}})
drive_completed(d) ==
  The({IF h.r = "ok" THEN Ok(cleanup_completed_graph(h.d)) ELSE Fails(h.r, [h.d EXCEPT !.phase = 2])
       : h \in {handle_completed_inner(d)}})
c34_drive_one(d, fault) ==
  IF d.g.kind = "none" THEN Ok(d)
  ELSE IF d.op = NoOp THEN drive_idle(d)
  ELSE The({IF e.op # NoOp THEN Ok(e) ELSE drive_completed(e) : e \in {model_step(d, fault)}})

(***************************************************************************)
(* Accepting a command.                                                    *)
(***************************************************************************)
accept_read(d) ==
  LET a == d.g.atom
      done == [d EXCEPT !.g.terminal = "success", !.g.ready = TRUE, !.g.st = "done"]
  IN IF d.over[a] # NoOverlay THEN [done EXCEPT !.g.got = d.over[a]]
     ELSE IF d.l2p[a].kind # "value" THEN done
     ELSE [d EXCEPT !.g.victim = d.l2p[a].ppa, !.g.st = "read trigger"]
\* fwlab_persist_fence_witness over the obligations up to the frontier
accept_fence(d) ==
  LET held == \A u \in DOMAIN d.obl : u < d.g.uid => d.obl[u] \notin {"open", "indeterminate"}
  IN [d EXCEPT !.g.terminal = IF held THEN "success" ELSE "failed",
               !.g.status = IF held THEN "success" ELSE "indeterminate",
               !.g.effect = "none", !.g.ready = TRUE, !.g.st = IF held THEN "done" ELSE "failed"]
mutation_capacity(d, u, req) ==
  LET n == Cardinality(req.mask)
      records == IF req.kind = "write" THEN 2 * n ELSE n
  IN /\ Cardinality(DOMAIN d.obl) < Slots /\ u > d.last /\ ~overlay_present(d)
     /\ d.blk[Journal].next + n <= PerBlock
     /\ req.kind = "write" => Cardinality(FreePages(d)) >= n
     /\ d.state + n - 1 <= RECORD_LIMIT
     /\ d.rec + records - 1 <= RECORD_LIMIT /\ d.seq + records - 1 <= RECORD_LIMIT
Content(u, req) == IF req.kind = "write" THEN u ELSE 0
\* without power protection a cached write is only volatile until C_map
evaluate_command_witness(req) == IF set.cached /\ ~req.durable THEN "volatile" ELSE "none"
accept_mutation(d, u, req) ==
  LET mut == [a \in req.mask |->
                [NoMutation EXCEPT !.ver = d.l2p[a].ver + 1, !.pred = d.l2p[a].state, !.val = Content(u, req),
                   !.state = d.state + Cardinality({b \in req.mask : b < a})]]
      e == [d EXCEPT !.state = @ + Cardinality(req.mask), !.last = u,
                     !.obl = (u :> "open") @@ @, !.g.mut = mut, !.g.atom = Min(req.mask),
                     !.g.st = IF req.kind = "write" THEN "data transfer" ELSE "meta transfer"]
  IN IF ~mutation_capacity(d, u, req) THEN Fails("no capacity", d)
     ELSE IF \E a \in req.mask : mut[a].ver > VersionLimit THEN Fails("invariant", d)
     ELSE Ok(IF evaluate_command_witness(req) # "volatile" THEN e
             ELSE [e EXCEPT !.over = [a \in Atoms |-> IF a \in req.mask THEN Content(u, req) ELSE @[a]],
                            !.g.terminal = "success", !.g.status = "success", !.g.ready = TRUE])
\* c34_accept_outer; a refusal leaves nothing behind
c34_accept_outer(d, u, req) ==
  LET e == [d EXCEPT !.g = [NoGraph EXCEPT !.kind = "outer", !.st = "captured", !.uid = u, !.req = req,
                              !.atom = IF req.kind = "read" THEN Min(req.mask) ELSE 0],
                     !.side = (u :> [ready |-> FALSE, status |-> "none", got |-> 0]) @@ @]
      t == CASE req.kind = "read" -> Ok(accept_read(e))
             [] req.kind = "fence" -> Ok(accept_fence(e))
             [] OTHER -> accept_mutation(e, u, req)
  IN IF d.phase # 0 \/ d.g.kind # "none" THEN Fails("wrong state", d)
     ELSE IF Cardinality(DOMAIN d.side) >= Slots THEN Fails("no capacity", d)
     ELSE IF t.r # "ok" THEN Fails(t.r, d) ELSE t

c34_cancel_outer(d) ==
  IF d.op # NoOp THEN model_cancel(d) ELSE c34_graph_fail(d, "cancelled", "none")
\* fill_sidecar and fill_event; a graph that has ended goes with its event
fill_event(d) ==
  LET e == [d EXCEPT !.side[d.g.uid] = [ready |-> TRUE, status |-> d.g.status, got |-> d.g.got],
                     !.g.ready = FALSE, !.g.sent = TRUE]
  IN IF Ended(e) THEN [e EXCEPT !.g = NoGraph] ELSE e
c34_result_ack(d, u) ==
  [d EXCEPT !.side = Without(@, u),
            !.obl = IF u \in DOMAIN @ /\ @[u] \notin {"open", "indeterminate"} THEN Without(@, u) ELSE @]

c34_checkpoint_start(d) ==
  LET b == CheckpointBlock(d.cp)
      rec == [type |-> "check", id |-> d.rec, seq |-> d.seq, gen |-> d.blk[b].gen, cp |-> d.cp + 1,
              covered |-> d.seq - 1, nextId |-> d.rec + 2, nextState |-> d.state, entry |-> d.l2p]
      t == take_record_identity(d)
  IN IF \/ d.phase # 0 \/ d.g.kind # "none" \/ overlay_present(d) \/ d.cp >= CHECKPOINT_LIMIT
        \/ \E u \in DOMAIN d.obl : d.obl[u] = "open" THEN Fails("wrong state", d)
     ELSE IF d.blk[b].next # 0 \/ d.rec >= RECORD_LIMIT \/ t.r # "ok" THEN Fails("no capacity", d)
     ELSE Ok([t.d EXCEPT !.g = [NoGraph EXCEPT !.kind = "checkpoint", !.st = "data transfer", !.rec = rec,
                                  !.check = rec, !.ppa = b * PerBlock]])
\* c34_choose_relocation: a block with one live page not moved before, and a block in reserve
Movable(d) ==
  LET reserve == {b \in DataBlocks : \A p \in PagesOf(b) : d.p2l[p] = "reserved"}
      live(b) == {p \in PagesOf(b) : d.p2l[p] = "live"}
      victims == {b \in DataBlocks \ {Max(reserve)} :
                    /\ Cardinality(live(b)) = 1
                    /\ \A p \in live(b), a \in Atoms : d.l2p[a].kind = "value" /\ d.l2p[a].ppa = p => d.l2p[a].copy = 0}
  IN IF reserve = {} THEN {}
     ELSE IF victims = {} THEN {} ELSE {[from |-> p, to |-> Max(reserve) * PerBlock] : p \in live(Min(victims))}
c34_relocation_start(d) ==
  LET mv == The(Movable(d))
      a == The({x \in Atoms : d.l2p[x].kind = "value" /\ d.l2p[x].ppa = mv.from})
      e == d.l2p[a]
  IN IF \/ d.phase # 0 \/ d.g.kind # "none" \/ overlay_present(d)
        \/ d.rec + 1 > RECORD_LIMIT \/ d.seq + 1 > RECORD_LIMIT \/ d.blk[Journal].next >= PerBlock
     THEN Fails("wrong state", d)
     ELSE IF Movable(d) = {} THEN Fails("not found", d)
     ELSE Ok([d EXCEPT !.g = [NoGraph EXCEPT !.kind = "relocation", !.st = "read trigger", !.atom = a,
                                !.victim = mv.from, !.dest = mv.to,
                                !.mut = a :> [NoMutation EXCEPT !.ver = e.ver, !.copy = 1, !.state = e.state,
                                                                !.pred = e.state]]])

(***************************************************************************)
(* The host, the lifecycle core above and the power supply.  may[a] is     *)
(* what a recovery may find of atom a, see[a] what a read may return, by   *)
(* what the host was told so far.                                          *)
(***************************************************************************)
ContentOf(e) == IF e.kind = "value" THEN e.val ELSE 0
Mutates(req) == req.kind \in {"write", "trim"}
Alive == dev.up /\ ~env.dead
Settled(l2p) == [a \in Atoms |-> {ContentOf(l2p[a])}]

Init ==
  /\ set \in Settings
  /\ dev = c34_init(FreshMedia)
  /\ env = [uid |-> 1, cancels |-> 0, cuts |-> 0, resets |-> 0, maint |-> 0, hit |-> 0, faults |-> 0, dead |-> FALSE,
            may |-> [a \in Atoms |-> {0}], see |-> [a \in Atoms |-> {0}]]

\* c34_request_register with a fresh token
Register ==
  /\ Alive /\ env.uid <= set.cmds /\ Cardinality(DOMAIN dev.reg) < set.ahead
  /\ \E req \in set.menu : dev' = [dev EXCEPT !.reg = (env.uid :> [req |-> req, open |-> TRUE]) @@ @]
  /\ env' = [env EXCEPT !.uid = @ + 1]
  /\ UNCHANGED set

\* provider_submit; backpressure changes nothing and a rejected command is not tried again
Submit ==
  /\ Alive /\ dev.phase = 0
  /\ \E u \in {v \in DOMAIN dev.reg : dev.reg[v].open} :
       LET req == dev.reg[u].req
           t == c34_accept_outer(dev, u, req)
       IN \/ /\ t.r = "ok"
             /\ dev' = [t.d EXCEPT !.reg = Without(@, u)]
             /\ env' = IF Mutates(req)
                       THEN [env EXCEPT !.may = [a \in Atoms |-> IF a \in req.mask THEN @[a] \cup {Content(u, req)} ELSE @[a]],
                                        !.see = [a \in Atoms |-> IF a \in req.mask THEN @[a] \cup {Content(u, req)} ELSE @[a]]]
                       ELSE env
          \/ /\ t.r \notin {"ok", "no capacity", "wrong state"}
             /\ dev' = [dev EXCEPT !.reg[u].open = FALSE]
             /\ UNCHANGED env
  /\ UNCHANGED set

\* what the host learns from the event of the active command
Told(g) ==
  LET v == Content(g.uid, g.req)
      volatile == ~Ended(dev)
      nothing == v # 0 /\ g.effect # "full" /\ dev.obl[g.uid] = "no commit"
      on(f, S) == [a \in Atoms |-> IF a \in g.req.mask THEN S ELSE f[a]]
      off(f) == [a \in Atoms |-> IF a \in g.req.mask THEN f[a] \ {v} ELSE f[a]]
  IN IF g.req.kind = "fence" /\ g.terminal = "success" /\ dev.last < g.uid THEN [env EXCEPT !.may = env.see]
     ELSE IF ~Mutates(g.req) THEN env
     ELSE IF g.terminal = "success"
     THEN [env EXCEPT !.see = on(@, {v}), !.may = IF volatile THEN @ ELSE on(@, {v})]
     ELSE IF nothing THEN [env EXCEPT !.may = off(@), !.see = IF overlay_present(dev) THEN @ ELSE off(@)]
     ELSE env

EventReady == dev.g.kind = "outer" /\ dev.g.ready
\* provider_poll with a budget of one; an error makes the lifecycle core fault the instance
Poll ==
  /\ Alive
  /\ \/ /\ EventReady
        /\ dev' = fill_event(dev)
        /\ env' = Told(dev.g)
     \/ /\ ~EventReady /\ dev.g.kind # "none"
        /\ \E fault \in fault_classes(dev) :
             /\ fault # "clean" => env.faults < set.most
             /\ \E t \in {c34_drive_one(dev, fault)} :
                  /\ dev' = t.d
                  /\ env' = [env EXCEPT !.dead = t.r # "ok", !.faults = IF fault = "clean" THEN @ ELSE @ + 1]
  /\ UNCHANGED set

\* provider_cancel, sent once to a command whose event is still due
Cancel ==
  /\ Alive /\ env.cancels < set.cancels
  /\ dev.g.kind = "outer" /\ ~dev.g.sent /\ env.hit # dev.g.uid
  /\ dev' = c34_cancel_outer(dev)
  /\ env' = [env EXCEPT !.cancels = @ + 1, !.hit = dev.g.uid]
  /\ UNCHANGED set
\* the host has read a result
Ack ==
  /\ Alive
  /\ \E u \in {v \in DOMAIN dev.side : dev.side[v].ready} : dev' = c34_result_ack(dev, u)
  /\ UNCHANGED <<set, env>>

\* no record that a recovery would replay points into the block about to be erased
Unneeded(d) ==
  \A p \in PagesOf(Journal) : LET r == d.m.page[p] IN
    (decode_page(d.m, p) = "ok" /\ r.type \in {"map", "reloc"} /\ r.seq > d.mark) =>
      \A mv \in Movable(d) : r.tppa \div PerBlock # mv.from \div PerBlock
Maintain(t) == /\ t.r = "ok" /\ dev' = t.d
               /\ env' = [env EXCEPT !.maint = @ + 1]
               /\ UNCHANGED set
CheckpointStart == Alive /\ env.maint < set.maint /\ Maintain(c34_checkpoint_start(dev))
\* a careful caller takes a checkpoint before a relocation, as the tests do
RelocationStart ==
  /\ Alive /\ env.maint < set.maint /\ (set.careful => Unneeded(dev))
  /\ Maintain(c34_relocation_start(dev))

ResetBegin ==
  /\ Alive /\ dev.phase = 0 /\ env.resets < set.resets
  /\ dev' = model_reset_begin([dev EXCEPT !.phase = 1, !.over = Bare, !.reg = <<>>])
  /\ env' = [env EXCEPT !.resets = @ + 1]
  /\ UNCHANGED set
provider_quiescent(d) ==
  The({LET q == model_quiescent(t.d) IN
       IF t.r # "ok" \/ q.r # "ok" THEN Fails("invariant", [t.d EXCEPT !.phase = 2])
       ELSE IF q.d.drain \/ ~txn_quiescent(q.d) \/ q.d.g.kind # "none" THEN q
       ELSE Ok([q.d EXCEPT !.side = <<>>, !.obl = <<>>, !.phase = 0])
       : t \in {IF d.g.kind = "none" THEN Ok(d) ELSE c34_drive_one(d, "clean")}})
\* the core asks once it holds no command of its own
Quiescent ==
  /\ Alive /\ dev.phase = 1 /\ ~(dev.g.kind = "outer" /\ ~dev.g.sent)
  /\ \E t \in {provider_quiescent(dev)} :
        /\ dev' = t.d
        /\ env' = IF t.r # "ok" THEN [env EXCEPT !.dead = TRUE]
                  ELSE IF t.d.phase = 0 THEN [env EXCEPT !.may = Settled(t.d.l2p), !.see = Settled(t.d.l2p)]
                  ELSE env
  /\ UNCHANGED set

\* power is lost and returns: the media decides
PowerCycle ==
  /\ dev.up /\ env.cuts < set.cuts
  /\ dev' = c34_init(c33_commit_power_prefix(dev))
  /\ env' = [env EXCEPT !.cuts = @ + 1, !.dead = FALSE, !.hit = 0,
                        !.may = Settled(dev'.l2p), !.see = Settled(dev'.l2p)]
  /\ UNCHANGED set

Next ==
  \/ Register \/ Submit \/ Poll \/ Cancel \/ Ack
  \/ CheckpointStart \/ RelocationStart
  \/ ResetBegin \/ Quiescent \/ PowerCycle
\* the lifecycle core polls in every step and asks for quiescence while it drains
Fairness == WF_vars(Poll) /\ WF_vars(Quiescent)
Spec == Init /\ [][Next]_vars /\ Fairness

(***************************************************************************)
(* Properties.                                                             *)
(***************************************************************************)
\* a block given up as bad takes its readable pages with it: the mapping keeps no second copy
Worn == \E b \in Blocks : ~dev.m.block[b].good /\ \E p \in PagesOf(b) : dev.m.page[p] # Erased
\* Power may fail in any state, in the middle of a program or an erase: recovery then accepts
\* the image, and finds of each atom nothing but what the results and fences given so far allow.
CutsRecover ==
  dev.up /\ ~Worn =>
    LET r == c34_recover_image(c33_commit_power_prefix(dev))
    IN r.ok /\ \A a \in Atoms : ContentOf(r.l2p[a]) \in env.may[a]

\* A relocation is followed by a safe erase of its victim: the media can be recovered at any time.
SafeVictimErase == dev.up => c34_recover_image(dev.m).ok

\* what no fault, cut, cancel or reset has touched
Untouched == env.faults + env.cuts + env.cancels + env.resets = 0 /\ set.inner = 0
\* The tables in memory are those a recovery of the media would build, except for a page set
\* aside for a program to come; identities are never behind the media; every result slot and
\* obligation belongs to a command; and on sound media no program is refused.
TablesAgree ==
  (Alive /\ ~Worn) =>
    LET r == c34_recover_image(dev.m) IN
    /\ r.ok /\ dev.l2p = r.l2p /\ dev.blk = dev.m.block /\ dev.cp = r.cp /\ dev.mark = r.mark
    /\ \A p \in DataPages : dev.p2l[p] = r.p2l[p] \/ (dev.p2l[p] = "reserved" /\ r.p2l[p] = "free")
    /\ dev.rec >= r.rec /\ dev.seq >= r.seq /\ dev.state >= r.state
    /\ \A u \in DOMAIN dev.side : dev.side[u].ready \/ dev.g.uid = u
    /\ \A u \in DOMAIN dev.obl : dev.obl[u] = "open" => dev.g.uid = u
    /\ overlay_present(dev) /\ dev.last \in DOMAIN dev.obl => dev.obl[dev.last] # "mapped"
    /\ Untouched => dev.phase # 2 /\ \A u \in DOMAIN dev.side : dev.side[u].status # "media"

\* A read returns what the last writes the host knows of left; a fence that succeeds finds all
\* of it on the media.
ResultsTrue ==
  (Alive /\ EventReady /\ dev.g.terminal = "success" /\ dev'.g # dev.g /\ Alive') =>
    /\ dev.g.req.kind = "read" => dev.g.got \in env.see[dev.g.atom]
    /\ dev.g.req.kind = "fence" /\ ~Worn =>
         LET r == c34_recover_image(dev.m) IN \A a \in Atoms : ContentOf(r.l2p[a]) \in env.see[a]

\* a cancelled program leaves the media's binding behind for good
Leaked == dev.held /\ ~dev.g.bound
Busy == Alive /\ ~Leaked /\ dev.phase # 2 /\ (dev.g.kind # "none" \/ dev.phase = 1)
\* A command, checkpoint, relocation or reset drain comes to its end when the core keeps polling.
Progress == Busy ~> ~Busy

=============================================================================
