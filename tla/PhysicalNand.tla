---------------------------- MODULE PhysicalNand ----------------------------
(***************************************************************************)
(* media/file-nand-v2: the engine that keeps a NAND array in one image.    *)
(*                                                                         *)
(* A mutation writes an INTENT into the bank its sequence number selects,  *)
(* then the page homes and records and the block record, then a terminal   *)
(* into the same bank, with a barrier after each of the three.  Opening an *)
(* image finds the newest terminal and, when the other bank holds the      *)
(* INTENT of its successor, installs an ABORT of it.                       *)
(*                                                                         *)
(* disk is what the last barrier made durable, cache what the process has  *)
(* written since.  A crash leaves, of every region written since the last  *)
(* barrier, the old bytes, the new ones, or a mixture no checksum accepts. *)
(* The step that follows a barrier's return includes the barrier.          *)
(***************************************************************************)
EXTENDS Naturals, FiniteSets

CONSTANTS
  Blocks,        \* block ids
  PPB,           \* config.geometry.pages_per_block
  MaxSequence,   \* UINT64_MAX, the last sequence number
  MaxErase,      \* UINT16_MAX, the last erase attempt
  Settings       \* what a run may meet: [io, blocks], see set

ASSUME NandConstants ==
  /\ PPB \in Nat \ {0}
  /\ MaxSequence \in Nat /\ MaxErase \in Nat
  /\ \A x \in Settings : x.io \in BOOLEAN /\ x.blocks \subseteq Blocks

Pages == 0 .. PPB - 1
Banks == {0, 1}

VARIABLES
  set,        \* io: transfers and syncs may fail; blocks: the ones the callers mutate
  disk,       \* region -> durable record
  cache,      \* region -> record, with the writes since the last barrier
  pc,         \* where the engine is in the running call
  sequence,   \* m->sequence
  cur,        \* the fnv2_intent of the running call
  known,      \* the cells a caller reads, as of the last time the engine was ready
  op          \* the mutation that was started since

vars == <<set, disk, cache, pc, sequence, cur, known, op>>

C == INSTANCE NandContract WITH nand <- known

-----------------------------------------------------------------------------
(* The records of the image.                                               *)

Zero == [k |-> "ZERO"]
Torn == [k |-> "TORN"]

Super(b) == <<"super", b>>
Intent(b) == <<"intent", b>>
Term(b) == <<"term", b>>
Blk(b) == <<"blk", b>>
Rec(b, p) == <<"rec", b, p>>
Home(b, p) == <<"home", b, p>>

Region ==
  {Super(b) : b \in Banks} \cup {Intent(b) : b \in Banks} \cup {Term(b) : b \in Banks}
  \cup {Blk(b) : b \in Blocks}
  \cup {Rec(b, p) : b \in Blocks, p \in Pages} \cup {Home(b, p) : b \in Blocks, p \in Pages}

bank_at(seq) == seq % 2

Max(a, b) == IF a >= b THEN a ELSE b

\* erase_state is CLEAN exactly when erased_prefix is 0; gen = successful_erase_count.
FreshBlk == [k |-> "BLOCK", gen |-> 0, attempts |-> 0, next |-> 0,
             bad |-> FALSE, prefix |-> 0, seq |-> 0]
page_encode(gen, state, seq, data) ==
  [k |-> "PAGE", gen |-> gen, state |-> state, seq |-> seq, data |-> data]
Data(d) == [k |-> "DATA", data |-> d]
bootstrap == [k |-> "TERM", seq |-> 0, disp |-> "BOOTSTRAP", intent |-> Zero]
\* intent_crc identifies the INTENT, so the terminal carries the INTENT itself.
terminal(i, disp) == [k |-> "TERM", seq |-> i.seq, disp |-> disp, intent |-> i]

block_decode(r, limit) ==
  /\ r.k = "BLOCK" /\ r.seq <= limit
  /\ r.gen <= r.attempts /\ r.next <= PPB /\ r.prefix <= PPB
  /\ r.seq = 0 => r = FreshBlk

page_valid(r, limit) == r.k = "PAGE" /\ r.seq \in 1 .. limit

intent_decode(r, bank) ==
  /\ r.k = "INTENT"
  /\ r.seq # 0 /\ bank_at(r.seq) = bank
  /\ block_decode(r.base, r.seq - 1)
  /\ ~r.base.bad
  /\ \/ /\ r.kind = "PROGRAM" /\ r.base.prefix = 0
        /\ r.first = r.base.next /\ r.count > 0 /\ r.first + r.count <= PPB
     \/ r.kind = "ERASE" /\ r.base.attempts < MaxErase /\ r.first = 0 /\ r.count \in 1 .. PPB
     \/ r.kind = "MARK_BAD" /\ r.first = 0 /\ r.count = 0

terminal_decode(r, bank) ==
  /\ r.k = "TERM"
  /\ IF r.disp = "BOOTSTRAP" THEN r.seq = 0 ELSE r.seq # 0 /\ bank_at(r.seq) = bank

terminal_matches(t, i) == t.disp # "BOOTSTRAP" /\ t.seq = i.seq /\ t.intent = i

-----------------------------------------------------------------------------
(* What a cell reads as.                                                   *)

\* page_class: "BAD" is its -1.
page_class(b, r, p, limit) ==
  CASE r = Zero -> IF p < b.next THEN "BAD" ELSE "ERASED"
    [] r # Zero /\ ~page_valid(r, limit) -> "BAD"
    [] r # Zero /\ page_valid(r, limit) ->
         IF r.gen > b.gen THEN "BAD"
         ELSE IF r.gen < b.gen THEN IF p < b.next THEN "BAD" ELSE "ERASED"
         ELSE IF p >= b.next THEN "BAD" ELSE r.state

\* load_page: the caller sees an UNKNOWN page, and an erased prefix, as TORN.
load_page(img, blk, p, limit) ==
  LET b == img[Blk(blk)]
      r == img[Rec(blk, p)]
      class == page_class(b, r, p, limit)
  IN  IF b.prefix > 0 /\ p < b.prefix THEN C!TornCell
      ELSE CASE class = "BAD" -> [state |-> "BROKEN", data |-> 0]
             [] class = "ERASED" -> C!Erased
             [] class = "UNKNOWN" -> C!TornCell
             [] OTHER -> IF img[Home(blk, p)] = Data(r.data)
                         THEN [state |-> class, data |-> r.data]
                         ELSE [state |-> "BROKEN", data |-> 0]

\* What the read operations answer for a block.
ViewBlock(img, blk, limit) ==
  LET b == img[Blk(blk)]
  IN  IF block_decode(b, limit)
      THEN [gen |-> b.gen, attempts |-> b.attempts, next |-> b.next, bad |-> b.bad,
            prefix |-> b.prefix, cell |-> [p \in Pages |-> load_page(img, blk, p, limit)]]
      ELSE [broken |-> TRUE]
View == [b \in Blocks |-> ViewBlock(cache, b, sequence)]

\* The engine is ready: from here its reads answer these cells.
Answer == known' = View' /\ op' = C!NoOp

-----------------------------------------------------------------------------
(* Format.                                                                 *)

Init ==
  /\ set \in Settings
  /\ disk = [r \in Region |-> Zero]
  /\ cache = disk
  /\ pc = "empty" /\ sequence = 0 /\ cur = Zero
  /\ known = C!Fresh /\ op = C!NoOp

\* Write records after the barrier that made the earlier ones durable.
Write(durable, writes) ==
  /\ disk' = durable
  /\ cache' = [r \in Region |-> IF r \in DOMAIN writes THEN writes[r] ELSE durable[r]]

format_body ==
  /\ pc = "empty"
  /\ Write(disk, [r \in {Blk(b) : b \in Blocks} \cup {Term(b) : b \in Banks} |->
                    IF r[1] = "blk" THEN FreshBlk ELSE bootstrap])
  /\ pc' = "format_body"
  /\ UNCHANGED <<sequence, cur, known, op>>

format_super ==
  /\ pc = "format_body"
  /\ Write(cache, [r \in {Super(b) : b \in Banks} |-> [k |-> "SUPER"]])
  /\ pc' = "format_super"
  /\ UNCHANGED <<sequence, cur, known, op>>

format_done ==
  /\ pc = "format_super"
  /\ disk' = cache
  /\ pc' = "ready"
  /\ UNCHANGED <<cache, sequence, cur>>
  /\ Answer

-----------------------------------------------------------------------------
(* The mutations.                                                          *)

\* Mutant: a shorter interrupted erase uncovers pages an earlier one damaged.
abort_block_LastPrefix(i) ==
  CASE i.kind = "PROGRAM" -> [i.base EXCEPT !.seq = i.seq, !.next = i.first + i.count]
    [] i.kind = "ERASE" -> [i.base EXCEPT !.seq = i.seq, !.attempts = @ + 1, !.prefix = i.count]
    [] OTHER -> [i.base EXCEPT !.seq = i.seq, !.bad = TRUE]

abort_block(i) ==
  CASE i.kind = "PROGRAM" -> [i.base EXCEPT !.seq = i.seq, !.next = i.first + i.count]
    [] i.kind = "ERASE" -> [i.base EXCEPT !.seq = i.seq, !.attempts = @ + 1,
                                          !.prefix = Max(@, i.count)]
    [] OTHER -> [i.base EXCEPT !.seq = i.seq, !.bad = TRUE]

clean_block(i) ==
  [i.base EXCEPT !.seq = i.seq, !.attempts = @ + 1, !.gen = @ + 1, !.next = 0, !.prefix = 0]

live == pc = "ready"

room(seq) == seq < MaxSequence

\* begin: the INTENT of mutation o goes to the bank of the next sequence number.
begin(o) ==
  LET i == [k |-> "INTENT", seq |-> sequence + 1, block |-> o.block, kind |-> o.kind,
            first |-> o.first, count |-> o.count, base |-> cache[Blk(o.block)]]
  IN  /\ room(sequence)
      /\ Write(disk, [r \in {Intent(bank_at(i.seq))} |-> i])
      /\ pc' = "intent" /\ cur' = i
      /\ op' = o
      /\ UNCHANGED <<sequence, known>>

\* program_reason
Programmable(b, p) == ~b.bad /\ b.prefix = 0 /\ p = b.next

program_pages(b, count) ==
  LET first == cache[Blk(b)].next
  IN  /\ live /\ Programmable(cache[Blk(b)], first)
      /\ first + count <= PPB
      /\ \A p \in first .. first + count - 1 :
            page_class(cache[Blk(b)], cache[Rec(b, p)], p, sequence) = "ERASED"
      /\ begin([kind |-> "PROGRAM", block |-> b, first |-> first, count |-> count,
                state |-> "VALID", data |-> sequence + 1])

\* A program that applied only part of the page: one page, recorded TORN.
media_program(b) ==
  LET first == cache[Blk(b)].next
  IN  /\ live /\ first < PPB
      /\ Programmable(cache[Blk(b)], first)
      /\ load_page(cache, b, first, sequence) = C!Erased
      /\ begin([kind |-> "PROGRAM", block |-> b, first |-> first, count |-> 1,
                state |-> "TORN", data |-> sequence + 1])

media_erase(b, applied, integrity) ==
  /\ live /\ ~cache[Blk(b)].bad
  /\ cache[Blk(b)].attempts < MaxErase
  /\ begin([kind |-> "ERASE", block |-> b, first |-> 0, count |-> applied,
            state |-> integrity, data |-> 0])

media_bad(b) ==
  /\ live /\ ~cache[Blk(b)].bad
  /\ begin([kind |-> "MARK_BAD", block |-> b, first |-> 0, count |-> 0,
            state |-> "VALID", data |-> 0])

Reserved == {<<cur.block, p>> : p \in cur.first .. cur.first + cur.count - 1}

\* The homes, page records and block record that complete mutation op.
home_writes ==
  LET recs == IF cur.kind = "PROGRAM" THEN {Rec(r[1], r[2]) : r \in Reserved} ELSE {}
      homes == IF cur.kind = "PROGRAM" THEN {Home(r[1], r[2]) : r \in Reserved} ELSE {}
      after == IF op.kind = "ERASE" /\ op.state = "VALID" /\ op.count = PPB
               THEN clean_block(cur) ELSE abort_block(cur)
  IN  [r \in {Blk(cur.block)} \cup recs \cup homes |->
         CASE r \in recs -> page_encode(cur.base.gen, op.state, cur.seq, op.data)
           [] r \in homes -> Data(op.data)
           [] OTHER -> after]

\* Mutant: no barrier between the INTENT and the homes.
write_homes_NoBarrier ==
  /\ pc = "intent"
  /\ cache' = [r \in Region |-> IF r \in DOMAIN home_writes THEN home_writes[r]
                                                            ELSE cache[r]]
  /\ UNCHANGED disk
  /\ pc' = "homes"
  /\ UNCHANGED <<sequence, cur, known, op>>

write_homes ==
  /\ pc = "intent"
  /\ Write(cache, home_writes)
  /\ pc' = "homes"
  /\ UNCHANGED <<sequence, cur, known, op>>

terminal_write ==
  /\ pc = "homes"
  /\ Write(cache, [r \in {Term(bank_at(cur.seq))} |-> terminal(cur, "COMMIT")])
  /\ pc' = "terminal"
  /\ UNCHANGED <<sequence, cur, known, op>>

commit_return ==
  /\ pc = "terminal"
  /\ disk' = cache
  /\ sequence' = cur.seq
  /\ pc' = "ready" /\ cur' = Zero
  /\ UNCHANGED cache
  /\ Answer

Running == {"format_body", "format_super", "intent", "homes", "terminal",
            "abort_homes", "abort_terminal"}

\* A failed transfer or sync: broken() quarantines the handle.
io_failure ==
  /\ set.io
  /\ pc \in Running \cup {"ready"}
  /\ pc' = "quarantined"
  /\ UNCHANGED <<disk, cache, sequence, cur, known, op>>

\* The process ends; of every region not yet synced anything may remain.
Survives(f) ==
  [r \in Region |-> IF r \notin DOMAIN f THEN disk[r]
                    ELSE CASE f[r] = "new" -> cache[r]
                           [] f[r] = "torn" -> Torn
                           [] OTHER -> disk[r]]

crash ==
  /\ pc \notin {"empty", "down", "refused"}
  /\ \E f \in [{r \in Region : cache[r] # disk[r]} -> {"old", "new", "torn"}] :
        disk' = Survives(f) /\ cache' = disk'
  /\ pc' = "down" /\ sequence' = 0 /\ cur' = Zero
  /\ UNCHANGED <<known, op>>

-----------------------------------------------------------------------------
(* recover                                                                 *)

block_after(i, t, actual) ==
  \/ actual = abort_block(i)
  \/ /\ t.disp = "COMMIT" /\ i.kind = "ERASE" /\ i.count = PPB
     /\ actual = clean_block(i)

\* validate_transaction over image img
validate_transaction(img, limit, i, t, latest) ==
  LET b == img[Blk(i.block)]
  IN  /\ block_decode(b, limit)
      /\ latest => block_after(i, t, b)
      /\ i.kind = "PROGRAM" =>
           \A p \in i.first .. i.first + i.count - 1 :
             LET r == img[Rec(i.block, p)]
             IN  \/ b.gen > i.base.gen
                 \/ b.prefix > 0 /\ p < b.prefix
                 \/ /\ page_valid(r, limit)
                    /\ r.seq = i.seq /\ r.gen = i.base.gen
                    /\ IF t.disp = "ABORT" THEN r.state = "UNKNOWN"
                       ELSE /\ r.state # "UNKNOWN"
                            /\ i.count > 1 => r.state = "VALID"
                            /\ img[Home(i.block, p)] = Data(r.data)

validate_block_cells(img, limit, blk) ==
  /\ block_decode(img[Blk(blk)], limit)
  /\ \A p \in Pages : load_page(img, blk, p, limit).state # "BROKEN"

tv(b) == terminal_decode(disk[Term(b)], b)
iv(b) == intent_decode(disk[Intent(b)], b)

\* Both banks decode or fail their checksum, and the terminals are neighbours.
banks_consistent ==
  /\ \A b \in Banks :
        /\ disk[Super(b)].k = "SUPER"
        /\ tv(b) \/ disk[Term(b)].k \in {"ZERO", "TORN"}
        /\ iv(b) \/ disk[Intent(b)].k \in {"ZERO", "TORN"}
  /\ tv(0) \/ tv(1)
  /\ tv(0) /\ tv(1) =>
       LET high == Max(disk[Term(0)].seq, disk[Term(1)].seq)
           low == disk[Term(0)].seq + disk[Term(1)].seq - high
       IN  high - low <= 1 /\ (high = low => high = 0)

selected ==
  IF tv(1) /\ (~tv(0) \/ disk[Term(1)].seq > disk[Term(0)].seq) THEN 1 ELSE 0

selected_consistent(s) ==
  LET t == disk[Term(s)]
  IN  IF t.seq = 0 THEN tv(0) ELSE iv(s) /\ terminal_matches(t, disk[Intent(s)])

\* The writes of abort_install before its terminal.
abort_writes(i) ==
  LET recs == IF i.kind = "PROGRAM"
              THEN {Rec(i.block, p) : p \in i.first .. i.first + i.count - 1} ELSE {}
  IN  [r \in {Blk(i.block)} \cup recs |->
         IF r \in recs THEN page_encode(i.base.gen, "UNKNOWN", i.seq, 0) ELSE abort_block(i)]

prospective(seq) == 1 - bank_at(seq)

Refuse ==
  /\ pc' = "refused"
  /\ UNCHANGED <<disk, cache, sequence, cur, known, op>>

\* No successor INTENT: the selected transaction is the last one.
open_resolved(s, seq) ==
  LET i == disk[Intent(s)]
      t == disk[Term(s)]
      q == prospective(seq)
      ok == /\ iv(q) => seq # 0 /\ disk[Intent(q)].seq = seq - 1
            /\ IF seq # 0 THEN /\ validate_transaction(disk, seq, i, t, TRUE)
                               /\ validate_block_cells(disk, seq, i.block)
                          ELSE \A b \in Blocks : block_decode(disk[Blk(b)], 0)
  IN  IF ok THEN /\ pc' = "ready" /\ sequence' = seq
                 /\ UNCHANGED <<disk, cache, cur>>
                 /\ Answer
            ELSE Refuse

\* A successor INTENT without its terminal: install its ABORT.
open_abort(s, seq) ==
  LET i == disk[Intent(prospective(seq))]
      ok == /\ room(seq) /\ i.seq = seq + 1
            /\ (seq # 0 /\ disk[Intent(s)].block = i.block) =>
                  block_after(disk[Intent(s)], disk[Term(s)], i.base)
  IN  IF ok THEN /\ Write(disk, abort_writes(i))
                 /\ pc' = "abort_homes" /\ sequence' = seq /\ cur' = i
                 /\ UNCHANGED <<known, op>>
            ELSE Refuse

recover ==
  /\ pc = "down"
  /\ IF banks_consistent /\ selected_consistent(selected)
     THEN LET s == selected
              seq == disk[Term(s)].seq
              q == prospective(seq)
          IN  IF iv(q) /\ disk[Intent(q)].seq > seq THEN open_abort(s, seq)
                                                     ELSE open_resolved(s, seq)
     ELSE Refuse

abort_terminal ==
  /\ pc = "abort_homes"
  /\ Write(cache, [r \in {Term(bank_at(cur.seq))} |-> terminal(cur, "ABORT")])
  /\ pc' = "abort_terminal"
  /\ UNCHANGED <<sequence, cur, known, op>>

abort_done ==
  LET s == 1 - bank_at(cur.seq)
      sel == cache[Intent(s)]
      t == cache[Term(s)]
      ok == /\ validate_transaction(cache, cur.seq, cur, terminal(cur, "ABORT"), TRUE)
            /\ validate_block_cells(cache, cur.seq, cur.block)
            /\ sequence # 0 =>
                 /\ validate_transaction(cache, cur.seq, sel, t, sel.block # cur.block)
                 /\ sel.block # cur.block => validate_block_cells(cache, cur.seq, sel.block)
  IN  /\ pc = "abort_terminal"
      /\ disk' = cache
      /\ sequence' = cur.seq
      /\ pc' = (IF ok THEN "ready" ELSE "refused") /\ cur' = Zero
      /\ UNCHANGED cache
      /\ Answer

-----------------------------------------------------------------------------

Mutate ==
  \E b \in set.blocks :
    \/ \E count \in 1 .. PPB : program_pages(b, count)
    \/ media_program(b)
    \/ \E applied \in 1 .. PPB, integrity \in {"VALID", "TORN"} :
          media_erase(b, applied, integrity)
    \/ media_bad(b)

Next ==
  /\ UNCHANGED set
  /\ \/ format_body \/ format_super \/ format_done
     \/ Mutate
     \/ write_homes \/ terminal_write \/ commit_return
     \/ io_failure \/ crash
     \/ recover \/ abort_terminal \/ abort_done

Spec == Init /\ [][Next]_vars

-----------------------------------------------------------------------------
(* Properties.                                                             *)

\* The engine's calls run through these points and the sequence stays in range.
TypeOK ==
  /\ set \in Settings
  /\ DOMAIN disk = Region /\ DOMAIN cache = Region
  /\ pc \in Running \cup {"empty", "ready", "quarantined", "down", "refused"}
  /\ sequence \in 0 .. MaxSequence
  /\ DOMAIN known = Blocks

\* recover() opens every image whose two superblocks became durable; only an
\* image whose format was interrupted is refused.
OnlyUnformattedRefused == pc = "refused" => \E b \in Banks : disk[Super(b)].k # "SUPER"

\* INTENT before homes: a block or page record is torn, or newer than every
\* terminal, only inside the range of a durable INTENT that has no terminal.
DamageIsReserved ==
  (\A b \in Banks : disk[Super(b)].k = "SUPER") =>
     LET newest == CHOOSE n \in 0 .. MaxSequence :
                     /\ \E b \in Banks : tv(b) /\ disk[Term(b)].seq = n
                     /\ \A b \in Banks : tv(b) => disk[Term(b)].seq <= n
         i == disk[Intent(prospective(newest))]
         Damaged(r) == disk[r] = Torn \/ (disk[r] # Zero /\ disk[r].seq > newest)
         Hit(blk) == iv(prospective(newest)) /\ i.seq = newest + 1 /\ i.block = blk
     IN  \A blk \in Blocks :
           /\ Damaged(Blk(blk)) => Hit(blk)
           /\ \A p \in Pages : Damaged(Rec(blk, p)) =>
                 Hit(blk) /\ p \in i.first .. i.first + i.count - 1

\* The engine implements the contract: a call that returned has its whole
\* effect, and one cut short is found absent, committed or aborted, once.
Contract == C!Spec

\* A crash at any write leaves an image that recover() can account for: only an
\* unfinished format is refused, and all damage is covered by an INTENT.
Recoverable == TypeOK /\ OnlyUnformattedRefused /\ DamageIsReserved
=============================================================================
