----------------------------- MODULE PageMedia -----------------------------
(***************************************************************************)
(* The page requests of core/nfc-page-v2 and the NAND they act on.  The    *)
(* media is external (media/file-nand-v2 behind the batch interface): a    *)
(* block is its program frontier, its erase generation and the pages that  *)
(* read as torn.  A call answers truthfully, but with set.faults it may fail,  *)
(* stop half way, or fail to say how far it got.                           *)
(***************************************************************************)
EXTENDS Integers, Sequences

CONSTANTS Targets,       \* the blocks: records [chan, lun, plane], one per plane
          PagesPerBlock,
          MaxRequests,
          Media,         \* the media contents the models start from
          Settings       \* what a run may meet, see set

VARIABLE set             \* requests: the requests callers make, [kind, t, first, count];
                         \* many: how many; faults: the media may fail; and the
                         \* laboratory's configuration (PageLab)

Uids == 1 .. MaxRequests
NoRequest == [kind |-> "NONE"]
NoResult == [terminal |-> "NONE", effect |-> "NONE"]

mutating(r) == r.kind # "READ"

\* What happened to operation uid: the request, what the media did for it,
\* whether it was cancelled while open, and the result handed out.
NewEntry == [req |-> NoRequest, applied |-> 0, tainted |-> FALSE,
             cancelled |-> FALSE, out |-> NoResult]

(* A PPA range must lie in one block; an erase names a whole block. *)
page2_shape_reason(r) ==
  \/ r.count = 0 \/ r.first + r.count > PagesPerBlock
  \/ r.kind = "ERASE" /\ (r.count # 1 \/ r.first # 0)

(* Programs are in order, and on pages an erase has left clean: an erase that *)
(* stopped half way tears the pages above the frontier too.                *)
page2_mutation_reason(r, page, b) == r.kind = "PROGRAM" /\ (page # b.next \/ page \in b.bad)

(* An answer of a mutating call over n pages: k pages are complete, the    *)
(* next one may be torn, and the status says whether the report counts.    *)
Answers(n) ==
  {a \in [k : 0 .. n, torn : BOOLEAN, ok : BOOLEAN] :
     IF set.faults THEN a.torn => a.k < n ELSE a.k = n /\ ~a.torn /\ a.ok}

Mutated(b, r, a) ==
  IF r.kind = "PROGRAM"
  THEN [b EXCEPT !.next = @ + a.k + (IF a.torn THEN 1 ELSE 0),
                 !.bad = IF a.torn THEN @ \cup {b.next + a.k} ELSE @]
  ELSE IF a.k = 1 THEN [next |-> 0, gen |-> b.gen + 1, bad |-> {}]
  ELSE IF a.torn THEN [b EXCEPT !.bad = 0 .. PagesPerBlock - 1] ELSE b

Credited(e, a) == [e EXCEPT !.applied = @ + a.k, !.tainted = @ \/ a.torn]

page2_read_fact(b, pages) == b.bad \cap pages = {}

============================================================================
