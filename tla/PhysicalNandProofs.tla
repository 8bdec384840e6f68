------------------------- MODULE PhysicalNandProofs -------------------------
(***************************************************************************)
(* Proofs about PhysicalNand, for every set of blocks, block size and      *)
(* sequence range: recovery accounts for every image a crash can leave,    *)
(* and the engine implements NandContract.                                 *)
(*                                                                         *)
(* The argument is about images.  Good(img, n) says what an image is whose *)
(* newest terminal is n: the two banks hold n and a neighbour of n, and    *)
(* every block and page record is sound, except in the range reserved by a *)
(* whole INTENT of n + 1 (Pending).  Shown is what such an image answers   *)
(* when that INTENT never happened.  A crash leaves a mixture of disk and  *)
(* cache; Crashable says that every mixture is Good for some n, and shows  *)
(* what the callers know, or what the mutation in flight makes of it.      *)
(***************************************************************************)
EXTENDS PhysicalNand, TLAPS

BlockRecord == [k : {"BLOCK"}, gen : Nat, attempts : Nat, next : Nat, bad : BOOLEAN,
                prefix : Nat, seq : Nat]
PageRecord == [k : {"PAGE"}, gen : Nat, state : {"VALID", "TORN", "UNKNOWN"}, seq : Nat,
               data : Nat]
IntentRecord == [k : {"INTENT"}, seq : Nat, block : Blocks,
                 kind : {"PROGRAM", "ERASE", "MARK_BAD"}, first : Nat, count : Nat,
                 base : BlockRecord]

-----------------------------------------------------------------------------
(* The log: the bank of n and the other one.                               *)

Whole(i, n) == i \in IntentRecord /\ i.seq = n /\ intent_decode(i, bank_at(n))

Newest(img, n) ==
  IF n = 0 THEN img[Term(0)] = bootstrap /\ img[Intent(0)] = Zero
  ELSE /\ Whole(img[Intent(bank_at(n))], n)
       /\ \E d \in {"COMMIT", "ABORT"} :
            img[Term(bank_at(n))] = terminal(img[Intent(bank_at(n))], d)

Successor(img, n) == img[Intent(prospective(n))]
Pending(img, n) == Whole(Successor(img, n), n + 1)

Other(img, n) ==
  LET t == img[Term(prospective(n))]
      i == Successor(img, n)
  IN  /\ \/ t = Torn
         \/ /\ t.k = "TERM" /\ terminal_decode(t, prospective(n))
            /\ t.seq = (IF n = 0 THEN 0 ELSE n - 1)
      /\ i = Zero \/ i = Torn \/ (n > 1 /\ Whole(i, n - 1)) \/ (n < MaxSequence /\ Whole(i, n + 1))

-----------------------------------------------------------------------------
(* The blocks and pages: what they are unless the pending INTENT has hit.  *)

Eff(img, n, b) ==
  IF Pending(img, n) /\ Successor(img, n).block = b THEN Successor(img, n).base ELSE img[Blk(b)]

Range(i) == i.first .. i.first + i.count - 1
Covers(i, b, p) == i.kind = "PROGRAM" /\ i.block = b /\ p \in Range(i)
Held(img, n, b, p) == Pending(img, n) /\ Covers(Successor(img, n), b, p)

PageOK(b, r, h, p, n) ==
  IF p < b.next
  THEN /\ r \in PageRecord /\ r.gen = b.gen /\ r.seq \in 1 .. n
       /\ r.state = "UNKNOWN" \/ h = Data(r.data)
  ELSE r = Zero \/ (r \in PageRecord /\ r.gen < b.gen /\ r.seq \in 1 .. n)

BlockOK(img, n, b) ==
  /\ Eff(img, n, b) \in BlockRecord /\ block_decode(Eff(img, n, b), n)
  /\ \A p \in Pages :
       Held(img, n, b, p) \/ PageOK(Eff(img, n, b), img[Rec(b, p)], img[Home(b, p)], p, n)

\* The transaction of n is still what its terminal says.
Traced(img, n) ==
  LET i == img[Intent(bank_at(n))]
      t == img[Term(bank_at(n))]
  IN  n # 0 =>
        /\ block_after(i, t, Eff(img, n, i.block))
        /\ i.kind = "PROGRAM" =>
             \A p \in Range(i) :
               LET r == img[Rec(i.block, p)]
               IN  /\ r.seq = n
                   /\ IF t.disp = "ABORT" THEN r.state = "UNKNOWN"
                      ELSE r.state # "UNKNOWN" /\ (i.count > 1 => r.state = "VALID")

Good(img, n) ==
  Newest(img, n) /\ Other(img, n) /\ (\A b \in Blocks : BlockOK(img, n, b)) /\ Traced(img, n)

Cell(b, r, p) ==
  IF p < b.prefix THEN C!TornCell
  ELSE IF p >= b.next THEN C!Erased
  ELSE IF r.state = "UNKNOWN" THEN C!TornCell
  ELSE [state |-> r.state, data |-> r.data]

Face(gen, attempts, next, bad, prefix, cell) ==
  [gen |-> gen, attempts |-> attempts, next |-> next, bad |-> bad, prefix |-> prefix, cell |-> cell]
ShownBlock(img, e, b) ==
  Face(e.gen, e.attempts, e.next, e.bad, e.prefix, [p \in Pages |-> Cell(e, img[Rec(b, p)], p)])
Shown(img, n) == [b \in Blocks |-> ShownBlock(img, Eff(img, n, b), b)]

-----------------------------------------------------------------------------
(* The image and the callers.                                              *)

Matches(i, o) ==
  /\ o \in C!Ops
  /\ o.kind = i.kind /\ o.block = i.block /\ o.first = i.first /\ o.count = i.count
  /\ o.kind = "PROGRAM" /\ o.count > 1 => o.state = "VALID"

Related(img, n, k, o) ==
  IF Pending(img, n) THEN Shown(img, n) = k /\ Matches(Successor(img, n), o)
  ELSE \/ Shown(img, n) = k
       \/ o # C!NoOp /\ Shown(img, n) \in {C!CommitOp(k, o), C!AbortOp(k, o)}

Formatted(img) == \A q \in Banks : img[Super(q)].k = "SUPER"
Fine(img, k, o) == Formatted(img) => \E n \in 0 .. MaxSequence : Good(img, n) /\ Related(img, n, k, o)

\* The images a crash leaves of d durable and c written.
Choices(d, c) == [{r \in Region : c[r] # d[r]} -> {"old", "new", "torn"}]
Left(d, c, f) ==
  [r \in Region |-> IF r \notin DOMAIN f THEN d[r]
                    ELSE CASE f[r] = "new" -> c[r]
                           [] f[r] = "torn" -> Torn
                           [] OTHER -> d[r]]
Crashable(d, c, k, o) == \A f \in Choices(d, c) : Fine(Left(d, c, f), k, o)

-----------------------------------------------------------------------------
(* Where the engine is.                                                    *)

\* The regions a mutation may write between its INTENT and its terminal.
Touches(i) ==
  {Blk(i.block)} \cup (IF i.kind = "PROGRAM"
                       THEN {Rec(i.block, p) : p \in Range(i)} \cup {Home(i.block, p) : p \in Range(i)}
                       ELSE {})

AgreeBut(img, base, S) == \A r \in Region \ S : img[r] = base[r]

after_block(i, o, d) ==
  IF d = "COMMIT" /\ o.kind = "ERASE" /\ o.state = "VALID" /\ o.count = PPB
  THEN clean_block(i) ELSE abort_block(i)

\* The image holds the outcome d of INTENT i for mutation o.
Outcome(img, i, o, d) ==
  /\ img[Blk(i.block)] = after_block(i, o, d)
  /\ i.kind = "PROGRAM" =>
       \A p \in Range(i) :
         IF d = "COMMIT"
         THEN /\ img[Rec(i.block, p)] = page_encode(i.base.gen, o.state, i.seq, o.data)
              /\ img[Home(i.block, p)] = Data(o.data)
         ELSE img[Rec(i.block, p)] = page_encode(i.base.gen, "UNKNOWN", i.seq, 0)

Idle(img, n, k) == Good(img, n) /\ ~Pending(img, n) /\ Shown(img, n) = k

Underway(img, n, k, o) ==
  Good(img, n) /\ Pending(img, n) /\ Shown(img, n) = k /\ Matches(Successor(img, n), o)

Calm == known = C!Fresh /\ op = C!NoOp /\ sequence = 0

\* disk and cache between the writes of a mutation (d is what they lead to).
Writing(d) ==
  /\ Formatted(disk) /\ Underway(disk, sequence, known, op) /\ cur = Successor(disk, sequence)
  /\ AgreeBut(cache, disk, Touches(cur)) /\ Outcome(cache, cur, op, d)

Deciding(d) ==
  /\ Formatted(disk) /\ Underway(disk, sequence, known, op) /\ cur = Successor(disk, sequence)
  /\ Outcome(disk, cur, op, d)
  /\ AgreeBut(cache, disk, {Term(bank_at(cur.seq))})
  /\ cache[Term(bank_at(cur.seq))] = terminal(cur, d)

Stage ==
  /\ pc = "empty" => Calm /\ disk = [r \in Region |-> Zero] /\ cache = disk
  /\ pc = "format_body" => /\ Calm /\ Idle(cache, 0, known)
                           /\ \A q \in Banks : disk[Super(q)] = Zero /\ cache[Super(q)] = Zero
  /\ pc = "format_super" => /\ Calm /\ Idle(disk, 0, known) /\ Formatted(cache)
                            /\ AgreeBut(cache, disk, {Super(q) : q \in Banks})
  /\ pc = "ready" => cache = disk /\ Formatted(disk) /\ Idle(disk, sequence, known) /\ op = C!NoOp
  /\ pc = "intent" => /\ Formatted(disk) /\ Idle(disk, sequence, known)
                      /\ Underway(cache, sequence, known, op)
                      /\ cur = Successor(cache, sequence)
                      /\ AgreeBut(cache, disk, {Intent(prospective(sequence))})
  /\ pc = "homes" => Writing("COMMIT")
  /\ pc = "terminal" => Deciding("COMMIT")
  /\ pc = "abort_homes" => Writing("ABORT")
  /\ pc = "abort_terminal" => Deciding("ABORT")
  /\ pc = "down" => cache = disk /\ Fine(disk, known, op)
  /\ pc = "refused" => ~Formatted(disk)
  /\ pc \notin {"empty", "down", "refused"} => Crashable(disk, cache, known, op)

Typed ==
  /\ set \in Settings
  /\ disk = [r \in Region |-> disk[r]] /\ cache = [r \in Region |-> cache[r]]
  /\ pc \in Running \cup {"empty", "ready", "quarantined", "down", "refused"}
  /\ sequence \in 0 .. MaxSequence
  /\ DOMAIN known = Blocks

NandInv == Typed /\ Stage

-----------------------------------------------------------------------------
\* A leaf is left to Zenon unless it names the SMT solver.
USE ZenonT(60)

\* Neighbouring sequence numbers use different banks.
LEMMA BankFlip ==
  ASSUME NEW n \in Nat
  PROVE /\ bank_at(n) \in Banks /\ prospective(n) \in Banks
        /\ prospective(n) = bank_at(n + 1) /\ bank_at(n) # prospective(n)
        /\ prospective(n + 1) = bank_at(n) /\ bank_at(n + 2) = bank_at(n)
BY SMTT(60) DEF bank_at, prospective, Banks

\* The regions of the image do not overlap.
LEMMA BankRegions ==
  ASSUME NEW q \in Banks
  PROVE /\ Super(q) \in Region /\ Intent(q) \in Region /\ Term(q) \in Region
        /\ \A z \in Banks : /\ Intent(q) = Intent(z) => q = z
                            /\ Term(q) = Term(z) => q = z
                            /\ Super(q) # Intent(z) /\ Super(q) # Term(z) /\ Intent(q) # Term(z)
        /\ \A b \in Blocks : Blk(b) # Super(q) /\ Blk(b) # Intent(q) /\ Blk(b) # Term(q)
        /\ \A b \in Blocks, p \in Pages :
             /\ Rec(b, p) # Super(q) /\ Rec(b, p) # Intent(q) /\ Rec(b, p) # Term(q)
             /\ Home(b, p) # Super(q) /\ Home(b, p) # Intent(q) /\ Home(b, p) # Term(q)
BY SMTT(60) DEF Super, Intent, Term, Blk, Rec, Home, Region

\* The block record, page records and homes have regions of their own.
LEMMA BlockRegions ==
  ASSUME NEW b \in Blocks
  PROVE /\ Blk(b) \in Region
        /\ \A z \in Blocks : Blk(b) = Blk(z) => b = z
        /\ \A p \in Pages : Rec(b, p) \in Region /\ Home(b, p) \in Region
        /\ \A z \in Blocks, p \in Pages : Blk(z) # Rec(b, p) /\ Blk(z) # Home(b, p)
        /\ \A z \in Blocks, p, y \in Pages : /\ Rec(b, p) = Rec(z, y) => b = z /\ p = y
                                             /\ Home(b, p) = Home(z, y) => b = z /\ p = y
                                             /\ Rec(b, p) # Home(z, y)
BY SMTT(60) DEF Blk, Rec, Home, Region

\* Images that differ in one record of the log, in the superblocks, or in what
\* a mutation writes.
LEMMA ButIntent ==
  ASSUME NEW img, NEW base, NEW q \in Banks, AgreeBut(img, base, {Intent(q)})
  PROVE /\ \A z \in Banks : /\ img[Super(z)] = base[Super(z)] /\ img[Term(z)] = base[Term(z)]
                            /\ z # q => img[Intent(z)] = base[Intent(z)]
        /\ \A b \in Blocks : img[Blk(b)] = base[Blk(b)]
        /\ \A b \in Blocks, p \in Pages : /\ img[Rec(b, p)] = base[Rec(b, p)]
                                          /\ img[Home(b, p)] = base[Home(b, p)]
BY BankRegions, BlockRegions DEF AgreeBut

\* A terminal that changed leaves every other record as it was.
LEMMA ButTerm ==
  ASSUME NEW img, NEW base, NEW q \in Banks, AgreeBut(img, base, {Term(q)})
  PROVE /\ \A z \in Banks : /\ img[Super(z)] = base[Super(z)] /\ img[Intent(z)] = base[Intent(z)]
                            /\ z # q => img[Term(z)] = base[Term(z)]
        /\ \A b \in Blocks : img[Blk(b)] = base[Blk(b)]
        /\ \A b \in Blocks, p \in Pages : /\ img[Rec(b, p)] = base[Rec(b, p)]
                                          /\ img[Home(b, p)] = base[Home(b, p)]
BY BankRegions, BlockRegions DEF AgreeBut

\* Superblocks that changed leave every other record as it was.
LEMMA ButSuper ==
  ASSUME NEW img, NEW base, AgreeBut(img, base, {Super(q) : q \in Banks})
  PROVE /\ \A z \in Banks : img[Intent(z)] = base[Intent(z)] /\ img[Term(z)] = base[Term(z)]
        /\ \A b \in Blocks : img[Blk(b)] = base[Blk(b)]
        /\ \A b \in Blocks, p \in Pages : /\ img[Rec(b, p)] = base[Rec(b, p)]
                                          /\ img[Home(b, p)] = base[Home(b, p)]
<1>1. ASSUME NEW r \in Region, \A q \in Banks : r # Super(q)
      PROVE img[r] = base[r]
  BY <1>1 DEF AgreeBut
<1>2. ASSUME NEW z \in Banks
      PROVE img[Intent(z)] = base[Intent(z)] /\ img[Term(z)] = base[Term(z)]
  BY <1>1, BankRegions
<1>3. ASSUME NEW b \in Blocks
      PROVE img[Blk(b)] = base[Blk(b)]
  BY <1>1, BankRegions, BlockRegions
<1>4. ASSUME NEW b \in Blocks, NEW p \in Pages
      PROVE img[Rec(b, p)] = base[Rec(b, p)] /\ img[Home(b, p)] = base[Home(b, p)]
  BY <1>1, BankRegions, BlockRegions
<1> QED BY <1>2, <1>3, <1>4

\* What a whole INTENT says.
LEMMA WholeIntent ==
  ASSUME NEW i, NEW m \in Nat, Whole(i, m)
  PROVE /\ i \in IntentRecord /\ i.k = "INTENT" /\ i.seq = m /\ m # 0
        /\ i.block \in Blocks /\ i.first \in Nat /\ i.count \in Nat
        /\ i.kind \in {"PROGRAM", "ERASE", "MARK_BAD"}
        /\ i.base \in BlockRecord /\ ~i.base.bad /\ block_decode(i.base, m - 1)
        /\ i.kind = "PROGRAM" => /\ i.base.prefix = 0 /\ i.first = i.base.next
                                 /\ i.count > 0 /\ i.first + i.count <= PPB
        /\ i.kind = "ERASE" => i.first = 0 /\ i.count \in 1 .. PPB
        /\ i.kind = "MARK_BAD" => i.first = 0 /\ i.count = 0
<1>1. /\ i \in IntentRecord /\ i.seq = m /\ i.seq # 0 /\ block_decode(i.base, i.seq - 1) /\ ~i.base.bad
      /\ \/ /\ i.kind = "PROGRAM" /\ i.base.prefix = 0
            /\ i.first = i.base.next /\ i.count > 0 /\ i.first + i.count <= PPB
         \/ i.kind = "ERASE" /\ i.base.attempts < MaxErase /\ i.first = 0 /\ i.count \in 1 .. PPB
         \/ i.kind = "MARK_BAD" /\ i.first = 0 /\ i.count = 0
  BY DEF Whole, intent_decode
<1>2. /\ i.k = "INTENT" /\ i.block \in Blocks /\ i.first \in Nat /\ i.count \in Nat
      /\ i.kind \in {"PROGRAM", "ERASE", "MARK_BAD"} /\ i.base \in BlockRecord
  BY <1>1, SMTT(60) DEF IntentRecord
<1> QED BY <1>1, <1>2, SMTT(60)

\* A program reserves pages of its block, at the frontier or past it.
LEMMA RangePages ==
  ASSUME NEW i, NEW m \in Nat, Whole(i, m), i.kind = "PROGRAM"
  PROVE Range(i) \subseteq Pages /\ \A p \in Range(i) : p \in Pages /\ p >= i.base.next
<1>1. /\ i.first \in Nat /\ i.count \in Nat /\ i.first + i.count <= PPB /\ i.first = i.base.next
  BY WholeIntent
<1>2. PPB \in Nat
  BY NandConstants
<1> QED BY <1>1, <1>2, SMTT(60) DEF Range, Pages

\* The writes of a mutation leave the log, the other blocks and the pages
\* outside its range as they were.
LEMMA ButTouches ==
  ASSUME NEW img, NEW base, NEW i, NEW m \in Nat, Whole(i, m), AgreeBut(img, base, Touches(i))
  PROVE /\ \A z \in Banks : /\ img[Super(z)] = base[Super(z)]
                            /\ img[Intent(z)] = base[Intent(z)] /\ img[Term(z)] = base[Term(z)]
        /\ \A b \in Blocks \ {i.block} : img[Blk(b)] = base[Blk(b)]
        /\ \A b \in Blocks, p \in Pages :
             Covers(i, b, p) \/ (img[Rec(b, p)] = base[Rec(b, p)] /\ img[Home(b, p)] = base[Home(b, p)])
<1>1. i.block \in Blocks
  BY WholeIntent
<1>2. i.kind = "PROGRAM" => \A p \in Range(i) : p \in Pages
  BY RangePages
<1>3. ASSUME NEW r \in Region, r # Blk(i.block),
             i.kind = "PROGRAM" => \A p \in Range(i) : r # Rec(i.block, p) /\ r # Home(i.block, p)
      PROVE img[r] = base[r]
  <2>1. r \notin Touches(i)
    BY <1>3 DEF Touches
  <2> QED BY <2>1 DEF AgreeBut
<1>4. ASSUME NEW z \in Banks
      PROVE img[Super(z)] = base[Super(z)] /\ img[Intent(z)] = base[Intent(z)] /\ img[Term(z)] = base[Term(z)]
  BY <1>1, <1>2, <1>3, BankRegions
<1>5. ASSUME NEW b \in Blocks \ {i.block}
      PROVE img[Blk(b)] = base[Blk(b)]
  <2>1. Blk(b) \in Region /\ Blk(b) # Blk(i.block)
    BY <1>1, BlockRegions
  <2>2. i.kind = "PROGRAM" => \A p \in Range(i) : Blk(b) # Rec(i.block, p) /\ Blk(b) # Home(i.block, p)
    BY <1>1, <1>2, BlockRegions
  <2> QED BY <1>3, <2>1, <2>2
<1>6. ASSUME NEW b \in Blocks, NEW p \in Pages, ~Covers(i, b, p)
      PROVE img[Rec(b, p)] = base[Rec(b, p)] /\ img[Home(b, p)] = base[Home(b, p)]
  <2>1. i.kind = "PROGRAM" => \A y \in Range(i) : y \in Pages /\ (b # i.block \/ p # y)
    BY <1>2, <1>6 DEF Covers
  <2>2. /\ Rec(b, p) \in Region /\ Home(b, p) \in Region
        /\ Rec(b, p) # Blk(i.block) /\ Home(b, p) # Blk(i.block)
    BY <1>1, BlockRegions
  <2>3. i.kind = "PROGRAM" =>
          \A y \in Range(i) : /\ Rec(b, p) # Rec(i.block, y) /\ Rec(b, p) # Home(i.block, y)
                              /\ Home(b, p) # Rec(i.block, y) /\ Home(b, p) # Home(i.block, y)
    BY <1>1, <2>1, BlockRegions, SMTT(60)
  <2> QED BY <1>3, <2>2, <2>3
<1> QED BY <1>4, <1>5, <1>6

\* abort_block and clean_block, field by field.
LEMMA AbortBlock ==
  ASSUME NEW i, NEW m \in Nat, Whole(i, m)
  PROVE LET a == abort_block(i)
        IN  /\ a \in BlockRecord /\ a.seq = m /\ a.gen = i.base.gen
            /\ i.kind = "PROGRAM" => /\ a.next = i.first + i.count /\ a.attempts = i.base.attempts
                                     /\ a.prefix = i.base.prefix /\ a.bad = i.base.bad
            /\ i.kind = "ERASE" => /\ a.next = i.base.next /\ a.attempts = i.base.attempts + 1
                                   /\ a.prefix = Max(i.base.prefix, i.count) /\ a.bad = i.base.bad
            /\ i.kind = "MARK_BAD" => /\ a.next = i.base.next /\ a.attempts = i.base.attempts
                                      /\ a.prefix = i.base.prefix /\ a.bad = TRUE
<1> DEFINE b == i.base
<1>1. /\ b \in BlockRecord /\ i.seq = m /\ i.first \in Nat /\ i.count \in Nat
      /\ i.kind \in {"PROGRAM", "ERASE", "MARK_BAD"}
  BY WholeIntent
<1>2. /\ Max(b.prefix, i.count) \in Nat /\ b.attempts + 1 \in Nat /\ i.first + i.count \in Nat
      /\ m \in Nat /\ TRUE \in BOOLEAN
  BY <1>1, SMTT(60) DEF Max, BlockRecord
<1>3. CASE i.kind = "PROGRAM"
  <2>1. abort_block(i) = [b EXCEPT !.seq = i.seq, !.next = i.first + i.count]
    BY <1>3 DEF abort_block
  <2>2. abort_block(i) \in BlockRecord
    BY <1>1, <1>2, <2>1 DEF BlockRecord
  <2>3. /\ abort_block(i).seq = m /\ abort_block(i).gen = b.gen
        /\ abort_block(i).next = i.first + i.count
        /\ abort_block(i).attempts = b.attempts
        /\ abort_block(i).prefix = b.prefix
        /\ abort_block(i).bad = b.bad
    BY <1>1, <2>1, SMTT(60) DEF BlockRecord
  <2> QED BY <1>3, <2>2, <2>3
<1>4. CASE i.kind = "ERASE"
  <2>1. abort_block(i) = [b EXCEPT !.seq = i.seq, !.attempts = @ + 1, !.prefix = Max(@, i.count)]
    BY <1>4 DEF abort_block
  <2>2. abort_block(i) \in BlockRecord
    BY <1>1, <1>2, <2>1 DEF BlockRecord
  <2>3. /\ abort_block(i).seq = m /\ abort_block(i).gen = b.gen
        /\ abort_block(i).next = b.next
        /\ abort_block(i).attempts = b.attempts + 1
        /\ abort_block(i).prefix = Max(b.prefix, i.count)
        /\ abort_block(i).bad = b.bad
    BY <1>1, <2>1, SMTT(60) DEF BlockRecord
  <2> QED BY <1>4, <2>2, <2>3
<1>5. CASE i.kind = "MARK_BAD"
  <2>1. abort_block(i) = [b EXCEPT !.seq = i.seq, !.bad = TRUE]
    BY <1>5 DEF abort_block
  <2>2. abort_block(i) \in BlockRecord
    BY <1>1, <1>2, <2>1 DEF BlockRecord
  <2>3. /\ abort_block(i).seq = m /\ abort_block(i).gen = b.gen
        /\ abort_block(i).next = b.next
        /\ abort_block(i).attempts = b.attempts
        /\ abort_block(i).prefix = b.prefix
        /\ abort_block(i).bad = TRUE
    BY <1>1, <2>1, SMTT(60) DEF BlockRecord
  <2> QED BY <1>5, <2>2, <2>3
<1> QED BY <1>1, <1>3, <1>4, <1>5

\* The block record of a full erase.
LEMMA CleanBlock ==
  ASSUME NEW i, NEW m \in Nat, Whole(i, m)
  PROVE LET a == clean_block(i)
        IN  /\ a \in BlockRecord /\ a.seq = m /\ a.gen = i.base.gen + 1
            /\ a.attempts = i.base.attempts + 1 /\ a.next = 0 /\ a.prefix = 0 /\ a.bad = FALSE
<1>1. i.base \in BlockRecord /\ i.seq = m /\ ~i.base.bad
  BY WholeIntent
<1> DEFINE a == clean_block(i)
<1>2. i.base.attempts + 1 \in Nat /\ i.base.gen + 1 \in Nat /\ 0 \in Nat
  BY <1>1, SMTT(60) DEF BlockRecord
<1>3. a \in BlockRecord
  BY <1>1, <1>2 DEF BlockRecord, clean_block
<1>4. /\ a.seq = m /\ a.gen = i.base.gen + 1 /\ a.attempts = i.base.attempts + 1
      /\ a.next = 0 /\ a.prefix = 0 /\ a.bad = i.base.bad
  BY <1>1, SMTT(60) DEF BlockRecord, clean_block
<1>5. i.base.bad \in BOOLEAN
  BY <1>1, SMTT(60) DEF BlockRecord
<1> QED BY <1>1, <1>3, <1>4, <1>5

\* Both decode, as records of their own sequence number.
LEMMA BlocksDecode ==
  ASSUME NEW i, NEW m \in Nat, Whole(i, m)
  PROVE block_decode(abort_block(i), m) /\ block_decode(clean_block(i), m)
<1> DEFINE b == i.base
           a == abort_block(i)
           c == clean_block(i)
<1>1. /\ b \in BlockRecord /\ block_decode(b, m - 1) /\ m # 0
      /\ i.first \in Nat /\ i.count \in Nat /\ i.kind \in {"PROGRAM", "ERASE", "MARK_BAD"}
      /\ i.kind = "PROGRAM" => i.first + i.count <= PPB
      /\ i.kind = "ERASE" => i.count \in 1 .. PPB
  BY WholeIntent
<1>2. /\ b.gen \in Nat /\ b.attempts \in Nat /\ b.next \in Nat /\ b.prefix \in Nat
      /\ b.gen <= b.attempts /\ b.next <= PPB /\ b.prefix <= PPB
  BY <1>1, SMTT(60) DEF BlockRecord, block_decode
<1>3. PPB \in Nat
  BY NandConstants
<1>4. /\ a.k = "BLOCK" /\ a.seq = m /\ a.gen <= a.attempts /\ a.next <= PPB /\ a.prefix <= PPB
  <2>1. a \in BlockRecord /\ a.seq = m /\ a.gen = b.gen
    BY AbortBlock
  <2>2. a.k = "BLOCK"
    BY <2>1, SMTT(60) DEF BlockRecord
  <2>3. CASE i.kind = "PROGRAM"
    <3>1. a.next = i.first + i.count /\ a.attempts = b.attempts /\ a.prefix = b.prefix
      BY <2>3, AbortBlock
    <3> QED BY <1>1, <1>2, <2>1, <2>2, <2>3, <3>1, SMTT(60)
  <2>4. CASE i.kind = "ERASE"
    <3>1. a.next = b.next /\ a.attempts = b.attempts + 1 /\ a.prefix = Max(b.prefix, i.count)
      BY <2>4, AbortBlock
    <3> QED BY <1>1, <1>2, <1>3, <2>1, <2>2, <2>4, <3>1, SMTT(60) DEF Max
  <2>5. CASE i.kind = "MARK_BAD"
    <3>1. a.next = b.next /\ a.attempts = b.attempts /\ a.prefix = b.prefix
      BY <2>5, AbortBlock
    <3> QED BY <1>1, <1>2, <2>1, <2>2, <2>5, <3>1, SMTT(60)
  <2> QED BY <1>1, <2>3, <2>4, <2>5
<1>5. c.k = "BLOCK" /\ c.seq = m /\ c.gen <= c.attempts /\ c.next <= PPB /\ c.prefix <= PPB
  <2>1. c \in BlockRecord /\ c.seq = m /\ c.gen = b.gen + 1 /\ c.attempts = b.attempts + 1 /\ c.next = 0 /\ c.prefix = 0
    BY CleanBlock
  <2>2. c.k = "BLOCK"
    BY <2>1, SMTT(60) DEF BlockRecord
  <2> QED BY <1>2, <1>3, <2>1, <2>2, SMTT(60)
<1> QED BY <1>1, <1>4, <1>5, SMTT(60) DEF block_decode

\* The reserved pages lie past the program frontier.
LEMMA HeldHigh ==
  ASSUME NEW img, NEW n \in Nat, NEW b \in Blocks, NEW p \in Pages, Held(img, n, b, p)
  PROVE p >= Eff(img, n, b).next /\ Eff(img, n, b).prefix = 0
<1> DEFINE i == Successor(img, n)
<1>1. Whole(i, n + 1) /\ i.block = b /\ i.kind = "PROGRAM" /\ p \in Range(i)
  BY DEF Held, Pending, Covers
<1>2. Eff(img, n, b) = i.base
  BY <1>1 DEF Eff, Pending
<1>3. n + 1 \in Nat
  BY SMT
<1> QED BY <1>1, <1>2, <1>3, RangePages, WholeIntent

\* The pages of the newest transaction lie before it.
LEMMA TracedLow ==
  ASSUME NEW img, NEW n \in Nat, Newest(img, n), Traced(img, n), n # 0,
         img[Intent(bank_at(n))].kind = "PROGRAM", NEW p \in Range(img[Intent(bank_at(n))])
  PROVE LET i == img[Intent(bank_at(n))]
        IN  /\ i.block \in Blocks /\ p \in Pages /\ p < Eff(img, n, i.block).next
            /\ Eff(img, n, i.block).gen = i.base.gen
<1> DEFINE i == img[Intent(bank_at(n))]
<1>1. Whole(i, n)
  BY DEF Newest
<1>2. Eff(img, n, i.block) = abort_block(i)
  BY DEF Traced, block_after
<1>3. i.block \in Blocks /\ p \in Pages /\ i.first \in Nat /\ i.count \in Nat
  BY <1>1, WholeIntent, RangePages
<1>4. p < i.first + i.count
  BY <1>3, SMTT(60) DEF Range
<1> QED BY <1>1, <1>2, <1>3, <1>4, AbortBlock

\* An image that keeps the newest transaction, the effective block records and
\* every page outside the reserved range is as good, and shows the same.
LEMMA Carry ==
  ASSUME NEW img, NEW base, NEW n \in Nat, Good(base, n), Other(img, n),
         img[Term(bank_at(n))] = base[Term(bank_at(n))],
         img[Intent(bank_at(n))] = base[Intent(bank_at(n))],
         \A b \in Blocks : Eff(img, n, b) = Eff(base, n, b),
         \A b \in Blocks, p \in Pages :
           \/ Held(img, n, b, p)
           \/ /\ ~Held(base, n, b, p)
              /\ img[Rec(b, p)] = base[Rec(b, p)] /\ img[Home(b, p)] = base[Home(b, p)]
  PROVE Good(img, n) /\ Shown(img, n) = Shown(base, n)
<1>1. Newest(img, n)
  <2>1. CASE n = 0
    <3>1. bank_at(n) = 0
      BY <2>1, SMTT(60) DEF bank_at
    <3> QED BY <2>1, <3>1 DEF Good, Newest
  <2>2. CASE n # 0
    BY <2>2 DEF Good, Newest
  <2> QED BY <2>1, <2>2
<1>2. ASSUME NEW b \in Blocks
      PROVE BlockOK(img, n, b)
  BY DEF Good, BlockOK
<1>3. Traced(img, n)
  <2> DEFINE i == img[Intent(bank_at(n))]
             t == img[Term(bank_at(n))]
  <2> SUFFICES ASSUME n # 0
               PROVE /\ block_after(i, t, Eff(img, n, i.block))
                     /\ i.kind = "PROGRAM" =>
                          \A p \in Range(i) :
                            LET r == img[Rec(i.block, p)]
                            IN  /\ r.seq = n
                                /\ IF t.disp = "ABORT" THEN r.state = "UNKNOWN"
                                   ELSE r.state # "UNKNOWN" /\ (i.count > 1 => r.state = "VALID")
    BY DEF Traced
  <2>1. i.block \in Blocks
    <3>1. Whole(i, n)
      BY <1>1 DEF Newest
    <3> QED BY <3>1, WholeIntent
  <2>2. block_after(i, t, Eff(img, n, i.block))
    BY <2>1 DEF Good, Traced
  <2>3. ASSUME i.kind = "PROGRAM", NEW p \in Range(i)
        PROVE p \in Pages /\ img[Rec(i.block, p)] = base[Rec(i.block, p)]
    <3>1. p \in Pages /\ p < Eff(base, n, i.block).next
      BY <2>3, TracedLow DEF Good
    <3>2. Eff(img, n, i.block) = Eff(base, n, i.block) /\ Eff(base, n, i.block) \in BlockRecord
      BY <2>1 DEF Good, BlockOK
    <3>3. ~Held(img, n, i.block, p)
      <4>1. SUFFICES ASSUME Held(img, n, i.block, p) PROVE FALSE
        OBVIOUS
      <4>2. p >= Eff(img, n, i.block).next
        BY <2>1, <3>1, <4>1, HeldHigh
      <4>3. p \in Nat /\ Eff(base, n, i.block).next \in Nat
        BY <3>1, <3>2, NandConstants, SMTT(60) DEF Pages, BlockRecord
      <4> QED BY <3>1, <3>2, <4>2, <4>3, SMTT(60)
    <3> QED BY <2>1, <3>1, <3>3
  <2>4. ASSUME i.kind = "PROGRAM", NEW p \in Range(i)
        PROVE LET r == img[Rec(i.block, p)]
              IN  /\ r.seq = n
                  /\ IF t.disp = "ABORT" THEN r.state = "UNKNOWN"
                     ELSE r.state # "UNKNOWN" /\ (i.count > 1 => r.state = "VALID")
    BY <2>3, <2>4, SMTT(60) DEF Good, Traced
  <2> QED BY <2>2, <2>4
<1>4. ASSUME NEW b \in Blocks, NEW p \in Pages
      PROVE Cell(Eff(img, n, b), img[Rec(b, p)], p) = Cell(Eff(base, n, b), base[Rec(b, p)], p)
  <2>1. Eff(img, n, b) = Eff(base, n, b)
    OBVIOUS
  <2>2. CASE Held(img, n, b, p)
    <3>1. p >= Eff(base, n, b).next
      BY <2>1, <2>2, HeldHigh
    <3> QED BY <2>1, <3>1 DEF Cell
  <2>3. CASE ~Held(img, n, b, p)
    BY <2>1, <2>3
  <2> QED BY <2>2, <2>3
<1>5. Shown(img, n) = Shown(base, n)
  <2>1. ASSUME NEW b \in Blocks
        PROVE ShownBlock(img, Eff(img, n, b), b) = ShownBlock(base, Eff(base, n, b), b)
    BY <1>4 DEF ShownBlock
  <2> QED BY <2>1 DEF Shown
<1> QED BY <1>1, <1>2, <1>3, <1>5 DEF Good

\* The superblocks say nothing about the rest.
LEMMA OverSuper ==
  ASSUME NEW img, NEW base, NEW n \in Nat, AgreeBut(img, base, {Super(q) : q \in Banks}),
         Good(base, n)
  PROVE Good(img, n) /\ Shown(img, n) = Shown(base, n) /\ (Pending(img, n) <=> Pending(base, n))
<1>1. bank_at(n) \in Banks /\ prospective(n) \in Banks
  BY BankFlip
<1>2. Successor(img, n) = Successor(base, n) /\ img[Term(prospective(n))] = base[Term(prospective(n))]
  BY <1>1, ButSuper DEF Successor
<1>3. Pending(img, n) <=> Pending(base, n)
  BY <1>2 DEF Pending
<1>4. Other(img, n)
  BY <1>2 DEF Good, Other
<1>5. \A b \in Blocks : Eff(img, n, b) = Eff(base, n, b)
  BY <1>2, <1>3, ButSuper DEF Eff
<1>6. \A b \in Blocks, p \in Pages : Held(img, n, b, p) <=> Held(base, n, b, p)
  BY <1>2, <1>3 DEF Held
<1>7. \A b \in Blocks, p \in Pages :
           \/ Held(img, n, b, p)
           \/ /\ ~Held(base, n, b, p)
              /\ img[Rec(b, p)] = base[Rec(b, p)] /\ img[Home(b, p)] = base[Home(b, p)]
  BY <1>6, ButSuper, SMTT(60)
<1>8. /\ img[Term(bank_at(n))] = base[Term(bank_at(n))]
      /\ img[Intent(bank_at(n))] = base[Intent(bank_at(n))]
  BY <1>1, ButSuper
<1> QED BY <1>3, <1>4, <1>5, <1>7, <1>8, Carry

\* An INTENT that did not survive changes nothing.
LEMMA OverTornIntent ==
  ASSUME NEW img, NEW base, NEW n \in Nat, AgreeBut(img, base, {Intent(prospective(n))}),
         Good(base, n), ~Pending(base, n), img[Intent(prospective(n))] = Torn
  PROVE Good(img, n) /\ Shown(img, n) = Shown(base, n) /\ ~Pending(img, n)
<1>1. bank_at(n) \in Banks /\ prospective(n) \in Banks /\ bank_at(n) # prospective(n)
  BY BankFlip
<1>2. ~Pending(img, n)
  <2>1. Torn \notin IntentRecord
    BY SMTT(60) DEF Torn, IntentRecord
  <2> QED BY <2>1 DEF Pending, Whole, Successor
<1>3. Other(img, n)
  BY <1>1, ButIntent, SMTT(60) DEF Good, Other, Successor
<1>4. \A b \in Blocks : Eff(img, n, b) = Eff(base, n, b)
  BY <1>1, <1>2, ButIntent, SMTT(60) DEF Eff
<1>5. \A b \in Blocks, p \in Pages :
           \/ Held(img, n, b, p)
           \/ /\ ~Held(base, n, b, p)
              /\ img[Rec(b, p)] = base[Rec(b, p)] /\ img[Home(b, p)] = base[Home(b, p)]
  BY <1>1, ButIntent, SMTT(60) DEF Held
<1>6. /\ img[Term(bank_at(n))] = base[Term(bank_at(n))]
      /\ img[Intent(bank_at(n))] = base[Intent(bank_at(n))]
  BY <1>1, ButIntent, SMTT(60)
<1> QED BY <1>2, <1>3, <1>4, <1>5, <1>6, Carry

\* A whole INTENT reserves its range and changes nothing else.
LEMMA OverIntent ==
  ASSUME NEW img, NEW base, NEW n \in Nat, AgreeBut(img, base, {Intent(prospective(n))}),
         Good(base, n), ~Pending(base, n), n < MaxSequence, Whole(Successor(img, n), n + 1),
         Successor(img, n).base = base[Blk(Successor(img, n).block)]
  PROVE Good(img, n) /\ Shown(img, n) = Shown(base, n) /\ Pending(img, n)
<1>1. bank_at(n) \in Banks /\ prospective(n) \in Banks /\ bank_at(n) # prospective(n)
  BY BankFlip
<1>2. Pending(img, n)
  BY DEF Pending
<1>3. Other(img, n)
  BY <1>1, ButIntent, SMTT(60) DEF Good, Other
<1>4. \A b \in Blocks : Eff(img, n, b) = Eff(base, n, b)
  BY <1>1, <1>2, ButIntent, SMTT(60) DEF Eff
<1>5. \A b \in Blocks, p \in Pages :
           \/ Held(img, n, b, p)
           \/ /\ ~Held(base, n, b, p)
              /\ img[Rec(b, p)] = base[Rec(b, p)] /\ img[Home(b, p)] = base[Home(b, p)]
  <2>1. \A b \in Blocks, p \in Pages : ~Held(base, n, b, p)
    BY DEF Held
  <2>2. \A b \in Blocks, p \in Pages : img[Rec(b, p)] = base[Rec(b, p)] /\ img[Home(b, p)] = base[Home(b, p)]
    BY <1>1, ButIntent, SMTT(60)
  <2> QED BY <2>1, <2>2
<1>6. /\ img[Term(bank_at(n))] = base[Term(bank_at(n))]
      /\ img[Intent(bank_at(n))] = base[Intent(bank_at(n))]
  BY <1>1, ButIntent, SMTT(60)
<1> QED BY <1>2, <1>3, <1>4, <1>5, <1>6, Carry

\* Whatever the writes of a mutation leave, its INTENT covers it.
LEMMA OverHomes ==
  ASSUME NEW img, NEW base, NEW n \in Nat, Good(base, n), Pending(base, n),
         AgreeBut(img, base, Touches(Successor(base, n)))
  PROVE /\ Good(img, n) /\ Shown(img, n) = Shown(base, n) /\ Pending(img, n)
        /\ Successor(img, n) = Successor(base, n)
<1> DEFINE i == Successor(base, n)
<1>1. bank_at(n) \in Banks /\ prospective(n) \in Banks
  BY BankFlip
<1>2. Whole(i, n + 1) /\ n + 1 \in Nat /\ AgreeBut(img, base, Touches(i))
  BY SMT DEF Pending
<1>3. /\ \A z \in Banks : img[Intent(z)] = base[Intent(z)] /\ img[Term(z)] = base[Term(z)]
      /\ \A b \in Blocks \ {i.block} : img[Blk(b)] = base[Blk(b)]
      /\ \A b \in Blocks, p \in Pages :
           Covers(i, b, p) \/ (img[Rec(b, p)] = base[Rec(b, p)] /\ img[Home(b, p)] = base[Home(b, p)])
  <2> HIDE DEF i
  <2> QED BY <1>2, ButTouches, SMTT(60)
<1>4. Successor(img, n) = i /\ Pending(img, n)
  BY <1>1, <1>3 DEF Successor, Pending
<1>5. Other(img, n)
  BY <1>1, <1>3, <1>4 DEF Good, Other
<1>6. \A b \in Blocks : Eff(img, n, b) = Eff(base, n, b)
  BY <1>3, <1>4 DEF Eff
<1>7. \A b \in Blocks, p \in Pages :
           \/ Held(img, n, b, p)
           \/ /\ ~Held(base, n, b, p)
              /\ img[Rec(b, p)] = base[Rec(b, p)] /\ img[Home(b, p)] = base[Home(b, p)]
  BY <1>3, <1>4 DEF Held
<1>8. /\ img[Term(bank_at(n))] = base[Term(bank_at(n))]
      /\ img[Intent(bank_at(n))] = base[Intent(bank_at(n))]
  BY <1>1, <1>3
<1> QED BY <1>4, <1>5, <1>6, <1>7, <1>8, Carry

\* A terminal that did not survive leaves the INTENT pending.
LEMMA OverTornTerm ==
  ASSUME NEW img, NEW base, NEW n \in Nat, Good(base, n),
         AgreeBut(img, base, {Term(prospective(n))}), img[Term(prospective(n))] = Torn
  PROVE /\ Good(img, n) /\ Shown(img, n) = Shown(base, n) /\ (Pending(img, n) <=> Pending(base, n))
        /\ Successor(img, n) = Successor(base, n)
<1>1. bank_at(n) \in Banks /\ prospective(n) \in Banks /\ bank_at(n) # prospective(n)
  BY BankFlip
<1>2. Successor(img, n) = Successor(base, n)
  BY <1>1, ButTerm, SMTT(60) DEF Successor
<1>3. Pending(img, n) <=> Pending(base, n)
  BY <1>2 DEF Pending
<1>4. Other(img, n)
  BY <1>2 DEF Good, Other
<1>5. \A b \in Blocks : Eff(img, n, b) = Eff(base, n, b)
  BY <1>1, <1>2, <1>3, ButTerm, SMTT(60) DEF Eff
<1>6. \A b \in Blocks, p \in Pages : Held(img, n, b, p) <=> Held(base, n, b, p)
  BY <1>2, <1>3 DEF Held
<1>7. \A b \in Blocks, p \in Pages :
           \/ Held(img, n, b, p)
           \/ /\ ~Held(base, n, b, p)
              /\ img[Rec(b, p)] = base[Rec(b, p)] /\ img[Home(b, p)] = base[Home(b, p)]
  BY <1>1, <1>6, ButTerm, SMTT(60)
<1>8. /\ img[Term(bank_at(n))] = base[Term(bank_at(n))]
      /\ img[Intent(bank_at(n))] = base[Intent(bank_at(n))]
  BY <1>1, ButTerm, SMTT(60)
<1> QED BY <1>2, <1>3, <1>4, <1>5, <1>7, <1>8, Carry

-----------------------------------------------------------------------------
(* The outcome of a mutation, in the records of its block.                 *)

Blurred(img, i, m) ==
  \A p \in Pages : \/ Covers(i, i.block, p)
                   \/ PageOK(i.base, img[Rec(i.block, p)], img[Home(i.block, p)], p, m - 1)

Effected(img, i, o, d, m) ==
  LET e == after_block(i, o, d)
      k == ShownBlock(img, i.base, i.block)
  IN  /\ \A p \in Pages : PageOK(e, img[Rec(i.block, p)], img[Home(i.block, p)], p, m)
      /\ ShownBlock(img, e, i.block) = IF d = "COMMIT" THEN C!Committed(k, o) ELSE C!Aborted(k, o)

\* What a block shows, with some of its fields replaced.
LEMMA FaceFields ==
  ASSUME NEW g, NEW a, NEW x, NEW b, NEW p, NEW c
  PROVE LET f == Face(g, a, x, b, p, c)
        IN  f.gen = g /\ f.attempts = a /\ f.next = x /\ f.bad = b /\ f.prefix = p /\ f.cell = c
BY SMTT(60) DEF Face

\* An equation that the provers match as a whole.
Same(x, y) == x = y

\* One field replaced.
LEMMA FacePut ==
  ASSUME NEW g, NEW a, NEW x, NEW b, NEW p, NEW c, NEW v
  PROVE /\ Same([Face(g, a, x, b, p, c) EXCEPT !.gen = v], Face(v, a, x, b, p, c))
        /\ Same([Face(g, a, x, b, p, c) EXCEPT !.attempts = v], Face(g, v, x, b, p, c))
        /\ Same([Face(g, a, x, b, p, c) EXCEPT !.next = v], Face(g, a, v, b, p, c))
        /\ Same([Face(g, a, x, b, p, c) EXCEPT !.bad = v], Face(g, a, x, v, p, c))
        /\ Same([Face(g, a, x, b, p, c) EXCEPT !.prefix = v], Face(g, a, x, b, v, c))
        /\ Same([Face(g, a, x, b, p, c) EXCEPT !.cell = v], Face(g, a, x, b, p, v))
<1>1. [Face(g, a, x, b, p, c) EXCEPT !.gen = v] = Face(v, a, x, b, p, c)
  BY SMTT(60) DEF Face
<1>2. [Face(g, a, x, b, p, c) EXCEPT !.attempts = v] = Face(g, v, x, b, p, c)
  BY SMTT(60) DEF Face
<1>3. [Face(g, a, x, b, p, c) EXCEPT !.next = v] = Face(g, a, v, b, p, c)
  BY SMTT(60) DEF Face
<1>4. [Face(g, a, x, b, p, c) EXCEPT !.bad = v] = Face(g, a, x, v, p, c)
  BY SMTT(60) DEF Face
<1>5. [Face(g, a, x, b, p, c) EXCEPT !.prefix = v] = Face(g, a, x, b, v, c)
  BY SMTT(60) DEF Face
<1>6. [Face(g, a, x, b, p, c) EXCEPT !.cell = v] = Face(g, a, x, b, p, v)
  BY SMTT(60) DEF Face
<1> QED BY <1>1, <1>2, <1>3, <1>4, <1>5, <1>6 DEF Same

\* The outcomes of the contract, on what a block shows.
LEMMA FaceProgram ==
  ASSUME NEW g, NEW a, NEW x, NEW b, NEW p, NEW c, NEW z, NEW o, o.kind = "PROGRAM",
         NEW d \in {"COMMIT", "ABORT"},
         z = [q \in Pages |-> IF q \in o.first .. o.first + o.count - 1
                              THEN IF d = "COMMIT" THEN [state |-> o.state, data |-> o.data] ELSE C!TornCell
                              ELSE c[q]]
  PROVE Same(IF d = "COMMIT" THEN C!Committed(Face(g, a, x, b, p, c), o)
                             ELSE C!Aborted(Face(g, a, x, b, p, c), o),
             Face(g, a, o.first + o.count, b, p, z))
<1>1. PICK f : f = Face(g, a, x, b, p, c)
  OBVIOUS
<1>2. PICK y : y = o.first + o.count
  OBVIOUS
<1>3. f.cell = c
  BY <1>1, FaceFields, SMTT(60)
<1>4. Pages = C!Pages
  BY DEF Pages, C!Pages
<1>5. [f EXCEPT !.next = y, !.cell = z] = Face(g, a, y, b, p, z)
  <2>1. Same([Face(g, a, x, b, p, c) EXCEPT !.next = y], Face(g, a, y, b, p, c))
    BY FacePut
  <2>2. Same([Face(g, a, y, b, p, c) EXCEPT !.cell = z], Face(g, a, y, b, p, z))
    BY FacePut
  <2> QED BY <1>1, <2>1, <2>2 DEF Same
<1>6. CASE d = "COMMIT"
  <2>1. z = [q \in C!Pages |-> IF q \in o.first .. o.first + o.count - 1
                              THEN [state |-> o.state, data |-> o.data] ELSE f.cell[q]]
    BY <1>3, <1>4, <1>6
  <2>2. C!Committed(f, o) = [f EXCEPT !.next = y, !.cell = z]
    BY <1>2, <2>1 DEF C!Committed
  <2> QED BY <1>1, <1>2, <1>5, <1>6, <2>2 DEF Same
<1>7. CASE d = "ABORT"
  <2>1. z = [q \in C!Pages |-> IF q \in o.first .. o.first + o.count - 1 THEN C!TornCell ELSE f.cell[q]]
    BY <1>3, <1>4, <1>7
  <2>2. C!Aborted(f, o) = [f EXCEPT !.next = y, !.cell = z]
    BY <1>2, <2>1 DEF C!Aborted
  <2> QED BY <1>1, <1>2, <1>5, <1>7, <2>2 DEF Same
<1> QED BY <1>6, <1>7

\* An erase that damages a prefix.
LEMMA FaceErase ==
  ASSUME NEW g, NEW a, NEW x, NEW b, NEW p, NEW c, NEW z, NEW o, o.kind = "ERASE",
         z = [q \in Pages |-> IF q < C!Max(p, o.count) THEN C!TornCell ELSE c[q]]
  PROVE Same(C!Aborted(Face(g, a, x, b, p, c), o), Face(g, a + 1, x, b, C!Max(p, o.count), z))
<1>1. PICK f : f = Face(g, a, x, b, p, c)
  OBVIOUS
<1>2. PICK y, u : y = C!Max(p, o.count) /\ u = a + 1
  OBVIOUS
<1>3. f.cell = c /\ f.prefix = p /\ f.attempts = a
  BY <1>1, FaceFields, SMTT(60)
<1>4. Pages = C!Pages
  BY DEF Pages, C!Pages
<1>5. [f EXCEPT !.attempts = u, !.prefix = y, !.cell = z] = Face(g, u, x, b, y, z)
  <2>1. Same([Face(g, a, x, b, p, c) EXCEPT !.attempts = u], Face(g, u, x, b, p, c))
    BY FacePut
  <2>2. Same([Face(g, u, x, b, p, c) EXCEPT !.prefix = y], Face(g, u, x, b, y, c))
    BY FacePut
  <2>3. Same([Face(g, u, x, b, y, c) EXCEPT !.cell = z], Face(g, u, x, b, y, z))
    BY FacePut
  <2> QED BY <1>1, <2>1, <2>2, <2>3 DEF Same
<1>6. C!Aborted(f, o) = [f EXCEPT !.attempts = f.attempts + 1, !.prefix = C!Max(f.prefix, o.count), !.cell = z]
  BY <1>3, <1>4 DEF C!Aborted
<1>7. C!Aborted(f, o) = Face(g, u, x, b, y, z)
  BY <1>2, <1>3, <1>5, <1>6
<1> QED BY <1>1, <1>2, <1>7 DEF Same

\* A full erase.
LEMMA FaceClean ==
  ASSUME NEW f, NEW z, NEW o, o.kind = "ERASE", o.state = "VALID", o.count = PPB,
         z = [q \in Pages |-> C!Erased]
  PROVE Same(C!Committed(f, o), Face(f.gen + 1, f.attempts + 1, 0, FALSE, 0, z))
<1>1. PICK u, v : u = f.gen + 1 /\ v = f.attempts + 1
  OBVIOUS
<1>2. Pages = C!Pages
  BY DEF Pages, C!Pages
<1>3. C!FreshBlock = Face(0, 0, 0, FALSE, 0, z)
  BY <1>2 DEF C!FreshBlock, Face
<1>4. Same([Face(0, 0, 0, FALSE, 0, z) EXCEPT !.gen = u], Face(u, 0, 0, FALSE, 0, z))
  BY FacePut
<1>5. Same([Face(u, 0, 0, FALSE, 0, z) EXCEPT !.attempts = v], Face(u, v, 0, FALSE, 0, z))
  BY FacePut
<1>6. C!Committed(f, o) = [C!FreshBlock EXCEPT !.gen = u, !.attempts = v]
  BY <1>1 DEF C!Committed
<1>7. C!Committed(f, o) = Face(u, v, 0, FALSE, 0, z)
  BY <1>3, <1>4, <1>5, <1>6 DEF Same
<1> QED BY <1>1, <1>7 DEF Same

\* A bad mark.
LEMMA FaceBad ==
  ASSUME NEW g, NEW a, NEW x, NEW b, NEW p, NEW c, NEW o, o.kind = "MARK_BAD"
  PROVE Same(C!Aborted(Face(g, a, x, b, p, c), o), Face(g, a, x, TRUE, p, c))
<1>1. Same([Face(g, a, x, b, p, c) EXCEPT !.bad = TRUE], Face(g, a, x, TRUE, p, c))
  BY FacePut
<1>2. C!Aborted(Face(g, a, x, b, p, c), o) = [Face(g, a, x, b, p, c) EXCEPT !.bad = TRUE]
  BY DEF C!Aborted
<1> QED BY <1>1, <1>2 DEF Same

\* A program, committed or aborted.
LEMMA ProgramEffect ==
  ASSUME NEW img, NEW i, NEW m \in Nat, NEW o, NEW d \in {"COMMIT", "ABORT"}, Whole(i, m),
         Matches(i, o), Outcome(img, i, o, d), Blurred(img, i, m), i.kind = "PROGRAM"
  PROVE Effected(img, i, o, d, m)
<1> DEFINE e == after_block(i, o, d)
           b == i.base
           R(p) == img[Rec(i.block, p)]
           H(p) == img[Home(i.block, p)]
           k == ShownBlock(img, i.base, i.block)
<1>1. /\ b \in BlockRecord /\ i.seq = m /\ m # 0 /\ i.first \in Nat /\ i.count \in Nat
      /\ b.prefix = 0 /\ i.first = b.next /\ i.count > 0
  BY WholeIntent
<1>2. b.gen \in Nat /\ b.next \in Nat /\ b.prefix \in Nat /\ PPB \in Nat
  BY <1>1, NandConstants, SMTT(60) DEF BlockRecord
<1>3. /\ o.kind = "PROGRAM" /\ o.first = i.first /\ o.count = i.count
      /\ o.state \in {"VALID", "TORN"} /\ o.data \in Nat
  BY SMTT(60) DEF Matches, C!Ops
<1>4. e = abort_block(i)
  BY <1>3 DEF after_block
<1>5. /\ e.gen = b.gen /\ e.next = i.first + i.count /\ e.attempts = b.attempts
      /\ e.prefix = b.prefix /\ e.bad = b.bad
  BY <1>4, AbortBlock
<1>6. \A p \in Pages : p \in Nat
  BY <1>2, SMTT(60) DEF Pages
<1>7. \A p \in Pages : p \in Range(i) <=> i.first <= p /\ p < i.first + i.count
  BY <1>1, <1>6, SMTT(60) DEF Range
<1>8. ASSUME NEW p \in Pages, p \in Range(i)
      PROVE /\ PageOK(e, R(p), H(p), p, m)
            /\ Cell(e, R(p), p) = IF d = "COMMIT" THEN [state |-> o.state, data |-> o.data] ELSE C!TornCell
  <2>1. p < e.next /\ ~(p < e.prefix) /\ ~(p >= e.next)
    BY <1>1, <1>2, <1>5, <1>6, <1>7, <1>8, SMTT(60)
  <2>2. m \in 1 .. m
    BY <1>1, SMT
  <2>3. CASE d = "COMMIT"
    <3>1. R(p) = page_encode(b.gen, o.state, m, o.data) /\ H(p) = Data(o.data)
      BY <1>1, <1>8, <2>3 DEF Outcome
    <3>2. R(p) \in PageRecord
      BY <1>2, <1>3, <3>1, SMTT(60) DEF PageRecord, page_encode
    <3>3. R(p).gen = b.gen /\ R(p).state = o.state /\ R(p).seq = m /\ R(p).data = o.data
      BY <3>1, SMTT(60) DEF page_encode
    <3>4. PageOK(e, R(p), H(p), p, m)
      BY <1>5, <2>1, <2>2, <3>1, <3>2, <3>3 DEF PageOK
    <3>5. o.state # "UNKNOWN"
      BY <1>3
    <3> QED BY <2>1, <2>3, <3>3, <3>4, <3>5 DEF Cell
  <2>4. CASE d = "ABORT"
    <3>1. R(p) = page_encode(b.gen, "UNKNOWN", m, 0)
      BY <1>1, <1>8, <2>4 DEF Outcome
    <3>2. R(p) \in PageRecord
      <4>1. 0 \in Nat
        BY SMT
      <4> QED BY <1>2, <3>1, <4>1, SMTT(60) DEF PageRecord, page_encode
    <3>3. R(p).gen = b.gen /\ R(p).state = "UNKNOWN" /\ R(p).seq = m
      BY <3>1, SMTT(60) DEF page_encode
    <3>4. PageOK(e, R(p), H(p), p, m)
      BY <1>5, <2>1, <2>2, <3>2, <3>3 DEF PageOK
    <3> QED BY <2>1, <2>4, <3>3, <3>4 DEF Cell
  <2> QED BY <2>3, <2>4
<1>9. ASSUME NEW p \in Pages, p \notin Range(i)
      PROVE PageOK(e, R(p), H(p), p, m) /\ Cell(e, R(p), p) = Cell(b, R(p), p)
  <2>1. PageOK(b, R(p), H(p), p, m - 1)
    BY <1>9 DEF Blurred, Covers
  <2>2. (p < e.next <=> p < b.next) /\ (p >= e.next <=> p >= b.next)
    BY <1>1, <1>2, <1>5, <1>6, <1>7, <1>9, SMTT(60)
  <2>3. \A x : x \in 1 .. m - 1 => x \in 1 .. m
    BY <1>1, SMT
  <2>4. PageOK(e, R(p), H(p), p, m)
    BY <1>5, <2>1, <2>2, <2>3 DEF PageOK
  <2>5. Cell(e, R(p), p) = Cell(b, R(p), p)
    BY <1>5, <2>2 DEF Cell
  <2> QED BY <2>4, <2>5
<1>10. ShownBlock(img, e, i.block) = IF d = "COMMIT" THEN C!Committed(k, o) ELSE C!Aborted(k, o)
  <2>1. o.first .. o.first + o.count - 1 = Range(i)
    BY <1>3 DEF Range
  <2>2. PICK c : c = [p \in Pages |-> Cell(b, R(p), p)]
    OBVIOUS
  <2>3. k = Face(b.gen, b.attempts, b.next, b.bad, b.prefix, c)
    BY <2>2 DEF ShownBlock
  <2>4. PICK c2 : c2 = [p \in Pages |-> Cell(e, R(p), p)]
    OBVIOUS
  <2>5. ShownBlock(img, e, i.block) = Face(b.gen, b.attempts, o.first + o.count, b.bad, b.prefix, c2)
    BY <1>3, <1>5, <2>4 DEF ShownBlock
  <2>6. c2 = [p \in Pages |-> IF p \in o.first .. o.first + o.count - 1
                              THEN IF d = "COMMIT" THEN [state |-> o.state, data |-> o.data] ELSE C!TornCell
                              ELSE c[p]]
    BY <1>8, <1>9, <2>1, <2>2, <2>4
  <2>7. Same(IF d = "COMMIT" THEN C!Committed(Face(b.gen, b.attempts, b.next, b.bad, b.prefix, c), o)
                             ELSE C!Aborted(Face(b.gen, b.attempts, b.next, b.bad, b.prefix, c), o),
             Face(b.gen, b.attempts, o.first + o.count, b.bad, b.prefix, c2))
    BY <1>3, <2>6, FaceProgram, SMTT(60)
  <2> QED BY <2>3, <2>5, <2>7 DEF Same
<1> QED BY <1>8, <1>9, <1>10 DEF Effected

\* An erase that did not clean the block damages its prefix.
LEMMA EraseEffect ==
  ASSUME NEW img, NEW i, NEW m \in Nat, NEW o, NEW d \in {"COMMIT", "ABORT"}, Whole(i, m),
         Matches(i, o), Blurred(img, i, m), i.kind = "ERASE", after_block(i, o, d) = abort_block(i),
         d = "COMMIT" => ~(o.state = "VALID" /\ o.count = PPB)
  PROVE Effected(img, i, o, d, m)
<1> DEFINE e == abort_block(i)
           b == i.base
           R(p) == img[Rec(i.block, p)]
           H(p) == img[Home(i.block, p)]
           k == ShownBlock(img, i.base, i.block)
<1>1. b \in BlockRecord /\ i.seq = m /\ m # 0 /\ i.count \in Nat
  BY WholeIntent
<1>2. b.gen \in Nat /\ b.next \in Nat /\ b.prefix \in Nat /\ PPB \in Nat
  BY <1>1, NandConstants, SMTT(60) DEF BlockRecord
<1>3. o.kind = "ERASE" /\ o.count = i.count
  BY SMTT(60) DEF Matches, C!Ops
<1>4. PICK y : y = Max(b.prefix, i.count)
  OBVIOUS
<1>5. /\ e.gen = b.gen /\ e.next = b.next /\ e.attempts = b.attempts + 1
      /\ e.prefix = y /\ e.bad = b.bad
  BY <1>4, AbortBlock
<1>6. y \in Nat /\ y >= b.prefix /\ y = C!Max(b.prefix, o.count)
  BY <1>1, <1>2, <1>3, <1>4, SMTT(60) DEF Max, C!Max
<1>7. ASSUME NEW p \in Pages
      PROVE /\ PageOK(e, R(p), H(p), p, m)
            /\ Cell(e, R(p), p) = IF p < y THEN C!TornCell ELSE Cell(b, R(p), p)
  <2>1. PageOK(b, R(p), H(p), p, m - 1)
    BY <1>7 DEF Blurred, Covers
  <2>2. \A x : x \in 1 .. m - 1 => x \in 1 .. m
    BY <1>1, SMT
  <2>3. PageOK(e, R(p), H(p), p, m)
    BY <1>5, <2>1, <2>2 DEF PageOK
  <2>4. ~(p < y) => ~(p < b.prefix)
    BY <1>2, <1>6, SMTT(60) DEF Pages
  <2>5. Cell(e, R(p), p) = IF p < y THEN C!TornCell ELSE Cell(b, R(p), p)
    BY <1>5, <2>4 DEF Cell
  <2> QED BY <2>3, <2>5
<1>8. ShownBlock(img, e, i.block) = C!Aborted(k, o)
  <2>1. PICK c : c = [p \in Pages |-> Cell(b, R(p), p)]
    OBVIOUS
  <2>2. k = Face(b.gen, b.attempts, b.next, b.bad, b.prefix, c)
    BY <2>1 DEF ShownBlock
  <2>3. PICK c2 : c2 = [p \in Pages |-> Cell(e, R(p), p)]
    OBVIOUS
  <2>4. ShownBlock(img, e, i.block) = Face(b.gen, b.attempts + 1, b.next, b.bad, y, c2)
    BY <1>5, <2>3 DEF ShownBlock
  <2>5. c2 = [p \in Pages |-> IF p < C!Max(b.prefix, o.count) THEN C!TornCell ELSE c[p]]
    BY <1>6, <1>7, <2>1, <2>3
  <2>6. Same(C!Aborted(Face(b.gen, b.attempts, b.next, b.bad, b.prefix, c), o),
             Face(b.gen, b.attempts + 1, b.next, b.bad, C!Max(b.prefix, o.count), c2))
    BY <1>3, <2>5, FaceErase
  <2> QED BY <1>6, <2>2, <2>4, <2>6 DEF Same
<1>9. d = "COMMIT" => C!Committed(k, o) = C!Aborted(k, o)
  BY <1>3 DEF C!Committed
<1> QED BY <1>7, <1>8, <1>9 DEF Effected

\* A full erase starts a generation, and every older page record reads as erased.
LEMMA CleanEffect ==
  ASSUME NEW img, NEW i, NEW m \in Nat, NEW o, Whole(i, m), Matches(i, o), Blurred(img, i, m),
         i.kind = "ERASE", o.state = "VALID", o.count = PPB
  PROVE Effected(img, i, o, "COMMIT", m)
<1> DEFINE e == clean_block(i)
           b == i.base
           R(p) == img[Rec(i.block, p)]
           H(p) == img[Home(i.block, p)]
           k == ShownBlock(img, i.base, i.block)
<1>1. b \in BlockRecord /\ i.seq = m /\ m # 0
  BY WholeIntent
<1>2. b.gen \in Nat /\ b.next \in Nat /\ PPB \in Nat
  BY <1>1, NandConstants, SMTT(60) DEF BlockRecord
<1>3. o.kind = "ERASE" /\ after_block(i, o, "COMMIT") = e
  <2>1. o.kind = "ERASE"
    BY SMTT(60) DEF Matches, C!Ops
  <2> QED BY <2>1 DEF after_block
<1>4. e.gen = b.gen + 1 /\ e.attempts = b.attempts + 1 /\ e.next = 0 /\ e.prefix = 0 /\ e.bad = FALSE
  BY CleanBlock
<1>5. ASSUME NEW p \in Pages
      PROVE PageOK(e, R(p), H(p), p, m) /\ Cell(e, R(p), p) = C!Erased
  <2>1. PageOK(b, R(p), H(p), p, m - 1)
    BY <1>5 DEF Blurred, Covers
  <2>2. \A x : x \in 1 .. m - 1 => x \in 1 .. m
    BY <1>1, SMT
  <2>3. ~(p < 0) /\ p >= 0
    BY <1>2, SMTT(60) DEF Pages
  <2>4. R(p) = Zero \/ (R(p) \in PageRecord /\ R(p).seq \in 1 .. m /\ (R(p).gen = b.gen \/ R(p).gen < b.gen))
    BY <2>1, <2>2 DEF PageOK
  <2>5. R(p) \in PageRecord => R(p).gen \in Nat
    BY SMTT(60) DEF PageRecord
  <2>6. R(p) = Zero \/ (R(p) \in PageRecord /\ R(p).seq \in 1 .. m /\ R(p).gen < b.gen + 1)
    BY <1>2, <2>4, <2>5, SMTT(60)
  <2> QED BY <1>4, <2>3, <2>6 DEF PageOK, Cell
<1>6. ShownBlock(img, e, i.block) = C!Committed(k, o)
  <2>1. PICK c2 : c2 = [p \in Pages |-> Cell(e, R(p), p)]
    OBVIOUS
  <2>2. ShownBlock(img, e, i.block) = Face(b.gen + 1, b.attempts + 1, 0, FALSE, 0, c2)
    BY <1>4, <2>1 DEF ShownBlock
  <2>3. c2 = [p \in Pages |-> C!Erased]
    BY <1>5, <2>1
  <2>4. Same(C!Committed(k, o), Face(k.gen + 1, k.attempts + 1, 0, FALSE, 0, c2))
    BY <1>3, <2>3, FaceClean
  <2>5. k.gen = b.gen /\ k.attempts = b.attempts
    BY SMTT(60) DEF ShownBlock, Face
  <2> QED BY <2>2, <2>4, <2>5 DEF Same
<1> QED BY <1>3, <1>5, <1>6 DEF Effected

\* A bad mark changes nothing else.
LEMMA BadEffect ==
  ASSUME NEW img, NEW i, NEW m \in Nat, NEW o, NEW d \in {"COMMIT", "ABORT"}, Whole(i, m),
         Matches(i, o), Blurred(img, i, m), i.kind = "MARK_BAD"
  PROVE Effected(img, i, o, d, m)
<1> DEFINE e == abort_block(i)
           b == i.base
           R(p) == img[Rec(i.block, p)]
           H(p) == img[Home(i.block, p)]
           k == ShownBlock(img, i.base, i.block)
<1>1. b \in BlockRecord /\ i.seq = m /\ m # 0
  BY WholeIntent
<1>2. o.kind = "MARK_BAD"
  BY SMTT(60) DEF Matches, C!Ops
<1>3. after_block(i, o, d) = e
  BY <1>2 DEF after_block
<1>4. e.gen = b.gen /\ e.next = b.next /\ e.attempts = b.attempts /\ e.prefix = b.prefix /\ e.bad = TRUE
  BY AbortBlock
<1>5. ASSUME NEW p \in Pages
      PROVE PageOK(e, R(p), H(p), p, m) /\ Cell(e, R(p), p) = Cell(b, R(p), p)
  <2>1. PageOK(b, R(p), H(p), p, m - 1)
    BY <1>5 DEF Blurred, Covers
  <2>2. \A x : x \in 1 .. m - 1 => x \in 1 .. m
    BY <1>1, SMT
  <2>3. PageOK(e, R(p), H(p), p, m)
    BY <1>4, <2>1, <2>2 DEF PageOK
  <2>4. Cell(e, R(p), p) = Cell(b, R(p), p)
    BY <1>4 DEF Cell
  <2> QED BY <2>3, <2>4
<1>6. ShownBlock(img, e, i.block) = C!Aborted(k, o)
  <2>1. PICK c : c = [p \in Pages |-> Cell(b, R(p), p)]
    OBVIOUS
  <2>2. k = Face(b.gen, b.attempts, b.next, b.bad, b.prefix, c)
    BY <2>1 DEF ShownBlock
  <2>3. [p \in Pages |-> Cell(e, R(p), p)] = c
    BY <1>5, <2>1
  <2>4. ShownBlock(img, e, i.block) = Face(b.gen, b.attempts, b.next, TRUE, b.prefix, c)
    BY <1>4, <2>3 DEF ShownBlock
  <2>5. Same(C!Aborted(Face(b.gen, b.attempts, b.next, b.bad, b.prefix, c), o),
             Face(b.gen, b.attempts, b.next, TRUE, b.prefix, c))
    BY <1>2, FaceBad
  <2> QED BY <2>2, <2>4, <2>5 DEF Same
<1>7. C!Committed(k, o) = C!Aborted(k, o)
  BY <1>2 DEF C!Committed
<1> QED BY <1>3, <1>5, <1>6, <1>7 DEF Effected

\* The records an outcome writes show the outcome of the contract.
LEMMA Effects ==
  ASSUME NEW img, NEW i, NEW m \in Nat, NEW o, NEW d \in {"COMMIT", "ABORT"}, Whole(i, m),
         Matches(i, o), Outcome(img, i, o, d), Blurred(img, i, m)
  PROVE Effected(img, i, o, d, m)
<1>1. i.kind \in {"PROGRAM", "ERASE", "MARK_BAD"}
  BY WholeIntent
<1>2. o.kind = i.kind
  BY DEF Matches
<1>3. CASE i.kind = "ERASE" /\ d = "COMMIT" /\ o.state = "VALID" /\ o.count = PPB
  BY <1>3, CleanEffect
<1>4. CASE i.kind = "ERASE" /\ ~(d = "COMMIT" /\ o.state = "VALID" /\ o.count = PPB)
  <2>1. after_block(i, o, d) = abort_block(i)
    BY <1>4 DEF after_block
  <2> QED BY <1>4, <2>1, EraseEffect
<1> QED BY <1>1, <1>3, <1>4, ProgramEffect, BadEffect

\* What the records of the log are not.
LEMMA LogRecords ==
  ASSUME NEW n \in Nat
  PROVE /\ ~Whole(Zero, n) /\ ~Whole(Torn, n)
        /\ \A x : \A m \in Nat : Whole(x, n) /\ Whole(x, m) => m = n
<1>1. Zero.k # "INTENT" /\ Torn.k # "INTENT"
  BY SMT DEF Zero, Torn
<1>2. \A x : Whole(x, n) => x.k = "INTENT"
  BY DEF Whole, intent_decode
<1> QED BY <1>1, <1>2 DEF Whole

\* Transaction n had outcome d of mutation o on cells k.
Decided(img, n, k, o, d) ==
  /\ Good(img, n) /\ ~Pending(img, n)
  /\ Shown(img, n) = IF d = "COMMIT" THEN C!CommitOp(k, o) ELSE C!AbortOp(k, o)

\* Writing the terminal of the pending INTENT makes it the newest transaction,
\* with the outcome that its records hold.
LEMMA Decide ==
  ASSUME NEW img, NEW base, NEW n \in Nat, NEW o, NEW d \in {"COMMIT", "ABORT"}, Good(base, n),
         Pending(base, n), Matches(Successor(base, n), o), Outcome(base, Successor(base, n), o, d),
         AgreeBut(img, base, {Term(prospective(n))}),
         img[Term(prospective(n))] = terminal(Successor(base, n), d)
  PROVE Decided(img, n + 1, Shown(base, n), o, d)
<1> DEFINE m == n + 1
           i == Successor(base, n)
           e == after_block(i, o, d)
<1>1. /\ m \in Nat /\ m # 0 /\ m - 1 = n /\ (n # 0 => m > 1)
      /\ \A x : x \in 1 .. n => x \in 1 .. m
  BY SMT
<1>2. /\ bank_at(n) \in Banks /\ prospective(n) \in Banks /\ bank_at(m) = prospective(n)
      /\ bank_at(n) # prospective(n) /\ prospective(m) = bank_at(n)
  BY BankFlip
<1>3. /\ \A z \in Banks : img[Intent(z)] = base[Intent(z)]
      /\ img[Term(bank_at(n))] = base[Term(bank_at(n))]
      /\ \A b \in Blocks : img[Blk(b)] = base[Blk(b)]
      /\ \A b \in Blocks, p \in Pages : /\ img[Rec(b, p)] = base[Rec(b, p)]
                                        /\ img[Home(b, p)] = base[Home(b, p)]
  <2>1. \A z \in Banks : img[Intent(z)] = base[Intent(z)]
    BY <1>2, ButTerm, SMTT(60)
  <2>2. img[Term(bank_at(n))] = base[Term(bank_at(n))]
    BY <1>2, ButTerm, SMTT(60)
  <2>3. \A b \in Blocks : img[Blk(b)] = base[Blk(b)]
    BY <1>2, ButTerm, SMTT(60)
  <2>4. ASSUME NEW b \in Blocks, NEW p \in Pages
        PROVE img[Rec(b, p)] = base[Rec(b, p)] /\ img[Home(b, p)] = base[Home(b, p)]
    BY <1>2, ButTerm, SMTT(60)
  <2> QED BY <2>1, <2>2, <2>3, <2>4
<1>4. Whole(i, m)
  BY DEF Pending
<1>5. /\ i.seq = m /\ i.block \in Blocks /\ i.kind \in {"PROGRAM", "ERASE", "MARK_BAD"}
  BY <1>1, <1>4, WholeIntent
<1>6. o.kind = i.kind /\ o.block = i.block /\ o.count = i.count
  BY DEF Matches
<1>7. img[Intent(bank_at(m))] = i /\ img[Term(bank_at(m))] = terminal(i, d)
  BY <1>2, <1>3 DEF Successor
<1>8. Newest(img, m)
  BY <1>1, <1>4, <1>7 DEF Newest
<1>9. Successor(img, m) = base[Intent(bank_at(n))]
  BY <1>2, <1>3 DEF Successor
<1>10. Newest(base, n) /\ Other(base, n) /\ \A b \in Blocks : BlockOK(base, n, b)
  BY DEF Good
<1>11. Other(img, m) /\ ~Pending(img, m)
  <2>1. CASE n = 0
    <3>1. base[Term(bank_at(n))] = bootstrap /\ base[Intent(bank_at(n))] = Zero
      <4>1. bank_at(n) = 0
        BY <2>1, SMT DEF bank_at
      <4> QED BY <1>10, <2>1, <4>1 DEF Newest
    <3>2. bootstrap.k = "TERM" /\ bootstrap.seq = 0 /\ bootstrap.disp = "BOOTSTRAP"
      BY SMT DEF bootstrap
    <3>3. terminal_decode(bootstrap, prospective(m))
      BY <3>2 DEF terminal_decode
    <3>4. ~Whole(Zero, m + 1)
      BY LogRecords, SMT
    <3> QED BY <1>1, <1>2, <1>3, <1>9, <2>1, <3>1, <3>2, <3>3, <3>4 DEF Other, Pending
  <2>2. CASE n # 0
    <3>1. PICK c \in {"COMMIT", "ABORT"} :
            /\ Whole(base[Intent(bank_at(n))], n)
            /\ base[Term(bank_at(n))] = terminal(base[Intent(bank_at(n))], c)
      BY <1>10, <2>2 DEF Newest
    <3>2. base[Intent(bank_at(n))].seq = n
      BY <3>1 DEF Whole
    <3>3. LET t == terminal(base[Intent(bank_at(n))], c)
          IN  t.k = "TERM" /\ t.seq = n /\ t.disp = c
      BY <3>2, SMTT(60) DEF terminal
    <3>4. terminal_decode(terminal(base[Intent(bank_at(n))], c), bank_at(n))
      BY <2>2, <3>3 DEF terminal_decode
    <3>5. ~Whole(base[Intent(bank_at(n))], m + 1)
      <4>1. m + 1 \in Nat /\ m + 1 # n
        BY SMT
      <4> QED BY <3>1, <4>1, LogRecords
    <3> QED BY <1>1, <1>2, <1>3, <1>9, <2>2, <3>1, <3>3, <3>4, <3>5 DEF Other, Pending
  <2> QED BY <2>1, <2>2
<1>12. \A b \in Blocks : Eff(img, m, b) = base[Blk(b)]
  BY <1>3, <1>11 DEF Eff
<1>13. \A b \in Blocks, p \in Pages : ~Held(img, m, b, p)
  BY <1>11 DEF Held
<1>14. base[Blk(i.block)] = e
  BY DEF Outcome
<1>15. e \in BlockRecord /\ block_decode(e, m)
  BY <1>4, AbortBlock, CleanBlock, BlocksDecode, <1>1 DEF after_block
<1>16. Eff(base, n, i.block) = i.base
  BY DEF Eff
<1>17. Blurred(base, i, m)
  BY <1>1, <1>5, <1>10, <1>16 DEF BlockOK, Blurred, Held
<1>18. Effected(base, i, o, d, m)
  BY <1>1, <1>4, <1>17, Effects
<1>19. ASSUME NEW b \in Blocks, b # i.block
       PROVE BlockOK(img, m, b) /\ Eff(base, n, b) = base[Blk(b)]
  <2>1. Eff(base, n, b) = base[Blk(b)]
    BY <1>19 DEF Eff
  <2>2. base[Blk(b)] \in BlockRecord /\ block_decode(base[Blk(b)], n)
    BY <1>10, <2>1 DEF BlockOK
  <2>3. block_decode(base[Blk(b)], m)
    <3>1. base[Blk(b)].seq \in Nat
      BY <2>2, SMTT(60) DEF BlockRecord
    <3>2. base[Blk(b)].seq <= n => base[Blk(b)].seq <= m
      BY <3>1, SMT
    <3> QED BY <2>2, <3>2 DEF block_decode
  <2>4. ASSUME NEW p \in Pages
        PROVE PageOK(base[Blk(b)], base[Rec(b, p)], base[Home(b, p)], p, m)
    <3>1. ~Held(base, n, b, p)
      BY <1>19 DEF Held, Covers
    <3>2. PageOK(base[Blk(b)], base[Rec(b, p)], base[Home(b, p)], p, n)
      BY <1>10, <2>1, <3>1 DEF BlockOK
    <3> QED BY <1>1, <3>2 DEF PageOK
  <2> QED BY <1>3, <1>12, <2>1, <2>2, <2>3, <2>4 DEF BlockOK
<1>20. BlockOK(img, m, i.block)
  BY <1>3, <1>5, <1>12, <1>14, <1>15, <1>18 DEF BlockOK, Effected
<1>21. terminal(i, d).disp = d
  BY SMTT(60) DEF terminal
<1>22. block_after(i, terminal(i, d), e)
  BY <1>6, <1>21 DEF block_after, after_block
<1>23. ASSUME i.kind = "PROGRAM", NEW p \in Range(i)
       PROVE LET r == img[Rec(i.block, p)]
             IN  /\ r.seq = m
                 /\ IF d = "ABORT" THEN r.state = "UNKNOWN"
                    ELSE r.state # "UNKNOWN" /\ (i.count > 1 => r.state = "VALID")
  <2>1. p \in Pages
    BY <1>1, <1>4, <1>23, RangePages
  <2>2. img[Rec(i.block, p)] = base[Rec(i.block, p)]
    BY <1>3, <1>5, <2>1
  <2>3. o.state \in {"VALID", "TORN"} /\ (o.count > 1 => o.state = "VALID")
    <3>1. o \in C!Ops
      BY DEF Matches
    <3>2. o.state \in {"VALID", "TORN"}
      BY <3>1, SMTT(60) DEF C!Ops
    <3> QED BY <1>6, <1>23, <3>2 DEF Matches
  <2>4. base[Rec(i.block, p)] = IF d = "COMMIT" THEN page_encode(i.base.gen, o.state, m, o.data)
                                ELSE page_encode(i.base.gen, "UNKNOWN", m, 0)
    BY <1>5, <1>23 DEF Outcome
  <2>6. CASE d = "COMMIT"
    <3>1. img[Rec(i.block, p)].seq = m /\ img[Rec(i.block, p)].state = o.state
      BY <2>2, <2>4, <2>6, SMTT(60) DEF page_encode
    <3>2. o.state # "UNKNOWN" /\ d # "ABORT"
      BY <2>3, <2>6
    <3> QED BY <1>6, <2>3, <3>1, <3>2
  <2>7. CASE d = "ABORT"
    <3>1. img[Rec(i.block, p)].seq = m /\ img[Rec(i.block, p)].state = "UNKNOWN"
      BY <2>2, <2>4, <2>7, SMTT(60) DEF page_encode
    <3> QED BY <2>7, <3>1
  <2> QED BY <2>6, <2>7
<1>24. Traced(img, m)
  BY <1>5, <1>7, <1>12, <1>14, <1>21, <1>22, <1>23 DEF Traced
<1>25. Good(img, m)
  BY <1>8, <1>11, <1>19, <1>20, <1>24 DEF Good
<1>26. \A b \in Blocks : ShownBlock(img, Eff(img, m, b), b) = ShownBlock(base, base[Blk(b)], b)
  BY <1>3, <1>12 DEF ShownBlock
<1>27. \A b \in Blocks \ {i.block} : ShownBlock(base, base[Blk(b)], b) = Shown(base, n)[b]
  BY <1>19 DEF Shown
<1>28. Shown(base, n)[i.block] = ShownBlock(base, i.base, i.block)
  BY <1>5, <1>16 DEF Shown
<1>29. CASE d = "COMMIT"
  <2>1. ShownBlock(base, e, i.block) = C!Committed(Shown(base, n)[i.block], o)
    BY <1>18, <1>28, <1>29 DEF Effected
  <2>2. DOMAIN Shown(base, n) = Blocks
    BY DEF Shown
  <2>3. C!CommitOp(Shown(base, n), o) =
          [b \in Blocks |-> IF b = i.block THEN C!Committed(Shown(base, n)[i.block], o) ELSE Shown(base, n)[b]]
    BY <1>5, <1>6, <2>2 DEF C!CommitOp, Shown
  <2>4. Shown(img, m) = C!CommitOp(Shown(base, n), o)
    BY <1>14, <1>26, <1>27, <2>1, <2>3, SMTT(60) DEF Shown
  <2> QED BY <1>11, <1>25, <1>29, <2>4 DEF Decided
<1>30. CASE d = "ABORT"
  <2>1. ShownBlock(base, e, i.block) = C!Aborted(Shown(base, n)[i.block], o)
    BY <1>18, <1>28, <1>30 DEF Effected
  <2>2. C!AbortOp(Shown(base, n), o) =
          [b \in Blocks |-> IF b = i.block THEN C!Aborted(Shown(base, n)[i.block], o) ELSE Shown(base, n)[b]]
    BY <1>5, <1>6 DEF C!AbortOp, Shown
  <2>3. Shown(img, m) = C!AbortOp(Shown(base, n), o)
    BY <1>14, <1>26, <1>27, <2>1, <2>2, SMTT(60) DEF Shown
  <2> QED BY <1>11, <1>25, <1>30, <2>3 DEF Decided
<1> QED BY <1>29, <1>30

-----------------------------------------------------------------------------
(* What the engine reads from a sound image.                               *)

\* page_class and load_page on a sound page.
LEMMA SoundClass ==
  ASSUME NEW n \in Nat, NEW b \in BlockRecord, NEW r, NEW h, NEW p \in Pages, PageOK(b, r, h, p, n)
  PROVE /\ p < b.next => /\ page_class(b, r, p, n) = r.state /\ r.state \in {"VALID", "TORN", "UNKNOWN"}
                         /\ r.state = "UNKNOWN" \/ h = Data(r.data)
        /\ ~(p < b.next) => page_class(b, r, p, n) = "ERASED"
<1>1. b.gen \in Nat /\ b.next \in Nat /\ p \in Nat
  BY NandConstants, SMTT(60) DEF BlockRecord, Pages
<1>2. ASSUME r \in PageRecord
      PROVE /\ r.k = "PAGE" /\ r.gen \in Nat /\ r.seq \in Nat /\ r.state \in {"VALID", "TORN", "UNKNOWN"}
            /\ r # Zero
  BY <1>2, SMTT(60) DEF PageRecord, Zero
<1>3. CASE p < b.next
  <2>1. /\ r \in PageRecord /\ r.gen = b.gen /\ r.seq \in 1 .. n
        /\ r.state = "UNKNOWN" \/ h = Data(r.data)
    BY <1>3 DEF PageOK
  <2>2. page_valid(r, n) /\ r # Zero
    BY <1>2, <2>1 DEF page_valid
  <2>3. ~(r.gen > b.gen) /\ ~(r.gen < b.gen) /\ ~(p >= b.next)
    BY <1>1, <1>3, <2>1, SMT
  <2>4. page_class(b, r, p, n) = r.state
    BY <2>2, <2>3 DEF page_class
  <2> QED BY <1>2, <1>3, <2>1, <2>4
<1>4. CASE ~(p < b.next)
  <2>1. CASE r = Zero
    BY <1>4, <2>1 DEF page_class
  <2>2. CASE r \in PageRecord /\ r.gen < b.gen /\ r.seq \in 1 .. n
    <3>1. page_valid(r, n) /\ r # Zero
      BY <1>2, <2>2 DEF page_valid
    <3>2. ~(r.gen > b.gen)
      BY <1>1, <1>2, <2>2, SMT
    <3> QED BY <1>4, <2>2, <3>1, <3>2 DEF page_class
  <2> QED BY <1>4, <2>1, <2>2 DEF PageOK
<1> QED BY <1>3, <1>4

\* load_page answers the cell that a sound page shows, never a broken one.
LEMMA SoundPage ==
  ASSUME NEW img, NEW n \in Nat, NEW b \in Blocks, NEW p \in Pages, img[Blk(b)] \in BlockRecord,
         PageOK(img[Blk(b)], img[Rec(b, p)], img[Home(b, p)], p, n)
  PROVE /\ load_page(img, b, p, n) = Cell(img[Blk(b)], img[Rec(b, p)], p)
        /\ load_page(img, b, p, n).state # "BROKEN"
<1>1. PICK e, r, h : e = img[Blk(b)] /\ r = img[Rec(b, p)] /\ h = img[Home(b, p)]
  OBVIOUS
<1>2. e.prefix \in Nat /\ e.next \in Nat /\ p \in Nat
  BY <1>1, NandConstants, SMTT(60) DEF BlockRecord, Pages
<1>3. (e.prefix > 0 /\ p < e.prefix <=> p < e.prefix) /\ (p >= e.next <=> ~(p < e.next))
  BY <1>2, SMT
<1>4. PICK c : c = page_class(e, r, p, n)
  OBVIOUS
<1>5. /\ p < e.next => c = r.state /\ r.state \in {"VALID", "TORN", "UNKNOWN"}
      /\ p < e.next => r.state = "UNKNOWN" \/ h = Data(r.data)
      /\ ~(p < e.next) => c = "ERASED"
  BY <1>1, <1>4, SoundClass, SMTT(60)
<1>6. load_page(img, b, p, n) =
        IF p < e.prefix THEN C!TornCell
        ELSE CASE c = "BAD" -> [state |-> "BROKEN", data |-> 0]
               [] c = "ERASED" -> C!Erased
               [] c = "UNKNOWN" -> C!TornCell
               [] OTHER -> IF h = Data(r.data) THEN [state |-> c, data |-> r.data]
                           ELSE [state |-> "BROKEN", data |-> 0]
  BY <1>1, <1>3, <1>4 DEF load_page
<1>7. C!TornCell.state # "BROKEN" /\ C!Erased.state # "BROKEN"
  BY SMT DEF C!TornCell, C!Erased
<1>8. CASE p < e.prefix
  BY <1>1, <1>6, <1>7, <1>8 DEF Cell
<1>9. CASE ~(p < e.prefix) /\ ~(p < e.next)
  BY <1>1, <1>3, <1>5, <1>6, <1>7, <1>9 DEF Cell
<1>10. CASE ~(p < e.prefix) /\ p < e.next /\ r.state = "UNKNOWN"
  BY <1>1, <1>3, <1>5, <1>6, <1>7, <1>10 DEF Cell
<1>11. CASE ~(p < e.prefix) /\ p < e.next /\ r.state # "UNKNOWN"
  <2>1. c = r.state /\ c \in {"VALID", "TORN"} /\ h = Data(r.data)
    BY <1>5, <1>11
  <2>2. load_page(img, b, p, n) = [state |-> c, data |-> r.data]
    BY <1>6, <1>11, <2>1
  <2>3. Cell(e, r, p) = [state |-> c, data |-> r.data]
    BY <1>3, <1>11, <2>1 DEF Cell
  <2>4. load_page(img, b, p, n).state = c
    BY <2>2, SMT
  <2> QED BY <1>1, <2>1, <2>2, <2>3, <2>4
<1> QED BY <1>8, <1>9, <1>10, <1>11

\* With nothing pending, the reads answer what the image shows, and every block
\* passes validate_block_cells.
LEMMA ViewIs ==
  ASSUME NEW img, NEW n \in Nat, Good(img, n), ~Pending(img, n)
  PROVE /\ [b \in Blocks |-> ViewBlock(img, b, n)] = Shown(img, n)
        /\ \A b \in Blocks : validate_block_cells(img, n, b)
<1>1. ASSUME NEW b \in Blocks
      PROVE /\ img[Blk(b)] \in BlockRecord /\ block_decode(img[Blk(b)], n) /\ Eff(img, n, b) = img[Blk(b)]
            /\ \A p \in Pages : PageOK(img[Blk(b)], img[Rec(b, p)], img[Home(b, p)], p, n)
  BY DEF Good, BlockOK, Eff, Held
<1>2. ASSUME NEW b \in Blocks, NEW p \in Pages
      PROVE /\ load_page(img, b, p, n) = Cell(img[Blk(b)], img[Rec(b, p)], p)
            /\ load_page(img, b, p, n).state # "BROKEN"
  BY <1>1, SoundPage
<1>3. ASSUME NEW b \in Blocks
      PROVE ViewBlock(img, b, n) = ShownBlock(img, Eff(img, n, b), b) /\ validate_block_cells(img, n, b)
  <2>1. [p \in Pages |-> load_page(img, b, p, n)] = [p \in Pages |-> Cell(img[Blk(b)], img[Rec(b, p)], p)]
    BY <1>2
  <2>2. ViewBlock(img, b, n) = ShownBlock(img, Eff(img, n, b), b)
    BY <1>1, <2>1 DEF ViewBlock, ShownBlock, Face
  <2> QED BY <1>1, <1>2, <2>2 DEF validate_block_cells
<1> QED BY <1>3 DEF Shown

\* The page records of the newest transaction.
PageTraced(img, n, p) ==
  LET i == img[Intent(bank_at(n))]
      t == img[Term(bank_at(n))]
      r == img[Rec(i.block, p)]
  IN  /\ p \in Pages /\ r.k = "PAGE" /\ r.seq = n /\ r.gen = i.base.gen
      /\ IF t.disp = "ABORT" THEN r.state = "UNKNOWN"
         ELSE /\ r.state # "UNKNOWN" /\ (i.count > 1 => r.state = "VALID")
              /\ img[Home(i.block, p)] = Data(r.data)

\* They are sound, and still hold what its terminal decided.
LEMMA TracedPages ==
  ASSUME NEW img, NEW n \in Nat, Good(img, n), n # 0,
         img[Intent(bank_at(n))].kind = "PROGRAM", NEW p \in Range(img[Intent(bank_at(n))])
  PROVE PageTraced(img, n, p)
<1> DEFINE i == img[Intent(bank_at(n))]
           t == img[Term(bank_at(n))]
           e == Eff(img, n, i.block)
           r == img[Rec(i.block, p)]
<1>1. Newest(img, n) /\ Traced(img, n) /\ \A b \in Blocks : BlockOK(img, n, b)
  BY DEF Good
<1>2. i.block \in Blocks /\ p \in Pages /\ p < e.next /\ e.gen = i.base.gen
  BY <1>1, TracedLow
<1>3. e \in BlockRecord
  BY <1>1, <1>2 DEF BlockOK
<1>4. ~Held(img, n, i.block, p)
  <2>1. ~(p >= e.next)
    BY <1>2, <1>3, NandConstants, SMTT(60) DEF Pages, BlockRecord
  <2> QED BY <1>2, <2>1, HeldHigh
<1>5. PageOK(e, r, img[Home(i.block, p)], p, n)
  BY <1>1, <1>2, <1>4 DEF BlockOK
<1>6. /\ r \in PageRecord /\ r.gen = e.gen
      /\ r.state = "UNKNOWN" \/ img[Home(i.block, p)] = Data(r.data)
  BY <1>2, <1>5 DEF PageOK
<1>7. r.k = "PAGE"
  BY <1>6, SMTT(60) DEF PageRecord
<1>8. /\ r.seq = n
      /\ IF t.disp = "ABORT" THEN r.state = "UNKNOWN"
         ELSE r.state # "UNKNOWN" /\ (i.count > 1 => r.state = "VALID")
  BY <1>1 DEF Traced
<1> QED BY <1>2, <1>6, <1>7, <1>8 DEF PageTraced

\* The newest transaction passes validate_transaction, also after the next one.
LEMMA Validates ==
  ASSUME NEW img, NEW n \in Nat, Good(img, n), n # 0, NEW m \in Nat, m >= n, NEW latest \in BOOLEAN,
         block_decode(img[Blk(img[Intent(bank_at(n))].block)], m),
         latest => Eff(img, n, img[Intent(bank_at(n))].block) = img[Blk(img[Intent(bank_at(n))].block)]
  PROVE validate_transaction(img, m, img[Intent(bank_at(n))], img[Term(bank_at(n))], latest)
<1> DEFINE i == img[Intent(bank_at(n))]
           t == img[Term(bank_at(n))]
<1>1. latest => block_after(i, t, img[Blk(i.block)])
  BY DEF Good, Traced
<1>2. Whole(i, n)
  BY DEF Good, Newest
<1>3. i.seq = n
  BY <1>2 DEF Whole
<1>4. n \in 1 .. m
  BY SMT
<1>5. ASSUME i.kind = "PROGRAM", NEW p \in i.first .. i.first + i.count - 1
      PROVE LET r == img[Rec(i.block, p)]
            IN  /\ page_valid(r, m)
                /\ r.seq = i.seq /\ r.gen = i.base.gen
                /\ IF t.disp = "ABORT" THEN r.state = "UNKNOWN"
                   ELSE /\ r.state # "UNKNOWN"
                        /\ i.count > 1 => r.state = "VALID"
                        /\ img[Home(i.block, p)] = Data(r.data)
  <2>1. p \in Range(i)
    BY <1>5 DEF Range
  <2>2. PageTraced(img, n, p)
    BY <1>5, <2>1, TracedPages
  <2> QED BY <1>3, <1>4, <2>2 DEF page_valid, PageTraced
<1> QED BY <1>1, <1>5 DEF validate_transaction

\* What recover reads in the two banks of a good image.
LEMMA Opens ==
  ASSUME NEW n \in 0 .. MaxSequence, Good(disk, n), Formatted(disk)
  PROVE /\ banks_consistent /\ selected = bank_at(n) /\ selected_consistent(bank_at(n))
        /\ disk[Term(bank_at(n))].seq = n
        /\ iv(prospective(n)) /\ disk[Intent(prospective(n))].seq > n <=> Pending(disk, n)
        /\ ~Pending(disk, n) /\ iv(prospective(n)) => n # 0 /\ disk[Intent(prospective(n))].seq = n - 1
        /\ Pending(disk, n) => n < MaxSequence /\ disk[Intent(prospective(n))].seq = n + 1
        /\ tv(bank_at(n)) /\ (tv(prospective(n)) => disk[Term(prospective(n))].seq <= n)
<1> DEFINE s == bank_at(n)
           q == prospective(n)
           ts == disk[Term(s)]
           tq == disk[Term(q)]
           is == disk[Intent(s)]
           iq == disk[Intent(q)]
<1>1. n \in Nat /\ MaxSequence \in Nat
  BY NandConstants, SMT
<1>2. s \in Banks /\ q \in Banks /\ s # q /\ bank_at(n + 1) = q
  BY <1>1, BankFlip
<1>3. (s = 0 /\ q = 1) \/ (s = 1 /\ q = 0)
  BY <1>2, SMT DEF Banks
<1>4. n = 0 => s = 0 /\ q = 1
  BY <1>1, SMT DEF bank_at, prospective
<1>5. Newest(disk, n) /\ Other(disk, n)
  BY DEF Good
<1>6. /\ Zero.k = "ZERO" /\ Torn.k = "TORN"
      /\ bootstrap.k = "TERM" /\ bootstrap.seq = 0 /\ bootstrap.disp = "BOOTSTRAP"
  BY SMT DEF Zero, Torn, bootstrap
<1>7. tv(s) /\ ts.seq = n /\ (iv(s) \/ is.k = "ZERO") /\ selected_consistent(s)
  <2>1. CASE n = 0
    <3>1. ts = bootstrap /\ is = Zero
      BY <1>4, <1>5, <2>1 DEF Newest
    <3>2. tv(s)
      BY <1>6, <3>1 DEF tv, terminal_decode
    <3> QED BY <1>4, <1>6, <2>1, <3>1, <3>2 DEF selected_consistent
  <2>2. CASE n # 0
    <3>1. PICK d \in {"COMMIT", "ABORT"} : Whole(is, n) /\ ts = terminal(is, d)
      BY <1>5, <2>2 DEF Newest
    <3>2. is.seq = n /\ iv(s)
      BY <3>1 DEF Whole, iv
    <3>3. ts.k = "TERM" /\ ts.seq = n /\ ts.disp = d /\ ts.intent = is /\ d # "BOOTSTRAP"
      BY <3>1, <3>2, SMTT(60) DEF terminal
    <3>4. tv(s)
      BY <2>2, <3>3 DEF tv, terminal_decode
    <3>5. selected_consistent(s)
      BY <2>2, <3>2, <3>3 DEF selected_consistent, terminal_matches
    <3> QED BY <3>2, <3>3, <3>4, <3>5
  <2> QED BY <2>1, <2>2
<1>8. /\ tv(q) \/ tq.k \in {"ZERO", "TORN"}
      /\ tv(q) => tq.seq = IF n = 0 THEN 0 ELSE n - 1
  <2>1. CASE tq = Torn
    BY <1>6, <2>1 DEF tv, terminal_decode
  <2>2. CASE tq # Torn
    BY <1>5, <2>2 DEF tv, Other
  <2> QED BY <2>1, <2>2
<1>9. /\ iv(q) \/ iq.k \in {"ZERO", "TORN"}
      /\ iv(q) => (n > 1 /\ Whole(iq, n - 1)) \/ (n < MaxSequence /\ Whole(iq, n + 1))
      /\ Pending(disk, n) => n < MaxSequence /\ iv(q)
  <2>1. ~Pending(disk, n) \/ Whole(iq, n + 1)
    BY DEF Pending, Successor
  <2>2. Whole(iq, n + 1) => iv(q)
    BY <1>2 DEF Whole, iv
  <2>3. n > 1 /\ Whole(iq, n - 1) => iv(q)
    <3>1. n > 1 => bank_at(n - 1) = q
      BY <1>1, SMT DEF bank_at, prospective
    <3> QED BY <3>1 DEF Whole, iv
  <2>4. iq = Zero \/ iq = Torn => ~iv(q) /\ iq.k \in {"ZERO", "TORN"}
    BY <1>6 DEF iv, intent_decode
  <2>5. iq = Zero \/ iq = Torn \/ (n > 1 /\ Whole(iq, n - 1)) \/ (n < MaxSequence /\ Whole(iq, n + 1))
    BY <1>5 DEF Other, Successor
  <2>6. n > 1 /\ Whole(iq, n - 1) => ~Whole(iq, n + 1)
    <3>1. n > 1 => n - 1 # n + 1
      BY <1>1, SMT
    <3> QED BY <3>1 DEF Whole
  <2> QED BY <2>1, <2>2, <2>3, <2>4, <2>5, <2>6
<1>10. Whole(iq, n - 1) => iq.seq = n - 1
  BY DEF Whole
<1>11. Whole(iq, n + 1) => iq.seq = n + 1
  BY DEF Whole
<1>12. Pending(disk, n) <=> Whole(iq, n + 1)
  BY DEF Pending, Successor
<1>13. iv(q) /\ iq.seq > n <=> Pending(disk, n)
  <2>1. n - 1 > n <=> FALSE
    BY <1>1, SMT
  <2>2. n + 1 > n
    BY <1>1, SMT
  <2> QED BY <1>9, <1>10, <1>11, <1>12, <2>1, <2>2
<1>14. ~Pending(disk, n) /\ iv(q) => n # 0 /\ iq.seq = n - 1
  <2>1. n > 1 => n # 0
    BY <1>1, SMT
  <2> QED BY <1>9, <1>10, <1>12, <2>1
<1>15. selected = s
  <2>1. CASE s = 0 /\ q = 1
    <3>1. ~(tq.seq > ts.seq) \/ ~tv(q)
      BY <1>1, <1>7, <1>8, SMT
    <3> QED BY <1>7, <2>1, <3>1 DEF selected
  <2>2. CASE s = 1 /\ q = 0
    <3>1. n # 0
      BY <1>4, <2>2, SMT
    <3>2. ~tv(q) \/ ts.seq > tq.seq
      BY <1>1, <1>7, <1>8, <3>1, SMT
    <3> QED BY <1>7, <2>2, <3>2 DEF selected
  <2> QED BY <1>3, <2>1, <2>2
<1>16. banks_consistent
  <2>1. tv(0) /\ tv(1) =>
          LET high == Max(disk[Term(0)].seq, disk[Term(1)].seq)
              low == disk[Term(0)].seq + disk[Term(1)].seq - high
          IN  high - low <= 1 /\ (high = low => high = 0)
    <3>1. tv(q) => (n = 0 /\ tq.seq = 0) \/ (n # 0 /\ tq.seq = n - 1)
      BY <1>8
    <3>2. CASE s = 0 /\ q = 1
      BY <1>1, <1>7, <3>1, <3>2, SMTT(60) DEF Max
    <3>3. CASE s = 1 /\ q = 0
      BY <1>1, <1>7, <3>1, <3>3, SMTT(60) DEF Max
    <3> QED BY <1>3, <3>2, <3>3
  <2>2. \A b \in Banks : b = s \/ b = q
    BY <1>3, SMT DEF Banks
  <2>3. \A b \in Banks : /\ tv(b) \/ disk[Term(b)].k \in {"ZERO", "TORN"}
                         /\ iv(b) \/ disk[Intent(b)].k \in {"ZERO", "TORN"}
    BY <1>7, <1>8, <1>9, <2>2
  <2>4. tv(0) \/ tv(1)
    BY <1>3, <1>7
  <2> QED BY <2>1, <2>3, <2>4 DEF banks_consistent, Formatted
<1>17. tv(q) => tq.seq <= n
  BY <1>1, <1>8, SMT
<1> QED BY <1>7, <1>9, <1>11, <1>12, <1>13, <1>14, <1>15, <1>16, <1>17

-----------------------------------------------------------------------------
(* What a crash leaves.                                                    *)

\* Every region holds the old record, the new one, or torn bytes.
LEMMA Mixed ==
  ASSUME NEW d, NEW c, NEW f \in Choices(d, c), NEW r \in Region
  PROVE /\ c[r] = d[r] => Left(d, c, f)[r] = d[r]
        /\ Left(d, c, f)[r] = d[r] \/ Left(d, c, f)[r] = c[r] \/ Left(d, c, f)[r] = Torn
<1>1. DOMAIN f = {x \in Region : c[x] # d[x]}
  BY DEF Choices
<1>2. r \notin DOMAIN f => Left(d, c, f)[r] = d[r]
  BY DEF Left
<1>3. r \in DOMAIN f => Left(d, c, f)[r] = d[r] \/ Left(d, c, f)[r] = c[r] \/ Left(d, c, f)[r] = Torn
  BY DEF Left
<1> QED BY <1>1, <1>2, <1>3

\* The mixture differs from the durable image where the cache does.
LEMMA MixedBut ==
  ASSUME NEW d, NEW c, NEW f \in Choices(d, c), NEW S, AgreeBut(c, d, S)
  PROVE AgreeBut(Left(d, c, f), d, S)
BY Mixed DEF AgreeBut

\* A pending INTENT has a sequence number to use: begin found room for it.
LEMMA PendingRoom ==
  ASSUME NEW img, NEW n \in 0 .. MaxSequence, Good(img, n), Pending(img, n)
  PROVE n < MaxSequence /\ n + 1 \in 0 .. MaxSequence
<1>1. n \in Nat /\ MaxSequence \in Nat /\ n - 1 # n + 1 /\ n + 1 \in Nat /\ (n > 1 => n - 1 \in Nat)
  BY NandConstants, SMT
<1>2. Whole(Successor(img, n), n + 1)
  BY DEF Pending
<1>3. Successor(img, n) # Zero /\ Successor(img, n) # Torn
  BY <1>1, <1>2, LogRecords
<1>4. ~(n > 1 /\ Whole(Successor(img, n), n - 1))
  BY <1>1, <1>2, LogRecords
<1>5. n < MaxSequence
  BY <1>3, <1>4 DEF Good, Other
<1> QED BY <1>1, <1>5, SMT

\* An image that equals a good one is related in the same way.
LEMMA SameFine ==
  ASSUME NEW img, NEW base, NEW n \in 0 .. MaxSequence, NEW k, NEW o,
         AgreeBut(img, base, {Super(q) : q \in Banks}), Good(base, n), Related(base, n, k, o)
  PROVE Fine(img, k, o)
<1>1. n \in Nat
  BY SMT
<1>2. Good(img, n) /\ Shown(img, n) = Shown(base, n) /\ (Pending(img, n) <=> Pending(base, n))
  BY <1>1, OverSuper
<1>3. Successor(img, n) = Successor(base, n)
  BY <1>1, BankFlip, ButSuper, SMTT(60) DEF Successor
<1>4. Related(img, n, k, o)
  BY <1>2, <1>3 DEF Related
<1> QED BY <1>2, <1>4 DEF Fine

\* With nothing in flight the callers know what the image shows.
LEMMA IdleRelated ==
  ASSUME NEW img, NEW n, NEW k, NEW o, Idle(img, n, k)
  PROVE Good(img, n) /\ Related(img, n, k, o)
BY DEF Idle, Related

\* So they do under an INTENT, which belongs to the mutation in flight.
LEMMA UnderwayRelated ==
  ASSUME NEW img, NEW n, NEW k, NEW o, Underway(img, n, k, o)
  PROVE Good(img, n) /\ Related(img, n, k, o)
BY DEF Underway, Related

\* A mutation in flight is one.
LEMMA MatchesOp ==
  ASSUME NEW i, NEW o, Matches(i, o)
  PROVE o # C!NoOp /\ o \in C!Ops
<1>1. o \in C!Ops
  BY DEF Matches
<1>2. o.kind \in {"PROGRAM", "ERASE", "MARK_BAD"}
  BY <1>1, SMTT(60) DEF C!Ops
<1>3. C!NoOp.kind = "NONE"
  BY SMT DEF C!NoOp
<1> QED BY <1>1, <1>2, <1>3

\* Before the superblocks, a crash leaves no formatted image.
LEMMA CrashUnformatted ==
  ASSUME NEW d, NEW c, NEW k, NEW o, \A q \in Banks : d[Super(q)] = Zero /\ c[Super(q)] = Zero
  PROVE Crashable(d, c, k, o)
<1>1. Zero.k # "SUPER"
  BY SMT DEF Zero
<1>2. 0 \in Banks
  BY SMT DEF Banks
<1>3. ASSUME NEW f \in Choices(d, c)
      PROVE Left(d, c, f)[Super(0)] = Zero
  <2>1. Super(0) \in Region
    BY <1>2, BankRegions
  <2>2. d[Super(0)] = Zero /\ c[Super(0)] = Zero
    BY <1>2
  <2> QED BY <2>1, <2>2, Mixed, SMTT(60)
<1> QED BY <1>1, <1>2, <1>3 DEF Crashable, Fine, Formatted

\* During the superblocks, and with nothing written.
LEMMA CrashIdle ==
  ASSUME NEW d, NEW c, NEW n \in 0 .. MaxSequence, NEW k, NEW o, Idle(d, n, k),
         AgreeBut(c, d, {Super(q) : q \in Banks})
  PROVE Crashable(d, c, k, o)
<1>1. ASSUME NEW f \in Choices(d, c)
      PROVE Fine(Left(d, c, f), k, o)
  <2>1. AgreeBut(Left(d, c, f), d, {Super(q) : q \in Banks})
    BY MixedBut
  <2> QED BY <2>1, SameFine, IdleRelated
<1> QED BY <1>1 DEF Crashable

\* During the INTENT.
LEMMA CrashIntent ==
  ASSUME NEW d, NEW c, NEW n \in 0 .. MaxSequence, NEW k, NEW o, Idle(d, n, k), Underway(c, n, k, o),
         AgreeBut(c, d, {Intent(prospective(n))})
  PROVE Crashable(d, c, k, o)
<1>1. n \in Nat
  BY SMT
<1>2. SUFFICES ASSUME NEW f \in Choices(d, c) PROVE Fine(Left(d, c, f), k, o)
  BY DEF Crashable
<1>3. PICK img : img = Left(d, c, f)
  OBVIOUS
<1>4. PICK R : R = Intent(prospective(n))
  OBVIOUS
<1>5. AgreeBut(img, d, {R})
  BY <1>3, <1>4, MixedBut
<1>6. R \in Region
  BY <1>1, <1>4, BankFlip, BankRegions
<1>7. img[R] = d[R] \/ img[R] = c[R] \/ img[R] = Torn
  BY <1>3, <1>6, Mixed
<1>8. CASE img[R] = d[R]
  <2>1. AgreeBut(img, d, {Super(q) : q \in Banks})
    BY <1>5, <1>8 DEF AgreeBut
  <2> QED BY <1>3, <2>1, SameFine, IdleRelated
<1>9. CASE img[R] = c[R]
  <2>1. AgreeBut(img, c, {Super(q) : q \in Banks})
    BY <1>4, <1>5, <1>9 DEF AgreeBut
  <2> QED BY <1>3, <2>1, SameFine, UnderwayRelated
<1>10. CASE img[R] = Torn
  <2>1. Good(d, n) /\ ~Pending(d, n) /\ Shown(d, n) = k
    BY DEF Idle
  <2>2. Idle(img, n, k)
    BY <1>1, <1>4, <1>5, <1>10, <2>1, OverTornIntent DEF Idle
  <2> QED BY <1>3, <2>2, IdleRelated DEF Fine
<1> QED BY <1>7, <1>8, <1>9, <1>10

\* During the writes that the INTENT covers.
LEMMA CrashHomes ==
  ASSUME NEW d, NEW c, NEW n \in 0 .. MaxSequence, NEW k, NEW o, Underway(d, n, k, o),
         AgreeBut(c, d, Touches(Successor(d, n)))
  PROVE Crashable(d, c, k, o)
<1>1. n \in Nat
  BY SMT
<1>2. ASSUME NEW f \in Choices(d, c)
      PROVE Fine(Left(d, c, f), k, o)
  <2>1. PICK img : img = Left(d, c, f)
    OBVIOUS
  <2>2. AgreeBut(img, d, Touches(Successor(d, n)))
    BY <2>1, MixedBut
  <2>3. Underway(img, n, k, o)
    BY <1>1, <2>2, OverHomes DEF Underway
  <2> QED BY <2>1, <2>3, UnderwayRelated DEF Fine
<1> QED BY <1>2 DEF Crashable

\* During the terminal.
LEMMA CrashTerminal ==
  ASSUME NEW d, NEW c, NEW n \in 0 .. MaxSequence, NEW k, NEW o, NEW x \in {"COMMIT", "ABORT"},
         Underway(d, n, k, o), Outcome(d, Successor(d, n), o, x),
         AgreeBut(c, d, {Term(prospective(n))}), c[Term(prospective(n))] = terminal(Successor(d, n), x)
  PROVE Crashable(d, c, k, o)
<1>1. n \in Nat
  BY SMT
<1>2. SUFFICES ASSUME NEW f \in Choices(d, c) PROVE Fine(Left(d, c, f), k, o)
  BY DEF Crashable
<1>3. PICK img : img = Left(d, c, f)
  OBVIOUS
<1>4. PICK R : R = Term(prospective(n))
  OBVIOUS
<1>5. AgreeBut(img, d, {R})
  BY <1>3, <1>4, MixedBut
<1>6. R \in Region
  BY <1>1, <1>4, BankFlip, BankRegions
<1>7. img[R] = d[R] \/ img[R] = c[R] \/ img[R] = Torn
  BY <1>3, <1>6, Mixed
<1>8. Good(d, n) /\ Pending(d, n) /\ Shown(d, n) = k /\ Matches(Successor(d, n), o)
  BY DEF Underway
<1>9. CASE img[R] = d[R]
  <2>1. AgreeBut(img, d, {Super(q) : q \in Banks})
    BY <1>5, <1>9 DEF AgreeBut
  <2> QED BY <1>3, <2>1, SameFine, UnderwayRelated
<1>10. CASE img[R] = Torn
  <2>1. Underway(img, n, k, o)
    BY <1>1, <1>4, <1>5, <1>8, <1>10, OverTornTerm DEF Underway
  <2> QED BY <1>3, <2>1, UnderwayRelated DEF Fine
<1>11. CASE img[R] = c[R]
  <2>1. n + 1 \in 0 .. MaxSequence
    BY <1>8, PendingRoom
  <2>2. img[Term(prospective(n))] = terminal(Successor(d, n), x)
    BY <1>4, <1>11
  <2>3. Decided(img, n + 1, k, o, x)
    <3>1. AgreeBut(img, d, {Term(prospective(n))})
      BY <1>4, <1>5
    <3>2. Decided(img, n + 1, Shown(d, n), o, x)
      BY <1>1, <1>8, <2>2, <3>1, Decide
    <3> QED BY <1>8, <3>2
  <2>4. o # C!NoOp
    BY <1>8, MatchesOp
  <2>5. Related(img, n + 1, k, o)
    BY <2>3, <2>4 DEF Related, Decided
  <2> QED BY <1>3, <2>1, <2>3, <2>5 DEF Fine, Decided
<1> QED BY <1>7, <1>9, <1>10, <1>11

-----------------------------------------------------------------------------
(* The steps of the engine.                                                *)

Step == NandInv' /\ [C!Next]_<<known, op>>

\* Writes replace the records of their domain.
LEMMA Written ==
  ASSUME NEW d, NEW w, NEW c, c = [r \in Region |-> IF r \in DOMAIN w THEN w[r] ELSE d[r]]
  PROVE /\ AgreeBut(c, d, DOMAIN w) /\ (\A r \in Region : r \in DOMAIN w => c[r] = w[r])
        /\ c = [r \in Region |-> c[r]]
BY DEF AgreeBut

\* A formatted image shows fresh blocks.
LEMMA FreshImage ==
  ASSUME NEW img, \A q \in Banks : img[Intent(q)] = Zero /\ img[Term(q)] = bootstrap,
         \A b \in Blocks : img[Blk(b)] = FreshBlk,
         \A b \in Blocks, p \in Pages : img[Rec(b, p)] = Zero
  PROVE Idle(img, 0, C!Fresh)
<1>1. 0 \in Nat /\ 0 \in Banks /\ 1 \in Banks /\ prospective(0) = 1 /\ 0 + 1 \in Nat
  BY SMT DEF Banks, prospective, bank_at
<1>2. ~Whole(Zero, 0 + 1)
  BY <1>1, LogRecords
<1>3. ~Pending(img, 0) /\ Successor(img, 0) = Zero
  BY <1>1, <1>2 DEF Pending, Successor
<1>4. Newest(img, 0)
  BY <1>1 DEF Newest
<1>5. bootstrap.k = "TERM" /\ bootstrap.seq = 0 /\ bootstrap.disp = "BOOTSTRAP"
  BY SMT DEF bootstrap
<1>6. Other(img, 0)
  BY <1>1, <1>3, <1>5 DEF Other, terminal_decode
<1>7. /\ FreshBlk \in BlockRecord /\ FreshBlk.k = "BLOCK" /\ FreshBlk.seq = 0 /\ FreshBlk.gen = 0
      /\ FreshBlk.attempts = 0 /\ FreshBlk.next = 0 /\ FreshBlk.prefix = 0 /\ FreshBlk.bad = FALSE
  BY SMT DEF FreshBlk, BlockRecord
<1>8. PPB \in Nat /\ 0 <= PPB /\ 0 <= 0 /\ \A p \in Pages : ~(p < 0) /\ p >= 0
  BY NandConstants, SMT DEF Pages
<1>9. block_decode(FreshBlk, 0)
  BY <1>7, <1>8 DEF block_decode
<1>10. \A b \in Blocks : Eff(img, 0, b) = FreshBlk
  BY <1>3 DEF Eff
<1>11. \A b \in Blocks : BlockOK(img, 0, b)
  BY <1>7, <1>8, <1>9, <1>10 DEF BlockOK, PageOK
<1>12. Good(img, 0)
  BY <1>4, <1>6, <1>11 DEF Good, Traced
<1>13. ASSUME NEW b \in Blocks
       PROVE ShownBlock(img, FreshBlk, b) = C!FreshBlock
  <2>1. \A p \in Pages : Cell(FreshBlk, img[Rec(b, p)], p) = C!Erased
    BY <1>7, <1>8 DEF Cell
  <2>2. C!Pages = Pages
    BY DEF Pages, C!Pages
  <2> QED BY <1>7, <2>1, <2>2 DEF ShownBlock, Face, C!FreshBlock
<1>14. Shown(img, 0) = C!Fresh
  BY <1>10, <1>13 DEF Shown, C!Fresh
<1> QED BY <1>3, <1>12, <1>14 DEF Idle

\* format: block records and bootstrap terminals, before any superblock.
LEMMA FormatBody ==
  ASSUME NandInv, UNCHANGED set, format_body
  PROVE Step
<1>1. /\ Calm /\ disk = [r \in Region |-> Zero] /\ cache = disk /\ sequence \in 0 .. MaxSequence
      /\ set \in Settings /\ DOMAIN known = Blocks /\ pc = "empty"
  BY DEF NandInv, Typed, Stage, format_body
<1>2. pc' = "format_body" /\ UNCHANGED <<set, sequence, cur, known, op>> /\ disk' = disk
  BY DEF format_body, Write
<1>3. PICK w : w = [r \in {Blk(b) : b \in Blocks} \cup {Term(b) : b \in Banks} |->
                    IF r[1] = "blk" THEN FreshBlk ELSE bootstrap]
  OBVIOUS
<1>4. cache' = [r \in Region |-> IF r \in DOMAIN w THEN w[r] ELSE disk[r]]
  BY <1>3 DEF format_body, Write
<1>5. AgreeBut(cache', disk, DOMAIN w) /\ \A r \in Region : r \in DOMAIN w => cache'[r] = w[r]
  BY <1>4, Written
<1>6. DOMAIN w = {Blk(b) : b \in Blocks} \cup {Term(b) : b \in Banks}
  BY <1>3
<1>7. ASSUME NEW b \in Blocks
      PROVE cache'[Blk(b)] = FreshBlk
  <2>1. Blk(b)[1] = "blk"
    BY SMT DEF Blk
  <2>2. w[Blk(b)] = FreshBlk
    BY <1>3, <2>1
  <2> QED BY <1>5, <1>6, <2>2, BlockRegions
<1>8. ASSUME NEW q \in Banks
      PROVE cache'[Term(q)] = bootstrap
  <2>1. Term(q)[1] # "blk"
    BY SMT DEF Term
  <2>2. w[Term(q)] = bootstrap
    BY <1>3, <2>1
  <2> QED BY <1>5, <1>6, <2>2, BankRegions
<1>9. ASSUME NEW r \in Region, \A b \in Blocks : r # Blk(b), \A q \in Banks : r # Term(q)
      PROVE cache'[r] = Zero
  BY <1>1, <1>5, <1>6, <1>9 DEF AgreeBut
<1>10. ASSUME NEW q \in Banks
       PROVE cache'[Intent(q)] = Zero /\ cache'[Super(q)] = Zero /\ disk[Super(q)] = Zero
  BY <1>1, <1>9, BankRegions
<1>11. ASSUME NEW b \in Blocks, NEW p \in Pages
       PROVE cache'[Rec(b, p)] = Zero
  <2>1. Rec(b, p) \in Region /\ \A z \in Blocks : Rec(b, p) # Blk(z)
    BY BlockRegions
  <2>2. \A q \in Banks : Rec(b, p) # Term(q)
    BY BankRegions
  <2> QED BY <1>9, <2>1, <2>2
<1>12. Idle(cache', 0, known')
  <2>1. Idle(cache', 0, C!Fresh)
    BY <1>7, <1>8, <1>10, <1>11, FreshImage
  <2> QED BY <1>1, <1>2, <2>1 DEF Calm
<1>13. Crashable(disk', cache', known', op')
  BY <1>2, <1>10, CrashUnformatted
<1>14. Typed'
  <2>1. cache' = [r \in Region |-> cache'[r]]
    BY <1>4, Written
  <2> QED BY <1>1, <1>2, <2>1 DEF Typed, Running
<1>15. Stage'
  BY <1>1, <1>2, <1>10, <1>12, <1>13 DEF Stage, Calm
<1> QED BY <1>2, <1>14, <1>15 DEF Step, NandInv

\* format: the two superblocks.
LEMMA FormatSuper ==
  ASSUME NandInv, UNCHANGED set, format_super
  PROVE Step
<1>1. /\ Calm /\ Idle(cache, 0, known) /\ sequence \in 0 .. MaxSequence /\ cache = [r \in Region |-> cache[r]]
      /\ set \in Settings /\ DOMAIN known = Blocks
  BY DEF NandInv, Typed, Stage, format_super
<1>2. pc' = "format_super" /\ UNCHANGED <<set, sequence, cur, known, op>> /\ disk' = cache
  BY DEF format_super, Write
<1>3. PICK w : w = [r \in {Super(b) : b \in Banks} |-> [k |-> "SUPER"]]
  OBVIOUS
<1>4. cache' = [r \in Region |-> IF r \in DOMAIN w THEN w[r] ELSE cache[r]]
  BY <1>3 DEF format_super, Write
<1>5. /\ AgreeBut(cache', cache, DOMAIN w) /\ (\A r \in Region : r \in DOMAIN w => cache'[r] = w[r])
      /\ cache' = [r \in Region |-> cache'[r]]
  BY <1>4, Written
<1>6. DOMAIN w = {Super(b) : b \in Banks}
  BY <1>3
<1>7. ASSUME NEW q \in Banks
      PROVE cache'[Super(q)].k = "SUPER"
  <2>1. cache'[Super(q)] = [k |-> "SUPER"]
    BY <1>3, <1>5, <1>6, BankRegions
  <2> QED BY <2>1, SMT
<1>8. 0 \in 0 .. MaxSequence
  BY NandConstants, SMT
<1>9. Crashable(disk', cache', known', op')
  <2>1. Crashable(cache, cache', known, op)
    BY <1>1, <1>5, <1>6, <1>8, CrashIdle
  <2> QED BY <1>2, <2>1
<1>10. Typed'
  BY <1>1, <1>2, <1>5 DEF Typed, Running
<1>11. Stage'
  BY <1>1, <1>2, <1>5, <1>6, <1>7, <1>9 DEF Stage, Calm, Formatted
<1> QED BY <1>2, <1>10, <1>11 DEF Step, NandInv

\* A ready engine that reads what the image shows.
LEMMA Ready ==
  ASSUME set' \in Settings, NEW n \in 0 .. MaxSequence, NEW k, pc' = "ready", sequence' = n,
         disk' = cache', cache' = [r \in Region |-> cache'[r]], Formatted(cache'), Idle(cache', n, k), Answer
  PROVE NandInv' /\ known' = k /\ op' = C!NoOp
<1>1. n \in Nat
  BY SMT
<1>2. known' = [b \in Blocks |-> ViewBlock(cache', b, n)]
  BY DEF Answer, View
<1>3. known' = k
  BY <1>1, <1>2, ViewIs DEF Idle
<1>4. DOMAIN known' = Blocks
  BY <1>2
<1>5. op' = C!NoOp
  BY DEF Answer
<1>6. Typed'
  BY <1>4 DEF Typed, Running
<1>7. AgreeBut(cache', disk', {Super(q) : q \in Banks})
  BY DEF AgreeBut
<1>8. Crashable(disk', cache', known', op')
  BY <1>3, <1>7, CrashIdle
<1>9. Stage'
  BY <1>3, <1>5, <1>8 DEF Stage
<1> QED BY <1>3, <1>5, <1>6, <1>9 DEF NandInv

\* format returns with fresh blocks.
LEMMA FormatDone ==
  ASSUME NandInv, UNCHANGED set, format_done
  PROVE Step
<1>1. /\ Calm /\ Idle(disk, 0, known) /\ Formatted(cache) /\ cache = [r \in Region |-> cache[r]]
      /\ AgreeBut(cache, disk, {Super(q) : q \in Banks}) /\ set \in Settings
  BY DEF NandInv, Typed, Stage, format_done
<1>2. pc' = "ready" /\ UNCHANGED <<set, cache, sequence>> /\ disk' = cache /\ Answer
  BY DEF format_done
<1>3. 0 \in Nat /\ 0 \in 0 .. MaxSequence
  BY NandConstants, SMT
<1>4. Idle(cache, 0, known)
  BY <1>1, <1>3, OverSuper DEF Idle
<1>5. NandInv' /\ known' = known /\ op' = C!NoOp
  <2>1. set' \in Settings /\ sequence' = 0
    BY <1>1, <1>2 DEF Calm
  <2>2. disk' = cache' /\ cache' = [r \in Region |-> cache'[r]] /\ Formatted(cache') /\ Idle(cache', 0, known)
    BY <1>1, <1>2, <1>4
  <2> QED BY <1>2, <1>3, <2>1, <2>2, Ready
<1> QED BY <1>1, <1>5 DEF Step, Calm

\* begin: what the callers of begin have checked.
Admissible(e, o) ==
  /\ o \in C!Ops /\ ~e.bad
  /\ \/ /\ o.kind = "PROGRAM" /\ e.prefix = 0
        /\ o.first = e.next /\ o.count > 0 /\ o.first + o.count <= PPB
     \/ o.kind = "ERASE" /\ e.attempts < MaxErase /\ o.first = 0 /\ o.count \in 1 .. PPB
     \/ o.kind = "MARK_BAD" /\ o.first = 0 /\ o.count = 0
  /\ o.kind = "PROGRAM" /\ o.count > 1 => o.state = "VALID"

\* The INTENT of an admissible mutation is whole.
LEMMA BeginIntent ==
  ASSUME NEW n \in Nat, NEW o, NEW e \in BlockRecord, block_decode(e, n), Admissible(e, o), NEW i,
         i = [k |-> "INTENT", seq |-> n + 1, block |-> o.block, kind |-> o.kind,
              first |-> o.first, count |-> o.count, base |-> e]
  PROVE Whole(i, n + 1) /\ Matches(i, o) /\ i.block = o.block /\ i.base = e /\ i.seq = n + 1
<1>1. o \in C!Ops
  BY DEF Admissible
<1>2. /\ o.block \in Blocks /\ o.kind \in {"PROGRAM", "ERASE", "MARK_BAD"}
      /\ o.first \in Nat /\ o.count \in Nat
  BY <1>1, SMTT(60) DEF C!Ops
<1>3. /\ i.k = "INTENT" /\ i.seq = n + 1 /\ i.block = o.block /\ i.kind = o.kind
      /\ i.first = o.first /\ i.count = o.count /\ i.base = e
  BY SMTT(60)
<1>4. n + 1 \in Nat /\ n + 1 # 0 /\ (n + 1) - 1 = n
  BY SMT
<1>5. i \in IntentRecord
  BY <1>2, <1>4, SMTT(60) DEF IntentRecord
<1>6. block_decode(i.base, i.seq - 1)
  BY <1>3, <1>4
<1>7. intent_decode(i, bank_at(n + 1))
  BY <1>3, <1>4, <1>6 DEF intent_decode, Admissible
<1>8. Matches(i, o)
  BY <1>1, <1>3 DEF Matches, Admissible
<1> QED BY <1>3, <1>5, <1>7, <1>8 DEF Whole

\* begin starts a mutation that the contract accepts.
LEMMA BeginStep ==
  ASSUME NandInv, UNCHANGED set, pc = "ready", NEW o, begin(o), Admissible(cache[Blk(o.block)], o)
  PROVE Step
<1>1. /\ cache = disk /\ Formatted(disk) /\ Idle(disk, sequence, known) /\ op = C!NoOp
      /\ set \in Settings /\ sequence \in 0 .. MaxSequence /\ DOMAIN known = Blocks
      /\ disk = [r \in Region |-> disk[r]]
  BY DEF NandInv, Typed, Stage
<1>2. PICK n : n = sequence
  OBVIOUS
<1>3. PICK e : e = cache[Blk(o.block)]
  OBVIOUS
<1>4. PICK i : i = [k |-> "INTENT", seq |-> n + 1, block |-> o.block, kind |-> o.kind,
                    first |-> o.first, count |-> o.count, base |-> e]
  OBVIOUS
<1>5. PICK w : w = [r \in {Intent(bank_at(i.seq))} |-> i]
  OBVIOUS
<1>6. /\ room(n) /\ pc' = "intent" /\ cur' = i /\ op' = o /\ UNCHANGED <<sequence, known>>
      /\ disk' = disk /\ cache' = [r \in Region |-> IF r \in DOMAIN w THEN w[r] ELSE disk[r]]
  BY <1>2, <1>3, <1>4, <1>5 DEF begin, Write
<1>7. n \in Nat /\ n \in 0 .. MaxSequence /\ n < MaxSequence
  BY <1>1, <1>2, <1>6, NandConstants, SMT DEF room
<1>8. o \in C!Ops /\ o.block \in Blocks
  <2>1. o \in C!Ops
    BY DEF Admissible
  <2> QED BY <2>1, SMTT(60) DEF C!Ops
<1>9. Good(disk, n) /\ ~Pending(disk, n) /\ Shown(disk, n) = known
  BY <1>1, <1>2 DEF Idle
<1>10. Eff(disk, n, o.block) = e /\ e \in BlockRecord /\ block_decode(e, n)
  <2>1. Eff(disk, n, o.block) = e
    BY <1>1, <1>3, <1>9 DEF Eff
  <2>2. BlockOK(disk, n, o.block)
    BY <1>8, <1>9 DEF Good
  <2> QED BY <2>1, <2>2 DEF BlockOK
<1>11. Whole(i, n + 1) /\ Matches(i, o) /\ i.block = o.block /\ i.base = e /\ i.seq = n + 1
  BY <1>3, <1>4, <1>7, <1>10, BeginIntent, SMTT(60)
<1>12. bank_at(i.seq) = prospective(n) /\ prospective(n) \in Banks
  BY <1>7, <1>11, BankFlip
<1>13. /\ AgreeBut(cache', disk, DOMAIN w) /\ (\A r \in Region : r \in DOMAIN w => cache'[r] = w[r])
       /\ cache' = [r \in Region |-> cache'[r]]
  BY <1>6, Written
<1>14. DOMAIN w = {Intent(prospective(n))} /\ w[Intent(prospective(n))] = i
  BY <1>5, <1>12
<1>15. Successor(cache', n) = i /\ AgreeBut(cache', disk, {Intent(prospective(n))})
  BY <1>12, <1>13, <1>14, BankRegions DEF Successor
<1>16. Underway(cache', n, known, o)
  <2>1. Whole(Successor(cache', n), n + 1)
    BY <1>11, <1>15
  <2>2. Successor(cache', n).base = disk[Blk(Successor(cache', n).block)]
    BY <1>1, <1>3, <1>11, <1>15
  <2>3. Good(cache', n) /\ Shown(cache', n) = Shown(disk, n) /\ Pending(cache', n)
    BY <1>7, <1>9, <1>15, <2>1, <2>2, OverIntent
  <2> QED BY <1>9, <1>11, <1>15, <2>3 DEF Underway
<1>17. Crashable(disk, cache', known, o)
  BY <1>1, <1>2, <1>7, <1>15, <1>16, CrashIntent
<1>18. Typed'
  BY <1>1, <1>6, <1>13 DEF Typed, Running
<1>19. Stage'
  <2>1. /\ Formatted(disk') /\ Idle(disk', sequence', known') /\ Underway(cache', sequence', known', op')
        /\ cur' = Successor(cache', sequence') /\ AgreeBut(cache', disk', {Intent(prospective(sequence'))})
        /\ Crashable(disk', cache', known', op')
    BY <1>1, <1>2, <1>6, <1>15, <1>16, <1>17
  <2> QED BY <1>6, <2>1 DEF Stage
<1>20. C!Begin
  <2>1. known[o.block] = ShownBlock(disk, e, o.block)
    BY <1>8, <1>9, <1>10 DEF Shown
  <2>2. known[o.block].bad = e.bad /\ known[o.block].prefix = e.prefix /\ known[o.block].next = e.next
    BY <2>1, SMTT(60) DEF ShownBlock, Face
  <2>3. C!Accepts(known[o.block], o)
    BY <1>3, <2>2 DEF C!Accepts, Admissible
  <2> QED BY <1>1, <1>6, <1>8, <2>3 DEF C!Begin
<1> QED BY <1>18, <1>19, <1>20 DEF Step, NandInv, C!Next

\* Every mutation a caller may start.
LEMMA MutateStep ==
  ASSUME NandInv, UNCHANGED set, Mutate
  PROVE Step
<1>1. PICK b \in set.blocks :
        \/ \E count \in 1 .. PPB : program_pages(b, count)
        \/ media_program(b)
        \/ \E applied \in 1 .. PPB, integrity \in {"VALID", "TORN"} : media_erase(b, applied, integrity)
        \/ media_bad(b)
  BY DEF Mutate
<1>2. set \in Settings
  BY DEF NandInv, Typed
<1>3. b \in Blocks
  BY <1>1, <1>2, NandConstants
<1>4. pc = "ready"
  BY <1>1 DEF program_pages, media_program, media_erase, media_bad, live
<1>5. PICK e : e = cache[Blk(b)]
  OBVIOUS
<1>6. e \in BlockRecord
  <2>1. cache = disk /\ Good(disk, sequence) /\ ~Pending(disk, sequence)
    BY <1>4 DEF NandInv, Stage, Idle
  <2>2. BlockOK(disk, sequence, b)
    BY <1>3, <2>1 DEF Good
  <2> QED BY <1>5, <2>1, <2>2 DEF BlockOK, Eff
<1>7. e.next \in Nat /\ sequence + 1 \in Nat /\ PPB \in Nat
  <2>1. sequence \in 0 .. MaxSequence
    BY DEF NandInv, Typed
  <2> QED BY <1>6, <2>1, NandConstants, SMTT(60) DEF BlockRecord
<1>8. CASE \E count \in 1 .. PPB : program_pages(b, count)
  <2>1. PICK count \in 1 .. PPB : program_pages(b, count)
    BY <1>8
  <2>2. PICK o : o = [kind |-> "PROGRAM", block |-> b, first |-> e.next, count |-> count,
                      state |-> "VALID", data |-> sequence + 1]
    OBVIOUS
  <2>3. begin(o) /\ ~e.bad /\ e.prefix = 0 /\ e.next + count <= PPB
    BY <1>5, <2>1, <2>2 DEF program_pages, Programmable
  <2>4. count \in Nat /\ count > 0
    BY <1>7, SMT
  <2>5. /\ o \in C!Ops /\ o.kind = "PROGRAM" /\ o.block = b /\ o.first = e.next /\ o.count = count
        /\ o.state = "VALID"
    <3>1. o \in C!Ops
      BY <1>7, <1>3, <2>2, <2>4, SMTT(60) DEF C!Ops
    <3> QED BY <2>2, <3>1, SMTT(60)
  <2>6. Admissible(e, o)
    BY <2>3, <2>4, <2>5 DEF Admissible
  <2> QED BY <1>4, <1>5, <2>3, <2>5, <2>6, BeginStep
<1>9. CASE media_program(b)
  <2>1. PICK o : o = [kind |-> "PROGRAM", block |-> b, first |-> e.next, count |-> 1,
                      state |-> "TORN", data |-> sequence + 1]
    OBVIOUS
  <2>2. begin(o) /\ ~e.bad /\ e.prefix = 0 /\ e.next < PPB
    BY <1>5, <1>9, <2>1 DEF media_program, Programmable
  <2>3. 1 \in Nat /\ 1 > 0 /\ ~(1 > 1) /\ e.next + 1 <= PPB
    BY <1>7, <2>2, SMT
  <2>4. /\ o \in C!Ops /\ o.kind = "PROGRAM" /\ o.block = b /\ o.first = e.next /\ o.count = 1
    <3>1. o \in C!Ops
      BY <1>7, <1>3, <2>1, <2>3, SMTT(60) DEF C!Ops
    <3> QED BY <2>1, <3>1, SMTT(60)
  <2>5. Admissible(e, o)
    BY <2>2, <2>3, <2>4 DEF Admissible
  <2> QED BY <1>4, <1>5, <2>2, <2>4, <2>5, BeginStep
<1>10. CASE \E applied \in 1 .. PPB, integrity \in {"VALID", "TORN"} : media_erase(b, applied, integrity)
  <2>1. PICK applied \in 1 .. PPB, integrity \in {"VALID", "TORN"} : media_erase(b, applied, integrity)
    BY <1>10
  <2>2. PICK o : o = [kind |-> "ERASE", block |-> b, first |-> 0, count |-> applied,
                      state |-> integrity, data |-> 0]
    OBVIOUS
  <2>3. begin(o) /\ ~e.bad /\ e.attempts < MaxErase
    BY <1>5, <2>1, <2>2 DEF media_erase
  <2>4. applied \in Nat /\ 0 \in Nat
    BY <1>7, SMT
  <2>5. /\ o \in C!Ops /\ o.kind = "ERASE" /\ o.block = b /\ o.first = 0 /\ o.count = applied
    <3>1. o \in C!Ops
      BY <1>3, <2>2, <2>4, SMTT(60) DEF C!Ops
    <3> QED BY <2>2, <3>1, SMTT(60)
  <2>6. Admissible(e, o)
    BY <2>3, <2>5 DEF Admissible
  <2> QED BY <1>4, <1>5, <2>3, <2>5, <2>6, BeginStep
<1>11. CASE media_bad(b)
  <2>1. PICK o : o = [kind |-> "MARK_BAD", block |-> b, first |-> 0, count |-> 0,
                      state |-> "VALID", data |-> 0]
    OBVIOUS
  <2>2. begin(o) /\ ~e.bad
    BY <1>5, <1>11, <2>1 DEF media_bad
  <2>3. 0 \in Nat
    BY SMT
  <2>4. /\ o \in C!Ops /\ o.kind = "MARK_BAD" /\ o.block = b /\ o.first = 0 /\ o.count = 0
    <3>1. o \in C!Ops
      BY <1>3, <2>1, <2>3, SMTT(60) DEF C!Ops
    <3> QED BY <2>1, <3>1, SMTT(60)
  <2>5. Admissible(e, o)
    BY <2>2, <2>4 DEF Admissible
  <2> QED BY <1>4, <1>5, <2>2, <2>4, <2>5, BeginStep
<1> QED BY <1>1, <1>8, <1>9, <1>10, <1>11

\* The regions a mutation writes.
Records(i) == IF i.kind = "PROGRAM" THEN {Rec(i.block, p) : p \in Range(i)} ELSE {}
Copies(i) == IF i.kind = "PROGRAM" THEN {Home(i.block, p) : p \in Range(i)} ELSE {}

\* The block record, page records and homes of a mutation do not overlap.
LEMMA Written3 ==
  ASSUME NEW i, NEW m \in Nat, Whole(i, m)
  PROVE /\ {Blk(i.block)} \cup Records(i) \cup Copies(i) = Touches(i) /\ Touches(i) \subseteq Region
        /\ Blk(i.block) \notin Records(i) /\ Blk(i.block) \notin Copies(i)
        /\ Records(i) \cap Copies(i) = {}
<1>1. i.block \in Blocks
  BY WholeIntent
<1>2. i.kind = "PROGRAM" => \A p \in Range(i) : p \in Pages
  BY RangePages
<1>3. {Blk(i.block)} \cup Records(i) \cup Copies(i) = Touches(i)
  BY DEF Records, Copies, Touches
<1>4. Blk(i.block) \in Region
  BY <1>1, BlockRegions
<1>5. \A x \in Records(i) : x \in Region /\ x # Blk(i.block)
  <2>1. SUFFICES ASSUME NEW x \in Records(i) PROVE x \in Region /\ x # Blk(i.block)
    OBVIOUS
  <2>2. PICK p \in Range(i) : x = Rec(i.block, p) /\ p \in Pages
    BY <1>2 DEF Records
  <2> QED BY <1>1, <2>2, BlockRegions
<1>6. \A x \in Copies(i) : x \in Region /\ x # Blk(i.block)
  <2>1. SUFFICES ASSUME NEW x \in Copies(i) PROVE x \in Region /\ x # Blk(i.block)
    OBVIOUS
  <2>2. PICK p \in Range(i) : x = Home(i.block, p) /\ p \in Pages
    BY <1>2 DEF Copies
  <2> QED BY <1>1, <2>2, BlockRegions
<1>7. ASSUME NEW x \in Records(i), x \in Copies(i)
      PROVE FALSE
  <2>1. PICK p \in Range(i) : x = Rec(i.block, p) /\ p \in Pages
    BY <1>2 DEF Records
  <2>2. PICK y \in Range(i) : x = Home(i.block, y) /\ y \in Pages
    BY <1>2, <1>7 DEF Copies
  <2> QED BY <1>1, <2>1, <2>2, BlockRegions
<1>8. Touches(i) \subseteq Region
  BY <1>3, <1>4, <1>5, <1>6
<1> QED BY <1>3, <1>5, <1>6, <1>7, <1>8

Layout(i, o, recs, homes, after) ==
  [r \in {Blk(i.block)} \cup recs \cup homes |->
     CASE r \in recs -> page_encode(i.base.gen, o.state, i.seq, o.data)
       [] r \in homes -> Data(o.data)
       [] OTHER -> after]
HomeWrites(i, o) == Layout(i, o, Records(i), Copies(i), after_block(i, o, "COMMIT"))

\* The writes of a mutation stay in its range and hold its outcome.
LEMMA HomesWritten ==
  ASSUME NEW d, NEW c, NEW i, NEW o, NEW m \in Nat, Whole(i, m), Matches(i, o), NEW w, w = HomeWrites(i, o),
         c = [r \in Region |-> IF r \in DOMAIN w THEN w[r] ELSE d[r]]
  PROVE AgreeBut(c, d, Touches(i)) /\ Outcome(c, i, o, "COMMIT")
<1>1. DOMAIN w = Touches(i)
  BY Written3 DEF HomeWrites, Layout
<1>2. AgreeBut(c, d, Touches(i)) /\ (\A r \in Region : r \in DOMAIN w => c[r] = w[r])
  <2>1. AgreeBut(c, d, DOMAIN w) /\ (\A r \in Region : r \in DOMAIN w => c[r] = w[r])
    BY Written, SMTT(60)
  <2> QED BY <1>1, <2>1
<1>3. /\ Touches(i) \subseteq Region /\ Blk(i.block) \notin Records(i) /\ Blk(i.block) \notin Copies(i)
      /\ Records(i) \cap Copies(i) = {} /\ {Blk(i.block)} \cup Records(i) \cup Copies(i) = Touches(i)
  BY Written3
<1>4. c[Blk(i.block)] = after_block(i, o, "COMMIT")
  <2>1. Blk(i.block) \in Touches(i)
    BY <1>3
  <2>2. w[Blk(i.block)] = after_block(i, o, "COMMIT")
    BY <1>3, <2>1 DEF HomeWrites, Layout
  <2> QED BY <1>1, <1>2, <1>3, <2>1, <2>2
<1>5. ASSUME NEW r \in Records(i)
      PROVE c[r] = page_encode(i.base.gen, o.state, i.seq, o.data)
  <2>1. r \in Touches(i) /\ r \in Region
    BY <1>3
  <2>2. w[r] = page_encode(i.base.gen, o.state, i.seq, o.data)
    BY <1>3, <2>1 DEF HomeWrites, Layout
  <2> QED BY <1>1, <1>2, <2>1, <2>2
<1>6. ASSUME NEW r \in Copies(i)
      PROVE c[r] = Data(o.data)
  <2>1. r \in Touches(i) /\ r \in Region /\ r \notin Records(i)
    BY <1>3
  <2>2. w[r] = Data(o.data)
    BY <1>3, <2>1 DEF HomeWrites, Layout
  <2> QED BY <1>1, <1>2, <2>1, <2>2
<1>7. ASSUME i.kind = "PROGRAM", NEW p \in Range(i)
      PROVE Rec(i.block, p) \in Records(i) /\ Home(i.block, p) \in Copies(i)
  BY <1>7 DEF Records, Copies
<1> QED BY <1>2, <1>4, <1>5, <1>6, <1>7 DEF Outcome

\* The writes of abort_install do, with the outcome of an abort.
LEMMA AbortWritten ==
  ASSUME NEW d, NEW c, NEW i, NEW o, NEW m \in Nat, Whole(i, m), NEW w, w = abort_writes(i),
         c = [r \in Region |-> IF r \in DOMAIN w THEN w[r] ELSE d[r]]
  PROVE AgreeBut(c, d, Touches(i)) /\ Outcome(c, i, o, "ABORT")
<1>1. w = [r \in {Blk(i.block)} \cup Records(i) |->
             IF r \in Records(i) THEN page_encode(i.base.gen, "UNKNOWN", i.seq, 0) ELSE abort_block(i)]
  BY DEF abort_writes, Records, Range
<1>2. DOMAIN w = {Blk(i.block)} \cup Records(i)
  BY <1>1
<1>3. /\ Touches(i) \subseteq Region /\ Blk(i.block) \notin Records(i)
      /\ {Blk(i.block)} \cup Records(i) \cup Copies(i) = Touches(i)
  BY Written3
<1>4. AgreeBut(c, d, DOMAIN w) /\ (\A r \in Region : r \in DOMAIN w => c[r] = w[r])
  BY Written, SMTT(60)
<1>5. AgreeBut(c, d, Touches(i))
  BY <1>2, <1>3, <1>4 DEF AgreeBut
<1>6. c[Blk(i.block)] = after_block(i, o, "ABORT")
  <2>1. Blk(i.block) \in Region /\ Blk(i.block) \in DOMAIN w
    BY <1>2, <1>3
  <2>2. w[Blk(i.block)] = abort_block(i)
    BY <1>1, <1>3, <2>1
  <2> QED BY <1>4, <2>1, <2>2 DEF after_block
<1>7. ASSUME NEW r \in Records(i)
      PROVE c[r] = page_encode(i.base.gen, "UNKNOWN", i.seq, 0)
  <2>1. r \in DOMAIN w /\ r \in Region
    BY <1>2, <1>3
  <2>2. w[r] = page_encode(i.base.gen, "UNKNOWN", i.seq, 0)
    BY <1>1, <2>1
  <2> QED BY <1>4, <2>1, <2>2
<1>8. ASSUME i.kind = "PROGRAM", NEW p \in Range(i)
      PROVE Rec(i.block, p) \in Records(i)
  BY <1>8 DEF Records
<1> QED BY <1>5, <1>6, <1>7, <1>8 DEF Outcome

\* What the running call knows of its INTENT.
LEMMA InFlight ==
  ASSUME NEW img, NEW n \in 0 .. MaxSequence, NEW k, NEW o, Underway(img, n, k, o), NEW i,
         i = Successor(img, n)
  PROVE /\ n \in Nat /\ n + 1 \in Nat /\ Good(img, n) /\ Pending(img, n) /\ Shown(img, n) = k
        /\ Matches(i, o) /\ Whole(i, n + 1)
        /\ i.seq = n + 1 /\ bank_at(i.seq) = prospective(n) /\ prospective(n) \in Banks
        /\ i.block \in Blocks
<1>1. n \in Nat /\ n + 1 \in Nat
  BY SMT
<1>2. Good(img, n) /\ Pending(img, n) /\ Shown(img, n) = k /\ Matches(i, o)
  BY DEF Underway
<1>3. Whole(i, n + 1)
  BY <1>2 DEF Pending
<1>4. i.seq = n + 1 /\ i.block \in Blocks
  BY <1>1, <1>3, WholeIntent
<1> QED BY <1>1, <1>2, <1>3, <1>4, BankFlip

\* The homes and records are written under a durable INTENT.
LEMMA WriteHomes ==
  ASSUME NandInv, UNCHANGED set, write_homes
  PROVE Step
<1>1. /\ Formatted(disk) /\ Idle(disk, sequence, known) /\ Underway(cache, sequence, known, op)
      /\ cur = Successor(cache, sequence) /\ AgreeBut(cache, disk, {Intent(prospective(sequence))})
      /\ set \in Settings /\ sequence \in 0 .. MaxSequence /\ DOMAIN known = Blocks
      /\ cache = [r \in Region |-> cache[r]]
  BY DEF NandInv, Typed, Stage, write_homes
<1>2. PICK n, i, o : n = sequence /\ i = cur /\ o = op
  OBVIOUS
<1>3. /\ n \in Nat /\ n + 1 \in Nat /\ Matches(i, o) /\ Whole(i, n + 1) /\ prospective(n) \in Banks
  BY <1>1, <1>2, InFlight
<1>4. PICK w : w = HomeWrites(i, o)
  OBVIOUS
<1>5. home_writes = w
  <2>1. PICK B, R : B = i.block /\ R = Range(i)
    OBVIOUS
  <2>2. Reserved = {<<B, p>> : p \in R}
    BY <1>2, <2>1 DEF Reserved, Range
  <2>3. \A p : <<B, p>>[1] = B /\ <<B, p>>[2] = p
    BY SMT
  <2>4. {Rec(r[1], r[2]) : r \in Reserved} = {Rec(B, p) : p \in R}
    BY <2>2, <2>3
  <2>5. {Home(r[1], r[2]) : r \in Reserved} = {Home(B, p) : p \in R}
    BY <2>2, <2>3
  <2>6. (IF cur.kind = "PROGRAM" THEN {Rec(r[1], r[2]) : r \in Reserved} ELSE {}) = Records(i)
    BY <1>2, <2>1, <2>4 DEF Records
  <2>7. (IF cur.kind = "PROGRAM" THEN {Home(r[1], r[2]) : r \in Reserved} ELSE {}) = Copies(i)
    BY <1>2, <2>1, <2>5 DEF Copies
  <2>8. (IF op.kind = "ERASE" /\ op.state = "VALID" /\ op.count = PPB
         THEN clean_block(cur) ELSE abort_block(cur)) = after_block(i, o, "COMMIT")
    BY <1>2 DEF after_block
  <2>9. home_writes =
          Layout(cur, op, IF cur.kind = "PROGRAM" THEN {Rec(r[1], r[2]) : r \in Reserved} ELSE {},
                 IF cur.kind = "PROGRAM" THEN {Home(r[1], r[2]) : r \in Reserved} ELSE {},
                 IF op.kind = "ERASE" /\ op.state = "VALID" /\ op.count = PPB
                 THEN clean_block(cur) ELSE abort_block(cur))
    BY DEF home_writes, Layout
  <2> QED BY <1>2, <1>4, <2>6, <2>7, <2>8, <2>9 DEF HomeWrites
<1>6. /\ pc' = "homes" /\ UNCHANGED <<sequence, cur, known, op>> /\ disk' = cache
      /\ cache' = [r \in Region |-> IF r \in DOMAIN w THEN w[r] ELSE cache[r]]
  BY <1>5 DEF write_homes, Write
<1>7. AgreeBut(cache', cache, Touches(i)) /\ Outcome(cache', i, o, "COMMIT")
  BY <1>3, <1>4, <1>6, HomesWritten
<1>8. cache' = [r \in Region |-> cache'[r]]
  BY <1>6, Written
<1>9. Formatted(cache)
  <2>1. \A q \in Banks : cache[Super(q)] = disk[Super(q)]
    <3>1. AgreeBut(cache, disk, {Intent(prospective(n))})
      BY <1>1, <1>2
    <3> QED BY <1>3, <3>1, ButIntent, SMTT(60)
  <2> QED BY <1>1, <2>1 DEF Formatted
<1>10. Crashable(cache, cache', known, op)
  BY <1>1, <1>2, <1>7, CrashHomes
<1>11. Writing("COMMIT")'
  BY <1>1, <1>2, <1>6, <1>7, <1>9 DEF Writing
<1>12. Typed'
  BY <1>1, <1>6, <1>8 DEF Typed, Running
<1>13. Stage'
  <2>1. Crashable(disk', cache', known', op')
    BY <1>6, <1>10
  <2> QED BY <1>6, <1>11, <2>1 DEF Stage
<1> QED BY <1>6, <1>12, <1>13 DEF Step, NandInv

\* Every write of the call is in place: the terminal of its outcome.
LEMMA DecidingStep ==
  ASSUME NandInv, UNCHANGED set, NEW x \in {"COMMIT", "ABORT"}, Writing(x),
         Write(cache, [r \in {Term(bank_at(cur.seq))} |-> terminal(cur, x)]),
         UNCHANGED <<sequence, cur, known, op>>,
         pc' = IF x = "COMMIT" THEN "terminal" ELSE "abort_terminal"
  PROVE Step
<1>1. /\ Formatted(disk) /\ Underway(disk, sequence, known, op) /\ cur = Successor(disk, sequence)
      /\ AgreeBut(cache, disk, Touches(cur)) /\ Outcome(cache, cur, op, x)
      /\ set \in Settings /\ sequence \in 0 .. MaxSequence /\ DOMAIN known = Blocks
      /\ cache = [r \in Region |-> cache[r]]
  BY DEF NandInv, Typed, Writing
<1>2. PICK n, i, o : n = sequence /\ i = cur /\ o = op
  OBVIOUS
<1>3. /\ n \in Nat /\ n + 1 \in Nat /\ Whole(i, n + 1) /\ bank_at(i.seq) = prospective(n)
      /\ prospective(n) \in Banks /\ Good(disk, n) /\ Pending(disk, n)
  BY <1>1, <1>2, InFlight
<1>4. /\ Good(cache, n) /\ Shown(cache, n) = Shown(disk, n) /\ Pending(cache, n)
      /\ Successor(cache, n) = Successor(disk, n)
  BY <1>1, <1>2, <1>3, OverHomes
<1>5. Underway(cache, n, known, o)
  BY <1>1, <1>2, <1>4 DEF Underway
<1>6. PICK w : w = [r \in {Term(prospective(n))} |-> terminal(i, x)]
  OBVIOUS
<1>7. disk' = cache /\ cache' = [r \in Region |-> IF r \in DOMAIN w THEN w[r] ELSE cache[r]]
  BY <1>2, <1>3, <1>6 DEF Write
<1>8. /\ AgreeBut(cache', cache, DOMAIN w) /\ (\A r \in Region : r \in DOMAIN w => cache'[r] = w[r])
      /\ cache' = [r \in Region |-> cache'[r]]
  BY <1>7, Written
<1>9. DOMAIN w = {Term(prospective(n))} /\ w[Term(prospective(n))] = terminal(i, x)
  BY <1>6
<1>10. AgreeBut(cache', cache, {Term(prospective(n))}) /\ cache'[Term(prospective(n))] = terminal(i, x)
  BY <1>3, <1>8, <1>9, BankRegions
<1>11. Formatted(cache)
  <2>1. \A q \in Banks : cache[Super(q)] = disk[Super(q)]
    BY <1>1, <1>2, <1>3, ButTouches, SMTT(60)
  <2> QED BY <1>1, <2>1 DEF Formatted
<1>12. Crashable(cache, cache', known, op)
  <2>1. n \in 0 .. MaxSequence /\ Outcome(cache, Successor(cache, n), o, x)
    BY <1>1, <1>2, <1>4
  <2>2. cache'[Term(prospective(n))] = terminal(Successor(cache, n), x)
    BY <1>1, <1>2, <1>4, <1>10
  <2> QED BY <1>2, <1>5, <1>10, <2>1, <2>2, CrashTerminal
<1>13. Deciding(x)'
  BY <1>1, <1>2, <1>3, <1>4, <1>5, <1>7, <1>10, <1>11 DEF Deciding
<1>14. Typed'
  BY <1>1, <1>7, <1>8 DEF Typed, Running
<1>15. Stage'
  <2>1. Crashable(disk', cache', known', op')
    BY <1>7, <1>12
  <2>2. CASE x = "COMMIT"
    BY <1>13, <2>1, <2>2 DEF Stage
  <2>3. CASE x = "ABORT"
    BY <1>13, <2>1, <2>3 DEF Stage
  <2> QED BY <2>2, <2>3
<1> QED BY <1>14, <1>15 DEF Step, NandInv

\* terminal_write and abort_terminal.
LEMMA TerminalWrite ==
  ASSUME NandInv, UNCHANGED set, terminal_write \/ abort_terminal
  PROVE Step
<1>1. CASE terminal_write
  <2>1. Writing("COMMIT")
    BY <1>1 DEF NandInv, Stage, terminal_write
  <2> QED BY <1>1, <2>1, DecidingStep DEF terminal_write
<1>2. CASE abort_terminal
  <2>1. Writing("ABORT")
    BY <1>2 DEF NandInv, Stage, abort_terminal
  <2> QED BY <1>2, <2>1, DecidingStep DEF abort_terminal
<1> QED BY <1>1, <1>2

\* The terminal is durable: its outcome is what the image shows.
LEMMA Settles ==
  ASSUME NEW x \in {"COMMIT", "ABORT"}, Typed, Deciding(x)
  PROVE /\ cur.seq = sequence + 1 /\ cur.seq \in 0 .. MaxSequence /\ Formatted(cache)
        /\ Decided(cache, cur.seq, known, op, x) /\ op # C!NoOp
<1>1. /\ Formatted(disk) /\ Underway(disk, sequence, known, op) /\ cur = Successor(disk, sequence)
      /\ Outcome(disk, cur, op, x) /\ AgreeBut(cache, disk, {Term(bank_at(cur.seq))})
      /\ cache[Term(bank_at(cur.seq))] = terminal(cur, x) /\ sequence \in 0 .. MaxSequence
  BY DEF Typed, Deciding
<1>2. PICK n, i, o : n = sequence /\ i = cur /\ o = op
  OBVIOUS
<1>3. /\ n \in Nat /\ n + 1 \in Nat /\ Good(disk, n) /\ Pending(disk, n) /\ Shown(disk, n) = known
      /\ Matches(i, o) /\ i.seq = n + 1 /\ bank_at(i.seq) = prospective(n) /\ prospective(n) \in Banks
  BY <1>1, <1>2, InFlight
<1>4. n + 1 \in 0 .. MaxSequence
  BY <1>1, <1>2, <1>3, PendingRoom
<1>5. Decided(cache, n + 1, Shown(disk, n), o, x)
  <2>1. /\ AgreeBut(cache, disk, {Term(prospective(n))}) /\ Matches(Successor(disk, n), o)
        /\ cache[Term(prospective(n))] = terminal(Successor(disk, n), x)
        /\ Outcome(disk, Successor(disk, n), o, x)
    BY <1>1, <1>2, <1>3
  <2> QED BY <1>3, <2>1, Decide
<1>6. Formatted(cache)
  <2>1. \A q \in Banks : cache[Super(q)] = disk[Super(q)]
    <3>1. AgreeBut(cache, disk, {Term(prospective(n))})
      BY <1>1, <1>2, <1>3
    <3> QED BY <1>3, <3>1, ButTerm, SMTT(60)
  <2> QED BY <1>1, <2>1 DEF Formatted
<1>7. o # C!NoOp
  BY <1>3, MatchesOp
<1> QED BY <1>2, <1>3, <1>4, <1>5, <1>6, <1>7

\* The call returns: the contract sees the whole effect.
LEMMA CommitReturn ==
  ASSUME NandInv, UNCHANGED set, commit_return
  PROVE Step
<1>1. Deciding("COMMIT") /\ Typed
  BY DEF NandInv, Stage, commit_return
<1>2. /\ cur.seq \in 0 .. MaxSequence /\ Formatted(cache) /\ op # C!NoOp
      /\ Decided(cache, cur.seq, known, op, "COMMIT")
  BY <1>1, Settles
<1>3. PICK m, k : m = cur.seq /\ k = C!CommitOp(known, op)
  OBVIOUS
<1>4. Idle(cache, m, k)
  BY <1>2, <1>3 DEF Decided, Idle
<1>5. pc' = "ready" /\ sequence' = m /\ disk' = cache /\ cache' = cache /\ Answer
  BY <1>3 DEF commit_return
<1>6. set' \in Settings /\ cache' = [r \in Region |-> cache'[r]]
  BY <1>1, <1>5 DEF Typed
<1>7. NandInv' /\ known' = k /\ op' = C!NoOp
  <2>1. disk' = cache' /\ Formatted(cache') /\ Idle(cache', m, k) /\ m \in 0 .. MaxSequence
    BY <1>2, <1>3, <1>4, <1>5
  <2> QED BY <1>5, <1>6, <2>1, Ready
<1> QED BY <1>2, <1>3, <1>7 DEF Step, C!Next, C!Return

\* A quarantined handle leaves an image that a crash cannot make worse.
LEMMA IoFailure ==
  ASSUME NandInv, UNCHANGED set, io_failure
  PROVE Step
<1>1. /\ pc \in Running \cup {"ready"} /\ pc' = "quarantined"
      /\ UNCHANGED <<disk, cache, sequence, cur, known, op>>
  BY DEF io_failure
<1>2. Crashable(disk, cache, known, op)
  BY <1>1 DEF NandInv, Stage, Running
<1>3. Crashable(disk', cache', known', op')
  BY <1>1, <1>2
<1>4. Typed'
  BY <1>1 DEF NandInv, Typed
<1>5. Stage'
  BY <1>1, <1>3 DEF Stage
<1> QED BY <1>1, <1>4, <1>5 DEF Step, NandInv

\* The process ends.
LEMMA Crash ==
  ASSUME NandInv, UNCHANGED set, crash
  PROVE Step
<1>1. PICK f \in [{r \in Region : cache[r] # disk[r]} -> {"old", "new", "torn"}] :
        disk' = Survives(f) /\ cache' = disk'
  BY DEF crash
<1>2. /\ pc \notin {"empty", "down", "refused"} /\ pc' = "down" /\ sequence' = 0
      /\ UNCHANGED <<known, op>>
  BY DEF crash
<1>3. f \in Choices(disk, cache) /\ disk' = Left(disk, cache, f)
  BY <1>1 DEF Choices, Left, Survives
<1>4. Crashable(disk, cache, known, op)
  BY <1>2 DEF NandInv, Stage
<1>5. Fine(disk', known', op')
  BY <1>2, <1>3, <1>4 DEF Crashable
<1>6. disk' = [r \in Region |-> disk'[r]] /\ cache' = [r \in Region |-> cache'[r]]
  BY <1>1, <1>3 DEF Left
<1>7. 0 \in 0 .. MaxSequence
  BY NandConstants, SMT
<1>8. Typed'
  BY <1>2, <1>6, <1>7 DEF NandInv, Typed
<1>9. Stage'
  BY <1>1, <1>2, <1>5 DEF Stage
<1> QED BY <1>2, <1>8, <1>9 DEF Step, NandInv

\* An image without both superblocks is refused.
LEMMA RefuseUnformatted ==
  ASSUME NandInv, UNCHANGED set, recover, ~Formatted(disk)
  PROVE Step
<1>1. ~banks_consistent
  BY DEF banks_consistent, Formatted
<1>2. pc' = "refused" /\ UNCHANGED <<disk, cache, sequence, cur, known, op>>
  BY <1>1 DEF recover, Refuse
<1>3. Typed'
  BY <1>2 DEF NandInv, Typed
<1>4. Stage'
  BY <1>2 DEF Stage
<1> QED BY <1>2, <1>3, <1>4 DEF Step, NandInv

\* Any other opens: a pending INTENT is aborted.
LEMMA OpenAbort ==
  ASSUME NandInv, UNCHANGED set, pc = "down", NEW n \in 0 .. MaxSequence, Good(disk, n), Formatted(disk),
         Pending(disk, n), Shown(disk, n) = known, Matches(Successor(disk, n), op),
         open_abort(bank_at(n), n)
  PROVE Step
<1>1. /\ n < MaxSequence /\ disk[Intent(prospective(n))].seq = n + 1
  BY Opens
<1>2. n \in Nat /\ n + 1 \in Nat
  BY SMT
<1>3. PICK i : i = Successor(disk, n)
  OBVIOUS
<1>4. Whole(i, n + 1) /\ Underway(disk, n, known, op)
  BY <1>3 DEF Pending, Underway
<1>5. (n # 0 /\ disk[Intent(bank_at(n))].block = i.block) =>
         block_after(disk[Intent(bank_at(n))], disk[Term(bank_at(n))], i.base)
  <2>1. SUFFICES ASSUME n # 0, disk[Intent(bank_at(n))].block = i.block
                 PROVE block_after(disk[Intent(bank_at(n))], disk[Term(bank_at(n))], i.base)
    OBVIOUS
  <2>2. Eff(disk, n, i.block) = i.base
    BY <1>3 DEF Eff
  <2> QED BY <2>1, <2>2 DEF Good, Traced
<1>6. /\ Write(disk, abort_writes(i)) /\ pc' = "abort_homes" /\ sequence' = n /\ cur' = i
      /\ UNCHANGED <<known, op>>
  BY <1>1, <1>3, <1>5 DEF open_abort, room, Successor
<1>7. PICK w : w = abort_writes(i)
  OBVIOUS
<1>8. disk' = disk /\ cache' = [r \in Region |-> IF r \in DOMAIN w THEN w[r] ELSE disk[r]]
  BY <1>6, <1>7 DEF Write
<1>9. AgreeBut(cache', disk, Touches(i)) /\ Outcome(cache', i, op, "ABORT")
  BY <1>2, <1>4, <1>7, <1>8, AbortWritten
<1>10. cache' = [r \in Region |-> cache'[r]]
  BY <1>8, Written
<1>11. Crashable(disk, cache', known, op)
  BY <1>3, <1>4, <1>9, CrashHomes
<1>12. Writing("ABORT")'
  BY <1>3, <1>4, <1>6, <1>8, <1>9 DEF Writing
<1>13. Typed'
  BY <1>6, <1>8, <1>10 DEF NandInv, Typed, Running
<1>14. Stage'
  <2>1. Crashable(disk', cache', known', op')
    BY <1>6, <1>8, <1>11
  <2> QED BY <1>6, <1>12, <2>1 DEF Stage
<1> QED BY <1>6, <1>13, <1>14 DEF Step, NandInv

\* With none pending, the selected transaction is the last one.
LEMMA OpenResolved ==
  ASSUME NandInv, UNCHANGED set, pc = "down", NEW n \in 0 .. MaxSequence, Good(disk, n), Formatted(disk),
         ~Pending(disk, n), Related(disk, n, known, op), open_resolved(bank_at(n), n)
  PROVE Step
<1>1. iv(prospective(n)) => n # 0 /\ disk[Intent(prospective(n))].seq = n - 1
  BY Opens
<1>2. n \in Nat /\ n >= n
  BY SMT
<1>3. \A b \in Blocks : block_decode(disk[Blk(b)], n) /\ Eff(disk, n, b) = disk[Blk(b)]
  BY DEF Good, BlockOK, Eff
<1>4. n = 0 => \A b \in Blocks : block_decode(disk[Blk(b)], 0)
  BY <1>3
<1>5. ASSUME n # 0
      PROVE /\ validate_transaction(disk, n, disk[Intent(bank_at(n))], disk[Term(bank_at(n))], TRUE)
            /\ validate_block_cells(disk, n, disk[Intent(bank_at(n))].block)
  <2>1. Whole(disk[Intent(bank_at(n))], n)
    BY <1>5 DEF Good, Newest
  <2>2. disk[Intent(bank_at(n))].block \in Blocks
    BY <1>2, <2>1, WholeIntent
  <2>3. validate_transaction(disk, n, disk[Intent(bank_at(n))], disk[Term(bank_at(n))], TRUE)
    BY <1>2, <1>3, <1>5, <2>2, Validates
  <2> QED BY <1>2, <2>2, <2>3, ViewIs
<1>6. pc' = "ready" /\ sequence' = n /\ UNCHANGED <<disk, cache, cur>> /\ Answer
  BY <1>1, <1>4, <1>5 DEF open_resolved
<1>7. PICK k : k = Shown(disk, n)
  OBVIOUS
<1>8. NandInv' /\ known' = k /\ op' = C!NoOp
  <2>1. cache = disk /\ disk = [r \in Region |-> disk[r]] /\ set \in Settings
    BY DEF NandInv, Typed, Stage
  <2>2. /\ set' \in Settings /\ disk' = cache' /\ cache' = [r \in Region |-> cache'[r]]
        /\ Formatted(cache') /\ Idle(cache', n, k)
    BY <1>6, <1>7, <2>1 DEF Idle
  <2> QED BY <1>6, <2>2, Ready
<1>9. k = known \/ (op # C!NoOp /\ k \in {C!CommitOp(known, op), C!AbortOp(known, op)})
  BY <1>7 DEF Related
<1>10. [C!Next]_<<known, op>>
  <2>1. CASE op = C!NoOp
    BY <1>8, <1>9, <2>1
  <2>2. CASE op # C!NoOp
    BY <1>8, <1>9, <2>2 DEF C!Next, C!Reopen
  <2> QED BY <2>1, <2>2
<1> QED BY <1>8, <1>10 DEF Step

\* recover accepts every formatted image that a crash can leave.
LEMMA Recover ==
  ASSUME NandInv, UNCHANGED set, recover
  PROVE Step
<1>1. pc = "down" /\ Fine(disk, known, op)
  BY DEF recover, NandInv, Stage
<1>2. SUFFICES ASSUME Formatted(disk) PROVE Step
  BY RefuseUnformatted
<1>3. PICK n \in 0 .. MaxSequence : Good(disk, n) /\ Related(disk, n, known, op)
  BY <1>1, <1>2 DEF Fine
<1>4. /\ banks_consistent /\ selected = bank_at(n) /\ selected_consistent(bank_at(n))
      /\ disk[Term(bank_at(n))].seq = n
      /\ iv(prospective(n)) /\ disk[Intent(prospective(n))].seq > n <=> Pending(disk, n)
  BY <1>2, <1>3, Opens
<1>5. IF Pending(disk, n) THEN open_abort(bank_at(n), n) ELSE open_resolved(bank_at(n), n)
  BY <1>4 DEF recover
<1>6. CASE Pending(disk, n)
  <2>1. Shown(disk, n) = known /\ Matches(Successor(disk, n), op)
    BY <1>3, <1>6 DEF Related
  <2> QED BY <1>1, <1>2, <1>3, <1>5, <1>6, <2>1, OpenAbort
<1>7. CASE ~Pending(disk, n)
  BY <1>1, <1>2, <1>3, <1>5, <1>7, OpenResolved
<1> QED BY <1>6, <1>7

\* validate_transaction reads no terminal from the image.
LEMMA Transfers ==
  ASSUME NEW img, NEW base, NEW q \in Banks, AgreeBut(img, base, {Term(q)}), NEW n \in Nat, NEW i,
         Whole(i, n), NEW m, NEW t, NEW latest, validate_transaction(base, m, i, t, latest)
  PROVE validate_transaction(img, m, i, t, latest)
<1>1. i.block \in Blocks
  BY WholeIntent
<1>2. i.kind = "PROGRAM" => \A p \in i.first .. i.first + i.count - 1 : p \in Pages
  BY RangePages DEF Range
<1>3. img[Blk(i.block)] = base[Blk(i.block)]
  BY <1>1, ButTerm, SMTT(60)
<1>4. ASSUME NEW p \in Pages
      PROVE img[Rec(i.block, p)] = base[Rec(i.block, p)] /\ img[Home(i.block, p)] = base[Home(i.block, p)]
  BY <1>1, ButTerm, SMTT(60)
<1> QED BY <1>2, <1>3, <1>4 DEF validate_transaction

\* An installed ABORT passes the checks that follow it.
LEMMA AbortDone ==
  ASSUME NandInv, UNCHANGED set, abort_done
  PROVE Step
<1>1. Deciding("ABORT") /\ Typed
  BY DEF NandInv, Stage, abort_done
<1>2. /\ cur.seq = sequence + 1 /\ cur.seq \in 0 .. MaxSequence /\ Formatted(cache) /\ op # C!NoOp
      /\ Decided(cache, cur.seq, known, op, "ABORT")
  BY <1>1, Settles
<1>3. PICK n, m, i, k : n = sequence /\ m = cur.seq /\ i = cur /\ k = C!AbortOp(known, op)
  OBVIOUS
<1>4. /\ Underway(disk, n, known, op) /\ i = Successor(disk, n) /\ n \in 0 .. MaxSequence
      /\ AgreeBut(cache, disk, {Term(bank_at(i.seq))}) /\ cache[Term(bank_at(i.seq))] = terminal(i, "ABORT")
  BY <1>1, <1>3 DEF Deciding, Typed
<1>5. /\ n \in Nat /\ n + 1 \in Nat /\ Good(disk, n) /\ Pending(disk, n) /\ Whole(i, n + 1) /\ i.seq = n + 1
      /\ bank_at(i.seq) = prospective(n) /\ prospective(n) \in Banks /\ i.block \in Blocks
  BY <1>4, InFlight
<1>6. m = n + 1 /\ m \in Nat /\ m # 0 /\ m >= m /\ m >= n /\ m \in 0 .. MaxSequence
  <2>1. m = n + 1 /\ m \in 0 .. MaxSequence
    BY <1>2, <1>3
  <2> QED BY <1>5, <2>1, SMT
<1>7. /\ bank_at(n) \in Banks /\ bank_at(m) = prospective(n) /\ bank_at(n) # prospective(n)
      /\ 1 - bank_at(i.seq) = bank_at(n)
  BY <1>5, <1>6, BankFlip DEF prospective
<1>8. AgreeBut(cache, disk, {Term(prospective(n))})
  BY <1>4, <1>5
<1>9. /\ cache[Intent(bank_at(n))] = disk[Intent(bank_at(n))]
      /\ cache[Intent(bank_at(m))] = i
      /\ cache[Term(bank_at(n))] = disk[Term(bank_at(n))]
      /\ cache[Term(bank_at(m))] = terminal(i, "ABORT")
  <2>1. cache[Intent(bank_at(n))] = disk[Intent(bank_at(n))] /\ cache[Term(bank_at(n))] = disk[Term(bank_at(n))]
    BY <1>5, <1>7, <1>8, ButTerm, SMTT(60)
  <2>2. cache[Intent(bank_at(m))] = i
    <3>1. cache[Intent(prospective(n))] = disk[Intent(prospective(n))]
      BY <1>5, <1>8, ButTerm, SMTT(60)
    <3> QED BY <1>4, <1>7, <3>1 DEF Successor
  <2> QED BY <1>4, <1>5, <1>7, <2>1, <2>2
<1>10. Good(cache, m) /\ ~Pending(cache, m) /\ Shown(cache, m) = k
  BY <1>2, <1>3 DEF Decided
<1>11. \A b \in Blocks : /\ block_decode(cache[Blk(b)], m) /\ Eff(cache, m, b) = cache[Blk(b)]
                         /\ validate_block_cells(cache, m, b)
  <2>1. \A b \in Blocks : block_decode(cache[Blk(b)], m) /\ Eff(cache, m, b) = cache[Blk(b)]
    BY <1>10 DEF Good, BlockOK, Eff
  <2> QED BY <1>6, <1>10, <2>1, ViewIs
<1>12. validate_transaction(cache, m, i, terminal(i, "ABORT"), TRUE)
  <2>1. /\ block_decode(cache[Blk(cache[Intent(bank_at(m))].block)], m)
        /\ Eff(cache, m, cache[Intent(bank_at(m))].block) = cache[Blk(cache[Intent(bank_at(m))].block)]
    BY <1>5, <1>9, <1>11
  <2>2. validate_transaction(cache, m, cache[Intent(bank_at(m))], cache[Term(bank_at(m))], TRUE)
    BY <1>6, <1>10, <2>1, Validates
  <2> QED BY <1>9, <2>2
<1>13. ASSUME n # 0
       PROVE LET sel == cache[Intent(bank_at(n))]
             IN  /\ validate_transaction(cache, m, sel, cache[Term(bank_at(n))], sel.block # i.block)
                 /\ validate_block_cells(cache, m, sel.block)
  <2>1. PICK sel : sel = cache[Intent(bank_at(n))]
    OBVIOUS
  <2>2. Whole(sel, n)
    BY <1>5, <1>9, <1>13, <2>1 DEF Good, Newest
  <2>3. sel.block \in Blocks
    BY <1>5, <2>2, WholeIntent
  <2>4. sel.block # i.block => Eff(disk, n, sel.block) = disk[Blk(sel.block)]
    BY <1>4 DEF Eff
  <2>5. disk[Blk(sel.block)] = cache[Blk(sel.block)]
    BY <1>5, <1>8, <2>3, ButTerm, SMTT(60)
  <2>6. block_decode(disk[Blk(sel.block)], m)
    BY <1>11, <2>3, <2>5
  <2>7. validate_transaction(disk, m, sel, disk[Term(bank_at(n))], sel.block # i.block)
    <3>1. PICK latest \in BOOLEAN : latest = (sel.block # i.block)
      OBVIOUS
    <3>2. /\ block_decode(disk[Blk(disk[Intent(bank_at(n))].block)], m)
          /\ latest => Eff(disk, n, disk[Intent(bank_at(n))].block) = disk[Blk(disk[Intent(bank_at(n))].block)]
      BY <1>9, <2>1, <2>4, <2>6, <3>1
    <3>3. validate_transaction(disk, m, disk[Intent(bank_at(n))], disk[Term(bank_at(n))], latest)
      BY <1>5, <1>6, <1>13, <3>2, Validates
    <3> QED BY <1>9, <2>1, <3>1, <3>3
  <2>8. validate_transaction(cache, m, sel, disk[Term(bank_at(n))], sel.block # i.block)
    BY <1>5, <1>8, <2>2, <2>7, Transfers
  <2> QED BY <1>9, <1>11, <2>1, <2>3, <2>8
<1>14. /\ pc' = "ready" /\ sequence' = m /\ disk' = cache /\ cache' = cache /\ Answer
  BY <1>3, <1>5, <1>7, <1>11, <1>12, <1>13 DEF abort_done
<1>15. NandInv' /\ known' = k /\ op' = C!NoOp
  <2>1. /\ set' \in Settings /\ disk' = cache' /\ cache' = [r \in Region |-> cache'[r]]
        /\ Formatted(cache') /\ Idle(cache', m, k)
    BY <1>1, <1>2, <1>10, <1>14 DEF Idle, Typed
  <2> QED BY <1>6, <1>14, <2>1, Ready
<1> QED BY <1>2, <1>3, <1>15 DEF Step, C!Next, C!Reopen

-----------------------------------------------------------------------------
(* The theorems.                                                           *)

\* The invariant holds initially and every step keeps it and is a step of the
\* contract.
LEMMA InitHolds ==
  ASSUME Init
  PROVE NandInv /\ C!Init
<1>1. /\ set \in Settings /\ disk = [r \in Region |-> Zero] /\ cache = disk
      /\ pc = "empty" /\ sequence = 0 /\ known = C!Fresh /\ op = C!NoOp
  BY DEF Init
<1>2. 0 \in 0 .. MaxSequence
  BY NandConstants, SMT
<1>3. disk = [r \in Region |-> disk[r]]
  BY <1>1
<1>4. DOMAIN known = Blocks
  BY <1>1 DEF C!Fresh
<1>5. Typed
  BY <1>1, <1>2, <1>3, <1>4 DEF Typed
<1>6. Stage
  BY <1>1 DEF Stage, Calm
<1> QED BY <1>1, <1>5, <1>6 DEF NandInv, C!Init

\* One case for each action of the engine.
LEMMA NextHolds ==
  ASSUME NandInv, [Next]_vars
  PROVE Step
<1>1. CASE UNCHANGED vars
  <2>1. UNCHANGED <<set, disk, cache, pc, sequence, cur, known, op>>
    BY <1>1 DEF vars
  <2>2. Typed'
    BY <2>1 DEF NandInv, Typed
  <2>3. Stage'
    BY <2>1, SMTT(60) DEF NandInv, Stage, Calm, Writing, Deciding
  <2> QED BY <2>1, <2>2, <2>3 DEF Step, NandInv
<1>2. CASE Next
  BY <1>2, FormatBody, FormatSuper, FormatDone, MutateStep, WriteHomes, TerminalWrite, CommitReturn,
     IoFailure, Crash, Recover, AbortDone DEF Next
<1> QED BY <1>1, <1>2

\* Whatever the engine does, a formatted disk is good.
LEMMA DiskGood ==
  ASSUME NandInv, Formatted(disk)
  PROVE \E n \in 0 .. MaxSequence : Good(disk, n)
<1>1. pc # "refused"
  BY DEF NandInv, Stage
<1>2. pc # "empty"
  <2>1. SUFFICES ASSUME pc = "empty" PROVE FALSE
    OBVIOUS
  <2>2. disk = [r \in Region |-> Zero]
    BY <2>1 DEF NandInv, Stage
  <2>3. 0 \in Banks
    BY SMT DEF Banks
  <2>4. disk[Super(0)] = Zero
    BY <2>2, <2>3, BankRegions
  <2>5. Zero.k # "SUPER"
    BY SMT DEF Zero
  <2> QED BY <2>3, <2>4, <2>5 DEF Formatted
<1>3. CASE pc = "down"
  BY <1>3 DEF NandInv, Stage, Fine
<1>4. CASE pc # "down"
  <2>1. Crashable(disk, cache, known, op)
    BY <1>1, <1>2, <1>4 DEF NandInv, Stage
  <2>2. PICK f : f = [r \in {x \in Region : cache[x] # disk[x]} |-> "old"]
    OBVIOUS
  <2>3. f \in Choices(disk, cache)
    BY <2>2 DEF Choices
  <2>4. PICK img : img = Left(disk, cache, f)
    OBVIOUS
  <2>5. \A r \in Region : img[r] = disk[r]
    <3>1. ASSUME NEW r \in Region
          PROVE img[r] = disk[r]
      <4>1. r \in DOMAIN f => f[r] = "old"
        BY <2>2
      <4> QED BY <2>4, <4>1 DEF Left
    <3> QED BY <3>1
  <2>6. Formatted(img)
    BY <2>5, BankRegions DEF Formatted
  <2>7. PICK n \in 0 .. MaxSequence : Good(img, n)
    BY <2>1, <2>3, <2>4, <2>6 DEF Crashable, Fine
  <2>8. n \in Nat
    BY SMT
  <2>9. AgreeBut(disk, img, {Super(q) : q \in Banks})
    BY <2>5 DEF AgreeBut
  <2> QED BY <2>7, <2>8, <2>9, OverSuper
<1> QED BY <1>3, <1>4

\* A record that is torn or newer than n lies in the pending range.
LEMMA DamageHeld ==
  ASSUME NEW n \in 0 .. MaxSequence, Good(disk, n), Formatted(disk), NEW b \in Blocks
  PROVE LET i == disk[Intent(prospective(n))]
            Damaged(r) == disk[r] = Torn \/ (disk[r] # Zero /\ disk[r].seq > n)
            Hit(blk) == iv(prospective(n)) /\ i.seq = n + 1 /\ i.block = blk
        IN  /\ Damaged(Blk(b)) => Hit(b)
            /\ \A p \in Pages : Damaged(Rec(b, p)) => Hit(b) /\ p \in i.first .. i.first + i.count - 1
<1> DEFINE i == disk[Intent(prospective(n))]
           Damaged(r) == disk[r] = Torn \/ (disk[r] # Zero /\ disk[r].seq > n)
           Hit(blk) == iv(prospective(n)) /\ i.seq = n + 1 /\ i.block = blk
<1>1. n \in Nat
  BY SMT
<1>2. Pending(disk, n) => iv(prospective(n)) /\ i.seq = n + 1
  BY Opens
<1>3. BlockOK(disk, n, b)
  BY DEF Good
<1>4. Torn.k = "TORN" /\ Zero.k = "ZERO"
  BY SMT DEF Torn, Zero
<1>5. Damaged(Blk(b)) => Hit(b)
  <2>1. SUFFICES ASSUME ~Hit(b) PROVE ~Damaged(Blk(b))
    OBVIOUS
  <2>2. Eff(disk, n, b) = disk[Blk(b)]
    BY <1>2, <2>1 DEF Eff, Successor
  <2>3. disk[Blk(b)] \in BlockRecord /\ disk[Blk(b)].seq <= n
    BY <1>3, <2>2 DEF BlockOK, block_decode
  <2>4. disk[Blk(b)].k = "BLOCK" /\ disk[Blk(b)].seq \in Nat
    BY <2>3, SMTT(60) DEF BlockRecord
  <2>5. ~(disk[Blk(b)].seq > n)
    BY <1>1, <2>3, <2>4, SMT
  <2> QED BY <1>4, <2>4, <2>5
<1>6. ASSUME NEW p \in Pages, Damaged(Rec(b, p))
      PROVE Hit(b) /\ p \in i.first .. i.first + i.count - 1
  <2>1. CASE Held(disk, n, b, p)
    BY <1>2, <2>1 DEF Held, Covers, Range, Successor
  <2>2. CASE ~Held(disk, n, b, p)
    <3>1. disk[Rec(b, p)] = Zero \/ (disk[Rec(b, p)] \in PageRecord /\ disk[Rec(b, p)].seq \in 1 .. n)
      BY <1>3, <2>2 DEF BlockOK, PageOK
    <3>2. disk[Rec(b, p)] # Zero
      BY <1>4, <1>6
    <3>3. disk[Rec(b, p)].k = "PAGE" /\ ~(disk[Rec(b, p)].seq > n)
      <4>1. disk[Rec(b, p)].k = "PAGE"
        BY <3>1, <3>2, SMTT(60) DEF PageRecord
      <4>2. disk[Rec(b, p)].seq \in 1 .. n
        BY <3>1, <3>2
      <4>3. ~(disk[Rec(b, p)].seq > n)
        BY <1>1, <4>2, SMT
      <4> QED BY <4>1, <4>3
    <3> QED BY <1>4, <1>6, <3>3
  <2> QED BY <2>1, <2>2
<1> QED BY <1>5, <1>6

\* The invariant gives the three properties of Recoverable.
LEMMA Accounted ==
  ASSUME NandInv
  PROVE Recoverable
<1>1. TypeOK
  BY DEF NandInv, Typed, TypeOK
<1>2. OnlyUnformattedRefused
  BY DEF NandInv, Stage, OnlyUnformattedRefused, Formatted
<1>3. DamageIsReserved
  <2>1. SUFFICES ASSUME Formatted(disk) PROVE DamageIsReserved
    BY DEF DamageIsReserved, Formatted
  <2>2. PICK n \in 0 .. MaxSequence : Good(disk, n)
    BY <2>1, DiskGood
  <2>3. /\ tv(bank_at(n)) /\ (tv(prospective(n)) => disk[Term(prospective(n))].seq <= n)
        /\ disk[Term(bank_at(n))].seq = n
    BY <2>1, <2>2, Opens
  <2>4. n \in Nat /\ n <= n /\ bank_at(n) \in Banks /\ \A q \in Banks : q = bank_at(n) \/ q = prospective(n)
    <3>1. n \in Nat /\ n <= n
      BY SMT
    <3> QED BY <3>1, SMT DEF Banks, bank_at, prospective
  <2> DEFINE P(y) == /\ \E b \in Banks : tv(b) /\ disk[Term(b)].seq = y
                     /\ \A b \in Banks : tv(b) => disk[Term(b)].seq <= y
  <2>5. P(n)
    BY <2>3, <2>4
  <2>6. ASSUME NEW y \in 0 .. MaxSequence, P(y)
        PROVE y = n
    <3>1. n <= y
      BY <2>3, <2>4, <2>6
    <3>2. y <= n
      BY <2>3, <2>4, <2>6
    <3>3. y \in Nat
      BY SMT
    <3> QED BY <2>4, <3>1, <3>2, <3>3, SMT
  <2>7. (CHOOSE y \in 0 .. MaxSequence : P(y)) = n
    BY <2>5, <2>6
  <2>8. \A b \in Blocks :
          LET i == disk[Intent(prospective(n))]
              Damaged(r) == disk[r] = Torn \/ (disk[r] # Zero /\ disk[r].seq > n)
              Hit(blk) == iv(prospective(n)) /\ i.seq = n + 1 /\ i.block = blk
          IN  /\ Damaged(Blk(b)) => Hit(b)
              /\ \A p \in Pages : Damaged(Rec(b, p)) => Hit(b) /\ p \in i.first .. i.first + i.count - 1
    BY <2>1, <2>2, DamageHeld
  <2> QED BY <2>7, <2>8 DEF DamageIsReserved
<1> QED BY <1>1, <1>2, <1>3 DEF Recoverable

\* A crash at any write of format, of a mutation, of its terminal or of the
\* abort that recover installs, with any of the unsynced records kept, lost or
\* torn, leaves an image that recover() opens; only an unfinished format is
\* refused, and every torn or newer record lies in the range of a durable INTENT.
THEOREM CrashAccounted == Spec => []Recoverable
<1>1. Init => NandInv
  BY InitHolds
<1>2. NandInv /\ [Next]_vars => NandInv'
  BY NextHolds DEF Step
<1>3. NandInv => Recoverable
  BY Accounted
<1> QED BY <1>1, <1>2, <1>3, PTL DEF Spec

\* The engine implements the contract of the NAND medium: a mutation that
\* returned has its whole effect, and one that the process did not survive is
\* found absent, committed or aborted when the image is opened again.
THEOREM MediumImplemented == Spec => Contract
<1>1. Init => NandInv /\ C!Init
  BY InitHolds
<1>2. NandInv /\ [Next]_vars => NandInv' /\ [C!Next]_<<known, op>>
  BY NextHolds DEF Step
<1> QED BY <1>1, <1>2, PTL DEF Spec, Contract, C!Spec
=============================================================================
