---------------------------- MODULE NandContract ----------------------------
(***************************************************************************)
(* What the NAND medium promises its callers.  One mutation is in flight   *)
(* at a time.  It either returns, and then its whole effect is there, or   *)
(* the process ends first and a later open finds one of three cells: the   *)
(* mutation never happened, it committed, or it was aborted.  An abort     *)
(* consumes exactly the reserved range.                                    *)
(***************************************************************************)
EXTENDS Naturals

CONSTANTS
  Blocks,   \* block ids
  PPB       \* pages_per_block

Pages == 0 .. PPB - 1
NoOp == [kind |-> "NONE"]

VARIABLES
  nand,     \* block -> [gen, attempts, next, bad, prefix, cell]
  op        \* the mutation in flight

Erased == [state |-> "ERASED", data |-> 0]
TornCell == [state |-> "TORN", data |-> 0]
FreshBlock == [gen |-> 0, attempts |-> 0, next |-> 0, bad |-> FALSE, prefix |-> 0,
               cell |-> [p \in Pages |-> Erased]]
Fresh == [b \in Blocks |-> FreshBlock]

\* The mutations a block accepts; anything else answers a reason and no effect.
Accepts(blk, o) ==
  /\ ~blk.bad
  /\ \/ /\ o.kind = "PROGRAM"
        /\ blk.prefix = 0 /\ o.first = blk.next
        /\ o.count > 0 /\ o.first + o.count <= PPB
     \/ o.kind = "ERASE" /\ o.count \in 1 .. PPB
     \/ o.kind = "MARK_BAD"

Max(a, b) == IF a >= b THEN a ELSE b

\* abort_block and, for a program, the UNKNOWN records of the reserved pages.
Aborted(blk, o) ==
  CASE o.kind = "PROGRAM" ->
         [blk EXCEPT !.next = o.first + o.count,
                     !.cell = [p \in Pages |->
                        IF p \in o.first .. o.first + o.count - 1 THEN TornCell
                                                                  ELSE blk.cell[p]]]
    [] o.kind = "ERASE" ->
         [blk EXCEPT !.attempts = @ + 1, !.prefix = Max(@, o.count),
                     !.cell = [p \in Pages |->
                        IF p < Max(blk.prefix, o.count) THEN TornCell ELSE blk.cell[p]]]
    [] OTHER -> [blk EXCEPT !.bad = TRUE]

Committed(blk, o) ==
  CASE o.kind = "PROGRAM" ->
         [blk EXCEPT !.next = o.first + o.count,
                     !.cell = [p \in Pages |->
                        IF p \in o.first .. o.first + o.count - 1
                        THEN [state |-> o.state, data |-> o.data] ELSE blk.cell[p]]]
    [] o.kind = "ERASE" /\ o.state = "VALID" /\ o.count = PPB ->
         [FreshBlock EXCEPT !.gen = blk.gen + 1, !.attempts = blk.attempts + 1]
    [] OTHER -> Aborted(blk, o)

CommitOp(n, o) == [n EXCEPT ![o.block] = Committed(@, o)]
AbortOp(n, o) == [n EXCEPT ![o.block] = Aborted(@, o)]

Ops == [kind : {"PROGRAM", "ERASE", "MARK_BAD"}, block : Blocks, first : Nat, count : Nat,
        state : {"VALID", "TORN"}, data : Nat]

Init == nand = Fresh /\ op = NoOp

Begin ==
  /\ op = NoOp
  /\ op' \in Ops /\ Accepts(nand[op'.block], op')
  /\ UNCHANGED nand

\* The call returned success.
Return ==
  /\ op # NoOp
  /\ nand' = CommitOp(nand, op) /\ op' = NoOp

\* The process ended during the call and the image was opened again.
Reopen ==
  /\ op # NoOp
  /\ nand' \in {nand, CommitOp(nand, op), AbortOp(nand, op)}
  /\ op' = NoOp

Next == Begin \/ Return \/ Reopen
Spec == Init /\ [][Next]_<<nand, op>>

=============================================================================
