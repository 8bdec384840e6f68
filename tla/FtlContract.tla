---------------------------- MODULE FtlContract ----------------------------
(***************************************************************************)
(* What the FTL promises a Block client about one Write at a time, over    *)
(* any number of power cuts: sectors change only by the next group of the  *)
(* Write in flight, in order; an acknowledged Write is there for good; a   *)
(* Write that was cut takes effect for a prefix of whole groups.           *)
(***************************************************************************)
EXTENDS Naturals

CONSTANTS Lbas      \* the logical sectors

VARIABLES
  store,   \* sector -> the number of the last Write that reached it
  wr       \* the Write in flight: [lba, count, ver, done]

NoWrite == [lba |-> 0, count |-> 0, ver |-> 0, done |-> 0]

\* The sectors between done and n of the Write carry its data.
Apply(s, w, n) ==
  [x \in Lbas |-> IF x \in w.lba + w.done .. w.lba + n - 1 THEN w.ver ELSE s[x]]

Init == store = [x \in Lbas |-> 0] /\ wr = NoWrite

Accept ==
  /\ wr = NoWrite /\ wr'.count > 0 /\ wr'.done = 0
  /\ UNCHANGED store

Advance ==
  \E n \in wr.done + 1 .. wr.count :
    /\ store' = Apply(store, wr, n)
    /\ wr' = [wr EXCEPT !.done = n]

\* A terminal answer: full, or a cancelled or failed prefix.
Finish ==
  /\ wr # NoWrite /\ wr' = NoWrite
  /\ UNCHANGED store

\* The medium was opened again: at most the group that was being mapped is added.
Reopen ==
  /\ wr # NoWrite /\ wr' = NoWrite
  /\ \E n \in wr.done .. wr.count : store' = Apply(store, wr, n)

Next == Accept \/ Advance \/ Finish \/ Reopen
Spec == Init /\ [][Next]_<<store, wr>>

=============================================================================
