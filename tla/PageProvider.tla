---------------------------- MODULE PageProvider ----------------------------
(***************************************************************************)
(* What a PAGE2 provider promises its caller, whatever drives the NAND     *)
(* below it (include/fwlab/contracts/nfc_page_v2_provider.h).  An accepted *)
(* operation works on the media until its result is fixed, is silent from  *)
(* then on, and hands that result out once.  The result tells the truth    *)
(* about the media.                                                        *)
(***************************************************************************)
EXTENDS Naturals

CONSTANT Uids
VARIABLES op, closed

New == [st |-> "NEW", write |-> FALSE, count |-> 0, applied |-> 0, tainted |-> FALSE,
        cancelled |-> FALSE, res |-> [terminal |-> "NONE", effect |-> "NONE"]]

Init == op = [u \in Uids |-> New] /\ closed = FALSE

\* A result r is a true account of operation o.
Truthful(o, r) ==
  /\ r.terminal \in {"SUCCESS", "FAILED", "CANCELLED"}
  /\ r.terminal = "SUCCESS" =>
       IF o.write THEN o.applied = o.count /\ ~o.tainted ELSE ~o.cancelled
  /\ r.terminal = "CANCELLED" => r.effect = "NONE"
  /\ r.effect = "NONE" => o.applied = 0 /\ ~o.tainted
  /\ r.effect = "COMPLETE" => o.applied = o.count
  /\ r.effect = "NONCOMPLETE" => (o.applied > 0 \/ o.tainted)

(* The steps of one operation, from o to n. *)
Submit(o, n) ==
  /\ o.st = "NEW" /\ n.count > 0
  /\ n = [New EXCEPT !.st = "OPEN", !.write = n.write, !.count = n.count]

Cancel(o, n) == o.st = "OPEN" /\ n = [o EXCEPT !.cancelled = TRUE]

Work(o, n) ==
  LET w == [o EXCEPT !.applied = n.applied, !.tainted = n.tainted]
  IN /\ o.st = "OPEN" /\ n.applied \in o.applied .. o.count /\ (o.tainted => n.tainted)
     /\ o.write \/ w = o
     /\ \/ n = w
        \/ Truthful(w, n.res) /\ n = [w EXCEPT !.st = "DONE", !.res = n.res]

Take(o, n) == o.st = "DONE" /\ n = [o EXCEPT !.st = "TAKEN"]

\* Operations are submitted in the order of their UIDs.
Operate(u) ==
  /\ \A v \in Uids \ {u} : op'[v] = op[v]
  /\ LET o == op[u]
         n == op'[u]
     IN \/ Submit(o, n) /\ ~closed /\ \A v \in 1 .. u - 1 : op[v].st # "NEW"
        \/ Cancel(o, n) \/ Work(o, n) \/ Take(o, n)
  /\ UNCHANGED closed

\* A reset cancels what is still open.
Reset ==
  /\ closed' = TRUE
  /\ \A u \in Uids : op'[u] = [op[u] EXCEPT !.cancelled = @ \/ op[u].st = "OPEN"]

Next == (\E u \in Uids : Operate(u)) \/ Reset

Spec == Init /\ [][Next]_<<op, closed>>

============================================================================
