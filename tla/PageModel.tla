----------------------------- MODULE PageModel -----------------------------
(***************************************************************************)
(* The functional PAGE2 provider R0, core/nfc-page-v2/nfc_page_v2.c: one   *)
(* slot, one physical operation per step.                                  *)
(*                                                                         *)
(* pm is struct fwlab_nfc_page_v2_model without its windows.  nand is the  *)
(* media.  led is a ledger of what really happened, which the code does    *)
(* not keep; the results are compared with it.                             *)
(***************************************************************************)
EXTENDS PageMedia

VARIABLES pm, nand, led
vars == <<set, pm, nand, led>>

Free == [state |-> "EMPTY", uid |-> 0, req |-> NoRequest, cancel |-> FALSE, res |-> NoResult]

Init ==
  /\ set \in Settings
  /\ pm = [slot |-> Free, last |-> 0, closed |-> FALSE, quar |-> FALSE]
  /\ nand \in Media
  /\ led = [u \in Uids |-> NewEntry]

\* A repeated submit of the active key answers from the slot and changes
\* nothing; a new key is above last_uid, and the model numbers them in order.
try_submit(r) ==
  LET u == pm.last + 1
  IN /\ ~page2_shape_reason(r) /\ ~pm.closed /\ ~pm.quar
     /\ u <= set.many /\ pm.slot.state = "EMPTY"
     /\ pm' = [pm EXCEPT !.last = u, !.slot = [Free EXCEPT !.state = "QUEUED", !.uid = u, !.req = r]]
     /\ led' = [led EXCEPT ![u].req = r]
     /\ UNCHANGED nand

\* Once the result is fixed a cancel changes nothing.
cancel ==
  /\ pm.slot.state = "QUEUED"
  /\ pm' = [pm EXCEPT !.slot.cancel = TRUE]
  /\ led' = [led EXCEPT ![pm.slot.uid].cancelled = TRUE]
  /\ UNCHANGED nand

Fixed(terminal, effect, quarantine) ==
  pm' = [pm EXCEPT !.slot.state = "DONE", !.quar = @ \/ quarantine,
                   !.slot.res = [terminal |-> terminal, effect |-> effect]]

failure(effect, quarantine) == Fixed("FAILED", effect, quarantine)

cancelled == pm.slot.cancel \/ pm.closed

step_cancelled == cancelled /\ Fixed("CANCELLED", "NONE", FALSE) /\ UNCHANGED <<nand, led>>

read_group ==
  LET r == pm.slot.req
  IN /\ ~cancelled /\ r.kind = "READ"
     /\ \/ set.faults /\ failure("NONE", TRUE)
        \/ IF page2_read_fact(nand[r.t], r.first .. r.first + r.count - 1)
           THEN Fixed("SUCCESS", "NONE", FALSE)
           ELSE failure("NONE", FALSE)
     /\ UNCHANGED <<nand, led>>

\* preflight failed: no mutating callback was dispatched.
preflight ==
  LET r == pm.slot.req
  IN /\ ~cancelled /\ mutating(r)
     /\ \/ set.faults /\ failure("NONE", TRUE)
        \/ page2_mutation_reason(r, r.first, nand[r.t]) /\ failure("NONE", FALSE)
     /\ UNCHANGED <<nand, led>>

\* A status that says nothing about the pages leaves the effect unknown.
Verdict(a, n) ==
  IF ~a.ok THEN "UNKNOWN"
  ELSE IF a.k = n THEN "COMPLETE"
  ELSE IF a.k = 0 /\ ~a.torn THEN "NONE" ELSE "NONCOMPLETE"

mutate ==
  LET r == pm.slot.req
      u == pm.slot.uid
  IN /\ ~cancelled /\ mutating(r) /\ ~page2_mutation_reason(r, r.first, nand[r.t])
     /\ \E a \in Answers(r.count) :
          LET e == Verdict(a, r.count)
          IN /\ nand' = [nand EXCEPT ![r.t] = Mutated(@, r, a)]
             /\ led' = [led EXCEPT ![u] = Credited(@, a)]
             /\ IF e = "COMPLETE" THEN Fixed("SUCCESS", e, FALSE) ELSE failure(e, e # "NONE")

step ==
  /\ pm.slot.state = "QUEUED"
  /\ step_cancelled \/ read_group \/ preflight \/ mutate

take_result ==
  /\ pm.slot.state = "DONE"
  /\ pm' = [pm EXCEPT !.slot = Free]
  /\ led' = [led EXCEPT ![pm.slot.uid].out = pm.slot.res]
  /\ UNCHANGED nand

reset_begin ==
  /\ pm' = [pm EXCEPT !.closed = TRUE]
  /\ led' = [u \in Uids |-> [led[u] EXCEPT !.cancelled = @ \/ (pm.slot.state = "QUEUED" /\ pm.slot.uid = u)]]
  /\ UNCHANGED nand

quiescent == pm.closed /\ pm.slot.state = "EMPTY"
live_idle == ~pm.closed /\ ~pm.quar /\ pm.slot.state = "EMPTY"

Next ==
  /\ UNCHANGED set
  /\ (\E r \in set.requests : try_submit(r)) \/ cancel \/ step \/ take_result \/ reset_begin

Spec == Init /\ [][Next]_vars

----------------------------------------------------------------------------
(* Properties *)

Terminals == {"NONE", "SUCCESS", "FAILED", "CANCELLED"}
Effects == {"NONE", "COMPLETE", "NONCOMPLETE", "UNKNOWN"}
Results == [terminal : Terminals, effect : Effects]

TypeOK ==
  /\ pm.slot.state \in {"EMPTY", "QUEUED", "DONE"} /\ pm.slot.uid \in 0 .. MaxRequests
  /\ pm.slot.res \in Results /\ pm.last \in 0 .. MaxRequests
  /\ pm.closed \in BOOLEAN /\ pm.quar \in BOOLEAN
  /\ \A t \in Targets : nand[t].next \in 0 .. PagesPerBlock

\* The operations as the caller knows them: the slot, or the ledger once the
\* result is out.
Operation(u) ==
  LET e == led[u]
      here == pm.slot.uid = u
  IN [st |-> IF u > pm.last THEN "NEW" ELSE IF ~here THEN "TAKEN"
             ELSE IF pm.slot.state = "DONE" THEN "DONE" ELSE "OPEN",
      write |-> u <= pm.last /\ mutating(e.req), count |-> IF u <= pm.last THEN e.req.count ELSE 0,
      applied |-> e.applied, tainted |-> e.tainted, cancelled |-> e.cancelled,
      res |-> IF here THEN pm.slot.res ELSE e.out]

Contract == INSTANCE PageProvider WITH op <- [u \in Uids |-> Operation(u)], closed <- pm.closed

\* R0 keeps the provider's promise: a result is fixed once, is a true account
\* of the media, and nothing happens for an operation after it.
ImplementsProvider == Contract!Spec

\* After an effect nobody can account for, no further operation is admitted:
\* the media a later operation meets is what the results say it is (quarantine).
UnknownIsLast ==
  \A u, v \in Uids :
    u < v /\ led[v].req # NoRequest => Operation(u).res.effect \notin {"UNKNOWN", "NONCOMPLETE"}

============================================================================
