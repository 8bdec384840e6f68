------------------------------ MODULE QueueHif ------------------------------
(***************************************************************************)
(* The headless C4-2 queue HIF: frontends/headless-c4/hif/c42_queue.c,     *)
(* c42_publication.c, c42_identity.c and c42_runtime.c, with its two       *)
(* providers, the command port and the Host memory, as                     *)
(* fakes/c42_command.c and fakes/c42_memory.c implement them.              *)
(*                                                                         *)
(* One action is one unit of c42_step or one call of the API.  A function  *)
(* of the HIF is an operator from the controller d and the surroundings e  *)
(* to the set of results it can have, one for each answer of the provider  *)
(* it calls.  A provider may answer late (IN_PROGRESS, UNKNOWN, a prefix)  *)
(* or wrongly as often as the setting allows.                              *)
(***************************************************************************)
EXTENDS Integers, FiniteSets, FiniteSetsExt, SequencesExt

CONSTANT Settings   \* the settings a behaviour may have, see set

VARIABLES
  set,   \* never changed: queues, the queue pairs in use; depth; records,
         \*   the command capacity; uids, the last operation number; budgets
         \*   of submissions (work), candidates (cands), deletions (dels),
         \*   resets, late and wrong answers (late, bad) and abort targets;
         \*   abort and tear, whether candidates are aborted and the HIF torn
         \*   down; tidy, the Host waits for the creation of all queues
  dev,   \* struct c42_controller
  env    \* the two providers, the Host, and what is left of the budgets

vars == <<set, dev, env>>

Q == set.queues
Records == 0 .. set.records - 1
Slots == 0 .. set.depth - 1
Next1(i) == (i + 1) % set.depth

----------------------------------------------------------------------------
(* The records of the controller.                                          *)

AbsentSq == [life |-> "ABSENT", gen |-> 0, last |-> 0, tail |-> 0, head |-> 0,
             pend |-> 0, frozen |-> 0]
FreeSlot == [st |-> "FREE", uid |-> 0, gen |-> 0, cid |-> 0, sqhd |-> 0, phase |-> 0]
NoAck == [head |-> 0, delta |-> 0]
AbsentCq == [life |-> "ABSENT", gen |-> 0, last |-> 0, head |-> 0, tail |-> 0,
             phase |-> 1, unacked |-> 0, reserved |-> 0, ack |-> NoAck,
             scrubbed |-> FALSE, slots |-> [i \in Slots |-> FreeSlot]]
NoCandidate == [st |-> "NONE", gen |-> 0, cqgen |-> 0, epoch |-> 0,
                scrub |-> FALSE, retired |-> FALSE]
\* The command, publication, reconcile and notification records of one index:
\* the first two are released together, the others live on.
FreeCommand == [st |-> "FREE", q |-> 0, gen |-> 0, cid |-> 0, uid |-> 0, slot |-> 0,
                started |-> "NO", visible |-> FALSE]
FreeRecord == FreeCommand @@ [rec |-> "NONE", note |-> "NONE", epoch |-> 0]
NoControl == [st |-> "NONE", kind |-> "NONE", q |-> 0, port |-> FALSE,
              mem |-> FALSE, old |-> 0]

\* c42_init
InitDev(s) ==
  [phase |-> "COLD", paused |-> FALSE, cause |-> "NONE", epoch |-> 1, uid |-> 1,
   lane |-> 0, adm |-> 0, pub |-> 0, rcur |-> 0, sqc |-> 0, ready |-> 0,
   polled |-> FALSE,
   sq |-> [q \in s.queues |-> AbsentSq],
   cq |-> [q \in s.queues |->
            [AbsentCq EXCEPT !.slots = [i \in 0 .. s.depth - 1 |-> FreeSlot]]],
   cand |-> [k \in {"SQ", "CQ"} \X s.queues |-> NoCandidate],
   cmd |-> [i \in 0 .. s.records - 1 |-> FreeRecord],
   targets |-> {},
   ctl |-> [i \in 0 .. 1 |-> NoControl], rst |-> NoControl, tear |-> NoControl]

\* c42_fault_controller
fault_controller(d, cause) ==
  IF d.phase \in {"TEARING_DOWN", "DEAD"} THEN d
  ELSE [d EXCEPT !.cause = cause, !.phase = "FAULTED", !.paused = TRUE]

\* c42_fault_sq
fault_sq(d, q, cause) ==
  fault_controller([d EXCEPT !.sq[q].life = "FAULTED"], cause)

\* c42_command_record_active
Active(c) == c.st \in {"HIF_COMMITTED", "READY", "LEASED", "CONSUME_PREPARE",
                       "PUB_RESERVED", "MARKER_RECONCILE", "CONSUME_POISON_HOLD"}

\* c42_find_active_command
find_active(d, q, cid) ==
  \E i \in DOMAIN d.cmd : /\ Active(d.cmd[i])
                          /\ d.cmd[i].q = q /\ d.cmd[i].cid = cid
                          /\ d.cmd[i].gen = d.sq[q].gen

\* c42_release_command_record
release_command_record(d, i) == [d EXCEPT !.cmd[i] = FreeCommand @@ @]

\* clear_command_all
clear_command_all(d, i) == [d EXCEPT !.cmd[i] = FreeRecord]

\* The one of S the code's search from a cursor finds, as a set.
FirstFrom(S, cursor, n) ==
  {i \in S : \A j \in S : (i + n - cursor) % n <= (j + n - cursor) % n}

----------------------------------------------------------------------------
(* The surroundings.  A port record follows its command: key (prepare      *)
(* started), prepared, admitted, ready, leased, consuming, committed.      *)

ScrubFree == [act |-> FALSE, gen |-> 0, done |-> FALSE]
PubFree == [act |-> FALSE, marker |-> FALSE, uid |-> 0, slot |-> 0, prefix |-> 0,
            done |-> FALSE]
Wire == [uid |-> 0, cid |-> 0, sqhd |-> 0, torn |-> FALSE, phase |-> 0]
HostSq == [on |-> FALSE, tail |-> 0, head |-> 0, out |-> {}]
HostCq == [on |-> FALSE, head |-> 0, rung |-> 0, phase |-> 1]

InitEnv(s) ==
  [port |-> [i \in 0 .. s.records - 1 |-> "NONE"], pepoch |-> 1, pold |-> {},
   mepoch |-> 1, mold |-> {},
   sqe |-> [q \in s.queues |-> [i \in 0 .. s.depth - 1 |-> 0]],
   cqe |-> [q \in s.queues |-> [i \in 0 .. s.depth - 1 |-> Wire]],
   scrub |-> [q \in s.queues |-> ScrubFree],
   pub |-> [q \in s.queues |-> PubFree],
   ring |-> 1, hsq |-> [q \in s.queues |-> HostSq],
   hcq |-> [q \in s.queues |-> HostCq], wrong |-> FALSE,
   work |-> s.work, cands |-> s.cands, dels |-> s.dels, resets |-> s.resets,
   late |-> s.late, bad |-> s.bad]

\* An answer: at once, late, or one the contract of the provider forbids.
Now(a, e) == {[a |-> a, e |-> e]}
Late(a, e) == IF e.late = 0 THEN {} ELSE Now(a, [e EXCEPT !.late = @ - 1])
Bad(a, e) == IF e.bad = 0 THEN {} ELSE Now(a, [e EXCEPT !.bad = @ - 1])
Port(e, i, stage) == [e EXCEPT !.port[i] = stage]

\* fake_prepare_start, fake_prepare_query
port_prepare(e, i) ==
  Now("RESERVED", Port(e, i, "PREPARED"))
  \cup Late("IN_PROGRESS", Port(e, i, "KEY"))
  \cup (IF e.port[i] = "NONE" THEN Late("BACKPRESSURE", e) ELSE {})
  \cup UNION {Bad(a, Port(e, i, "NONE")) : a \in {"REJECTED", "INVALID"}}
  \cup Bad("MISMATCH", Port(e, i, "PREPARED"))

\* prepare_abort_common
port_prepare_abort(e, i) ==
  IF e.port[i] # "PREPARED" THEN Now("WRONG_STATE", e)
  ELSE Now("ABORTED", Port(e, i, "NONE")) \cup Late("IN_PROGRESS", e)

\* admit_common: a wrong answer may come with or without its effect.
port_admit(e, i) ==
  Now("COMMITTED", Port(e, i, "ADMITTED"))
  \cup (IF e.port[i] = "ADMITTED" THEN {} ELSE
        Late("NOT_STARTED", e) \cup Bad("ABORTED", e) \cup Bad("INVALID", e))
  \cup Bad("INVALID", Port(e, i, "ADMITTED"))

Nothing == -1    \* answers of a poll that are no record
Mismatch == -2

\* fake_poll: any admitted command may be the ready one (reverse_ready).
port_poll(e) ==
  LET some == {i \in Records : e.port[i] = "ADMITTED"}
  IN UNION {Now(i, Port(e, i, "READY")) : i \in some}
     \cup (IF some = {} THEN Now(Nothing, e) ELSE Late(Nothing, e))
     \cup Bad(Mismatch, e)

\* fake_completion_acquire
port_completion_acquire(e, i) ==
  (IF e.port[i] = "READY" THEN Now("OK", Port(e, i, "LEASED")) ELSE Now("STALE", e))
  \cup Bad("INVALID", e)

\* fake_consume_prepare
port_consume_prepare(e, i) ==
  IF e.port[i] \notin {"LEASED", "CONSUMING"} THEN Now("STALE", e)
  ELSE Now("PREPARED", Port(e, i, "CONSUMING"))
       \cup Late("NOT_STARTED", e) \cup Bad("INVALID", e)

\* fake_consume_commit, fake_consume_query
port_consume(e, i) ==
  CASE e.port[i] = "CONSUMING" ->
         Now("COMMITTED", Port(e, i, "COMMITTED"))
         \cup Late("CLEANUP", Port(e, i, "COMMITTED"))
         \cup Late("PREPARED", e) \cup Bad("INVALID", e)
    [] e.port[i] = "COMMITTED" ->
         Now("COMMITTED", e) \cup Late("CLEANUP", e) \cup Bad("INVALID", e)
    [] OTHER -> Now("STALE", e)

\* fake_consume_retire
port_consume_retire(e, i) ==
  IF e.port[i] # "COMMITTED" THEN Now("STALE", e)
  ELSE Now("RETIRED", Port(e, i, "NONE"))
       \cup Late("IN_PROGRESS", e) \cup Bad("INVALID", e)

\* fake_reset_begin and fake_teardown_begin of the command port: every record
\* of the old epoch is retired.
port_begin(e, kind, old) ==
  IF e.pepoch # old THEN Now("INVALID", e)
  ELSE Now("OK", [e EXCEPT !.pepoch = old + 1, !.pold = {<<kind, old>>},
                           !.port = [i \in Records |-> "NONE"]])
       \cup Late("IN_PROGRESS", e) \cup Bad("INVALID", e)

\* fake_reset_quiescent and fake_teardown_quiescent of the command port
port_quiescent(e, kind, old) ==
  IF <<kind, old>> \notin e.pold THEN Now("INVALID", e)
  ELSE Now("OK", e) \cup Late("IN_PROGRESS", e) \cup Bad("INVALID", e)

\* fake_reset_begin and fake_teardown_begin of the memory
memory_begin(e, kind, old) ==
  IF e.mepoch # old THEN Now("INVALID", e)
  ELSE Now("OK", [e EXCEPT !.mepoch = old + 1, !.mold = {<<kind, old>>},
                           !.scrub = [q \in Q |-> ScrubFree],
                           !.pub = [q \in Q |-> PubFree]])
       \cup Late("IN_PROGRESS", e) \cup Bad("INVALID", e)

\* fake_reset_quiescent and fake_teardown_quiescent of the memory
memory_quiescent(e, kind, old) ==
  IF <<kind, old>> \notin e.mold THEN Now("INVALID", e)
  ELSE Now("OK", e) \cup Late("IN_PROGRESS", e) \cup Bad("INVALID", e)

\* scrub_common: a late answer may hide a scrub that is done.
memory_scrub(e, q, gen, start) ==
  LET r == e.scrub[q]
      open == [e EXCEPT !.scrub[q] = [act |-> TRUE, gen |-> gen,
                                      done |-> r.gen = gen /\ r.done]]
      done == [open EXCEPT !.scrub[q].done = TRUE,
                           !.cqe[q] = [i \in Slots |-> Wire]]
  IN CASE start /\ r.act /\ r.gen # gen -> Now("POISONED", e)
       [] ~start /\ (~r.act \/ r.gen # gen) -> Now("STALE", e)
       [] OTHER -> Now("FULL", done) \cup Late("UNKNOWN", done)
                   \cup Late("UNKNOWN", open) \cup Bad("POISONED", open)

\* fake_scrub_abort, scrub_retire_common: retired, the record can be replaced.
memory_scrub_end(e, q, gen) ==
  IF e.scrub[q].gen # gen THEN Now("STALE", e)
  ELSE Now("RETIRED", [e EXCEPT !.scrub[q].act = FALSE])
       \cup Late("IN_PROGRESS", e) \cup Bad("POISONED", e)

\* body_common: prefix 2 stands for all 15 bytes, 1 for some of them.
memory_body(e, q, w, slot, start) ==
  LET r == e.pub[q]
      rec(p) == [act |-> TRUE, marker |-> FALSE, uid |-> w.uid, slot |-> slot,
                 prefix |-> p, done |-> FALSE]
      own == r.act /\ r.uid = w.uid /\ r.slot = slot /\ ~r.marker
      had == IF own THEN r.prefix ELSE 0
      put(p) == [e EXCEPT !.pub[q] = rec(p),
                          !.cqe[q][slot] = [w EXCEPT !.phase = e.cqe[q][slot].phase,
                                                     !.torn = p # 2]]
  IN CASE start /\ r.act /\ ~own -> Now("POISONED", e)
       [] ~start /\ ~own -> Now("STALE", e)
       [] OTHER -> Now("FULL", put(2))
                   \cup Late("UNKNOWN", put(2))
                   \cup Late("NO_EFFECT", [e EXCEPT !.pub[q] = rec(had)])
                   \cup (IF had < 1 THEN Late("PREFIX", put(1)) ELSE {})
                   \cup Bad("POISONED", e)

\* marker_common: only FULL closes the record.
memory_marker(e, q, uid, slot, phase, start) ==
  LET r == e.pub[q]
      open == [e EXCEPT !.pub[q].marker = TRUE]
      seen == [open EXCEPT !.cqe[q][slot].phase = phase, !.pub[q].done = TRUE]
  IN CASE start /\ (~r.act \/ r.marker \/ r.prefix # 2 \/ r.slot # slot) ->
            Now("POISONED", e)
       [] ~start /\ (~r.act \/ ~r.marker \/ r.uid # uid \/ r.slot # slot) ->
            Now("STALE", e)
       [] OTHER -> Now("FULL", [seen EXCEPT !.pub[q] = PubFree])
                   \cup Late("UNKNOWN", seen) \cup Late("UNKNOWN", open)
                   \cup Late("NO_EFFECT", open) \cup Bad("POISONED", open)

----------------------------------------------------------------------------
(* The lanes of c42_step.  A result says whether the lane progressed.      *)

Result(d, e) == [d |-> d, e |-> e, ok |-> TRUE]
Idle(d, e) == {[d |-> d, e |-> e, ok |-> FALSE]}
Cmd(d, i, st) == [d EXCEPT !.cmd[i].st = st]
FaultSqOf(d, i, cause) == fault_sq(d, d.cmd[i].q, cause)
After(i) == (i + 1) % set.records   \* a cursor after record i

\* duplicate_cid
duplicate_cid(d, q, cid) ==
  \E i \in Records : /\ d.cmd[i].st # "FREE" /\ d.cmd[i].q = q
                     /\ d.cmd[i].gen = d.sq[q].gen /\ d.cmd[i].cid = cid

\* admission_resources_available: the index is free in all four tables.
FreeIndexes(d) ==
  {i \in Records : d.cmd[i].st = "FREE" /\ d.cmd[i].rec = "NONE" /\ d.cmd[i].note = "NONE"}

\* capture_one: the entry is copied, the head moves only with the HIF commit.
capture_one(d, e, q) ==
  LET cid == e.sqe[q][d.sq[q].head]
      i == Min(FreeIndexes(d))
      taken == [d EXCEPT !.uid = @ + 1,
                  !.cmd[i] = [FreeRecord EXCEPT !.st = "CAPTURED", !.q = q, !.cid = cid,
                                !.gen = d.sq[q].gen, !.uid = d.uid, !.rec = "RESERVED",
                                !.note = "RESERVED", !.epoch = d.epoch]]
  IN IF d.uid > set.uids THEN {Result(fault_sq(d, q, "COUNTER_EXHAUSTED"), e)}
     ELSE IF FreeIndexes(d) = {} THEN Idle(d, e)
     ELSE IF duplicate_cid(d, q, cid) THEN {Result(fault_sq(d, q, "DUPLICATE_CID"), e)}
     ELSE {Result(taken, e)}
          \cup {Result(fault_sq(d, q, "QUEUE_MEMORY"), r.e) : r \in Bad("INVALID", e)}

\* progress_prepare, with the c41_capture_command that follows
progress_prepare(d, e, i) ==
  {Result(CASE r.a = "IN_PROGRESS" -> Cmd(d, i, "PREPARE_QUERY")
            [] r.a = "INVALID" -> FaultSqOf(d, i, "PORT_CONTRACT")
            [] r.a = "BACKPRESSURE" -> Cmd(d, i, "CAPTURED")
            [] r.a = "REJECTED" -> fault_sq(clear_command_all(d, i), d.cmd[i].q, "PORT_CONTRACT")
            [] r.a = "MISMATCH" -> FaultSqOf(Cmd(d, i, "ABORT_RECONCILE"), i, "PORT_CONTRACT")
            [] OTHER -> Cmd(d, i, "PORT_RESERVED"), r.e) : r \in port_prepare(e, i)}

\* progress_admit, hold_poisoned_admission
progress_admit(d, e, i) ==
  {Result(CASE r.a = "NOT_STARTED" -> Cmd(d, i, "ADMIT_QUERY")
            [] r.a = "COMMITTED" -> Cmd(d, i, "PORT_COMMITTED")
            [] r.a = "ABORTED" -> FaultSqOf(Cmd(d, i, "ABORT_RECONCILE"), i, "PORT_CONTRACT")
            [] OTHER -> FaultSqOf(Cmd(d, i, "ADMIT_POISON_HOLD"), i, "PORT_CONTRACT"),
          r.e) : r \in port_admit(e, i)}

\* progress_admit_poison: only a definite "not admitted" frees the record.
progress_admit_poison(d, e, i) ==
  {Result(IF r.a \in {"NOT_STARTED", "ABORTED"} THEN Cmd(d, i, "ABORT_RECONCILE") ELSE d,
          r.e) : r \in port_admit(e, i)}

\* progress_hif_commit
progress_hif_commit(d, e, i) ==
  LET q == d.cmd[i].q
      sq == d.sq[q]
  IN {Result(
        IF sq.life \notin {"LIVE", "PREQUIESCE"} \/ sq.gen # d.cmd[i].gen \/ sq.pend = 0
        THEN fault_sq(d, q, "PORT_CONTRACT")
        ELSE IF find_active(d, q, d.cmd[i].cid) THEN fault_sq(d, q, "DUPLICATE_CID")
        ELSE [Cmd(d, i, "HIF_COMMITTED") EXCEPT !.sq[q].head = Next1(@), !.sq[q].pend = @ - 1],
        e)}

\* progress_abort_reconcile
progress_abort_reconcile(d, e, i) ==
  {Result(CASE r.a = "ABORTED" -> clear_command_all(d, i)
            [] r.a = "IN_PROGRESS" -> d
            [] OTHER -> fault_controller(d, "PROVIDER_POISON"), r.e)
     : r \in port_prepare_abort(e, i)}

\* c42_progress_admission
progress_admission(d, e) ==
  LET held == {i \in Records : d.cmd[i].st \in {"ADMIT_POISON_HOLD", "ABORT_RECONCILE"}}
      open == {i \in Records : d.cmd[i].st \in {"CAPTURED", "PREPARE_QUERY", "PORT_RESERVED",
                                                "ADMIT_QUERY", "PORT_COMMITTED"}}
      full == {q \in Q : d.sq[q].life \in {"LIVE", "PREQUIESCE"} /\ d.sq[q].pend # 0}
      one(S) == FirstFrom(S, d.adm, set.records)
      past(i, S) == {[r EXCEPT !.d.adm = After(i)] : r \in S}
  IN IF d.phase \notin {"READY", "FAULTED"} THEN Idle(d, e)
     ELSE IF held # {} THEN
            UNION {past(i, IF d.cmd[i].st = "ABORT_RECONCILE" THEN progress_abort_reconcile(d, e, i)
                           ELSE progress_admit_poison(d, e, i)) : i \in one(held)}
     ELSE IF d.phase # "READY" \/ d.paused THEN Idle(d, e)
     ELSE IF open # {} THEN
            UNION {past(i, CASE d.cmd[i].st \in {"CAPTURED", "PREPARE_QUERY"} ->
                                  progress_prepare(d, e, i)
                             [] d.cmd[i].st = "PORT_COMMITTED" -> progress_hif_commit(d, e, i)
                             [] OTHER -> progress_admit(d, e, i)) : i \in one(open)}
     ELSE IF full = {} THEN Idle(d, e)
     ELSE UNION {{[r EXCEPT !.d.sqc = (q + 1) % 2] : r \in capture_one(d, e, q)}
                   : q \in FirstFrom(full, d.sqc, 2)}

\* acquire_completion: it waits for room in the completion queue.
Room(cq) == cq.unacked + cq.reserved < set.depth - 1
CanAcquire(d, i) == d.cq[d.cmd[i].q].life = "LIVE" /\ Room(d.cq[d.cmd[i].q])
acquire_completion(d, e, i) ==
  {Result(IF r.a = "OK" THEN Cmd(d, i, "LEASED")
          ELSE fault_controller(d, "COMPLETION_CONTRACT"), r.e)
     : r \in port_completion_acquire(e, i)}

\* reserve_cq_slot: the SQ head the completion reports is taken here.
reserve_cq_slot(d, i) ==
  LET c == d.cmd[i]
      cq == d.cq[c.q]
      sq == d.sq[c.q]
  IN IF \/ cq.life # "LIVE" \/ sq.life \notin {"LIVE", "PREQUIESCE", "QUIESCING"}
        \/ sq.gen # c.gen \/ c.rec = "NONE" \/ c.note = "NONE"
     THEN fault_controller(d, "COMPLETION_CONTRACT")
     ELSE IF ~Room(cq) \/ cq.slots[cq.tail].st # "FREE" THEN Cmd(d, i, "CONSUME_PREPARE")
     ELSE   [d EXCEPT !.cmd[i].st = "PUB_RESERVED", !.cmd[i].slot = cq.tail,
                      !.cmd[i].rec = "PREPARED", !.cq[c.q].reserved = @ + 1,
                      !.cq[c.q].slots[cq.tail] =
                        [st |-> "RESERVED", uid |-> c.uid, gen |-> c.gen, cid |-> c.cid,
                         sqhd |-> sq.head, phase |-> cq.phase]]

\* prepare_consume
prepare_consume(d, e, i) ==
  {Result(CASE r.a = "NOT_STARTED" -> Cmd(d, i, "CONSUME_PREPARE")
            [] r.a = "PREPARED" -> reserve_cq_slot(d, i)
            [] OTHER -> fault_controller(Cmd(d, i, "CONSUME_POISON_HOLD"), "CONSUME_CONTRACT"),
          r.e) : r \in port_consume_prepare(e, i)}

\* poll_ready_once, latch_ready_event
poll_ready_once(d, e) ==
  {Result(CASE r.a = Nothing -> d
            [] r.a \in Records /\ d.cmd[r.a].st = "HIF_COMMITTED" -> Cmd(d, r.a, "READY")
            [] OTHER -> fault_controller(d, "READY_CONTRACT"), r.e) : r \in port_poll(e)}

\* local_hif_commit_pending: its ready event could not be latched yet.
local_hif_commit_pending(d) == \E i \in Records : d.cmd[i].st = "PORT_COMMITTED"

\* c42_poll_ready: a poll owed since the last time comes before the records.
poll_ready(d, e) ==
  LET waiting == {i \in Records : d.cmd[i].st = "HIF_COMMITTED"}
      due == {i \in Records : \/ d.cmd[i].st = "READY" /\ CanAcquire(d, i)
                              \/ d.cmd[i].st \in {"LEASED", "CONSUME_PREPARE"}}
      turn(j) == (j + set.records - d.ready) % set.records
      past(i, S) == {[r EXCEPT !.d.ready = After(i),
                               !.d.polled = \E j \in waiting : turn(j) < turn(i)] : r \in S}
      calm == [d EXCEPT !.polled = FALSE]
  IN IF d.phase # "READY" \/ d.paused \/ local_hif_commit_pending(d) THEN Idle(d, e)
     ELSE IF d.polled /\ waiting # {} THEN poll_ready_once(calm, e)
     ELSE IF due # {} THEN UNION {past(i, IF d.cmd[i].st = "READY" THEN acquire_completion(d, e, i)
                                          ELSE prepare_consume(d, e, i))
                                    : i \in FirstFrom(due, d.ready, set.records)}
     ELSE IF waiting # {} THEN poll_ready_once(d, e)
     ELSE Idle(calm, e)

\* progress_body
progress_body(d, e, i) ==
  LET c == d.cmd[i]
      s == d.cq[c.q].slots[c.slot]
      on == [d EXCEPT !.cmd[i].started = "BODY"]
  IN {Result(CASE r.a = "FULL" -> [on EXCEPT !.cq[c.q].slots[c.slot].st = "BODY_STAGED"]
               [] r.a \in {"PREFIX", "NO_EFFECT", "UNKNOWN"} -> on
               [] OTHER -> fault_controller(on, "PUBLICATION_MEMORY"), r.e)
        : r \in memory_body(e, c.q, [uid |-> c.uid, cid |-> c.cid, sqhd |-> s.sqhd,
                                     torn |-> FALSE, phase |-> s.phase],
                            c.slot, c.started = "NO")}

\* Mutant: admission goes on while the Host may see the entry.
pause_for_marker_open(d, i) ==
  [d EXCEPT !.cmd[i].st = "MARKER_RECONCILE",
            !.cq[d.cmd[i].q].slots[d.cmd[i].slot].st = "MARKER_VISIBLE"]

\* pause_for_marker: the Host may see the entry from here on.
pause_for_marker(d, i) ==
  [d EXCEPT !.cmd[i].st = "MARKER_RECONCILE", !.paused = TRUE,
            !.cq[d.cmd[i].q].slots[d.cmd[i].slot].st = "MARKER_VISIBLE"]

\* progress_marker
progress_marker(d, e, i) ==
  LET c == d.cmd[i]
      on == [d EXCEPT !.cmd[i].started = "MARKER"]
  IN {Result(CASE r.a = "FULL" -> pause_for_marker([on EXCEPT !.cmd[i].visible = TRUE], i)
               [] r.a = "UNKNOWN" -> pause_for_marker([on EXCEPT !.cmd[i].visible = FALSE], i)
               [] r.a = "NO_EFFECT" -> on
               [] OTHER -> fault_controller(pause_for_marker(on, i), "PUBLICATION_MEMORY"),
             r.e) : r \in memory_marker(e, c.q, c.uid, c.slot,
                                        d.cq[c.q].slots[c.slot].phase,
                                        c.started # "MARKER")}

\* c42_try_finish_tombstones, committed_for_sq_exists, clear_sq_to_absent
CommittedFor(d, q, gen) ==
  \E k \in Q : \E n \in Slots : /\ k = q /\ d.cq[k].slots[n].st = "COMMITTED"
                                /\ d.cq[k].slots[n].gen = gen
clear_sq_to_absent(d, q) == [d EXCEPT !.sq[q] = [AbsentSq EXCEPT !.last = d.sq[q].last]]
try_finish_tombstones(d) ==
  [d EXCEPT !.sq = [q \in Q |-> IF d.sq[q].life = "TOMBSTONED" /\ ~CommittedFor(d, q, d.sq[q].gen)
                                THEN [AbsentSq EXCEPT !.last = d.sq[q].last] ELSE d.sq[q]]]

\* ack_prefix_valid, apply_ack: the slots from the Host's head become free.
Acked(cq, delta) == {(cq.head + k) % set.depth : k \in 0 .. delta - 1}
ack_prefix_valid(cq, delta) ==
  delta <= cq.unacked /\ \A n \in Acked(cq, delta) : cq.slots[n].st = "COMMITTED"
apply_ack(d, q, head, delta) ==
  LET cq == d.cq[q]
  IN try_finish_tombstones(
       [d EXCEPT !.cq[q].head = head, !.cq[q].unacked = @ - delta,
                 !.cq[q].slots = [n \in Slots |-> IF n \in Acked(cq, delta) THEN FreeSlot
                                                  ELSE cq.slots[n]]])

\* recompute_admission_pause
recompute_admission_pause(d) ==
  [d EXCEPT !.paused = \E i \in Records : d.cmd[i].st = "MARKER_RECONCILE"]

\* cross_commit: the completion is committed, the command record released and
\* an acknowledgement that came before is applied.
cross_commit(d, i, state) ==
  LET q == d.cmd[i].q
      cq == d.cq[q]
      moved == recompute_admission_pause(release_command_record(
                 [d EXCEPT !.cq[q].slots[d.cmd[i].slot].st = "COMMITTED",
                           !.cq[q].reserved = @ - 1, !.cq[q].unacked = @ + 1,
                           !.cq[q].tail = Next1(@),
                           !.cq[q].phase = IF cq.tail + 1 = set.depth THEN 1 - @ ELSE @,
                           !.cmd[i].note = "READY",
                           !.cmd[i].rec = IF state = "CLEANUP" THEN "CLEANUP" ELSE "RETIRE"], i))
      ack == cq.ack
  IN IF cq.slots[d.cmd[i].slot].st # "MARKER_VISIBLE" \/ cq.reserved = 0
     THEN fault_controller(d, "CONSUME_CONTRACT")
     ELSE IF ack.delta = 0 THEN moved
     ELSE IF ack_prefix_valid(moved.cq[q], ack.delta)
     THEN [apply_ack(moved, q, ack.head, ack.delta) EXCEPT !.cq[q].ack = NoAck]
     ELSE fault_controller(moved, "PUBLICATION_MEMORY")

\* progress_cross_commit
progress_cross_commit(d, e, i) ==
  LET on == [d EXCEPT !.cmd[i].rec = "COMMIT_UNKNOWN"]
  IN IF ~d.cmd[i].visible THEN progress_marker(d, e, i)
     ELSE {Result(CASE r.a = "PREPARED" -> on
                    [] r.a \in {"COMMITTED", "CLEANUP"} -> cross_commit(on, i, r.a)
                    [] OTHER -> fault_controller(on, "CONSUME_CONTRACT"), r.e)
             : r \in port_consume(e, i)}

\* c42_progress_publication
progress_publication(d, e) ==
  LET S == {i \in Records : d.cmd[i].st \in {"MARKER_RECONCILE", "PUB_RESERVED"}}
      work(i) == CASE d.cmd[i].st = "MARKER_RECONCILE" -> progress_cross_commit(d, e, i)
                   [] /\ d.cmd[i].st = "PUB_RESERVED"
                      /\ d.cq[d.cmd[i].q].slots[d.cmd[i].slot].st = "RESERVED" ->
                        progress_body(d, e, i)
                   [] OTHER -> progress_marker(d, e, i)
  IN IF d.phase # "READY" \/ S = {} THEN Idle(d, e)
     ELSE UNION {{[r EXCEPT !.d.pub = After(i)] : r \in work(i)}
                   : i \in FirstFrom(S, d.pub, set.records)}

\* c42_progress_reconcile
progress_reconcile(d, e) ==
  LET S == {i \in Records : d.cmd[i].rec \in {"CLEANUP", "RETIRE"}}
      rec(i, st) == [d EXCEPT !.cmd[i].rec = st]
      bad == fault_controller(d, "CONSUME_CONTRACT")
      work(i) ==
        IF d.cmd[i].rec = "CLEANUP"
        THEN {Result(CASE r.a = "COMMITTED" -> rec(i, "RETIRE") [] r.a = "CLEANUP" -> d
                       [] OTHER -> bad, r.e) : r \in port_consume(e, i)}
        ELSE {Result(CASE r.a = "RETIRED" -> rec(i, "NONE") [] r.a = "IN_PROGRESS" -> d
                       [] OTHER -> bad, r.e) : r \in port_consume_retire(e, i)}
  IN IF d.phase \notin {"READY", "FAULTED"} \/ S = {} THEN Idle(d, e)
     ELSE UNION {{[r EXCEPT !.d.rcur = After(i)] : r \in work(i)}
                   : i \in FirstFrom(S, d.rcur, set.records)}

----------------------------------------------------------------------------
(* Controls: queue deletion, reset and teardown.                           *)

\* cq_delete_dependencies_clear
cq_delete_dependencies_clear(d, q) ==
  /\ d.cq[q].unacked = 0 /\ d.cq[q].reserved = 0 /\ d.cq[q].ack = NoAck
  /\ d.cq[q].scrubbed /\ d.sq[q].life = "ABSENT"
  /\ d.cand[<<"SQ", q>>].st \in {"NONE", "ABORTED", "POISONED", "SUPERSEDED"}

\* command_for_sq_exists, target_for_sq_exists
CommandFor(d, q) == \E i \in Records : d.cmd[i].st # "FREE" /\ d.cmd[i].q = q
                                       /\ d.cmd[i].gen = d.sq[q].gen
TargetFor(d, q) == \E t \in d.targets : t.q = q /\ t.gen = d.sq[q].gen

\* progress_delete
progress_delete(d, e, n) ==
  LET q == d.ctl[n].q
      done(x) == {Result([x EXCEPT !.ctl[n].st = "COMMITTED"], e)}
  IN IF d.ctl[n].kind = "CQ"
     THEN IF d.cq[q].life = "QUIESCING" /\ cq_delete_dependencies_clear(d, q)
          THEN done([d EXCEPT !.cq[q] = [AbsentCq EXCEPT !.last = d.cq[q].last]])
          ELSE Idle(d, e)
     ELSE IF /\ d.sq[q].life = "PREQUIESCE"
             /\ d.sq[q].head = d.sq[q].frozen /\ d.sq[q].pend = 0
     THEN {Result([d EXCEPT !.sq[q].life = "QUIESCING", !.ctl[n].st = "WAITING"], e)}
     ELSE IF d.sq[q].life = "QUIESCING" /\ ~CommandFor(d, q) /\ ~TargetFor(d, q)
     THEN done(IF CommittedFor(d, q, d.sq[q].gen)
               THEN [d EXCEPT !.sq[q].life = "TOMBSTONED"]
               ELSE clear_sq_to_absent(d, q))
     ELSE Idle(d, e)

\* clear_runtime_tables, with the cursors progress_epoch_control resets
clear_runtime_tables(d) ==
  [InitDev(set) EXCEPT !.epoch = d.epoch, !.uid = d.uid, !.rst = d.rst, !.tear = d.tear]

\* progress_epoch_control: a reset that is under way is first begun at both
\* providers, so that the teardown finds them in the epoch it expects.
progress_epoch_control(d, e, w) ==
  LET c == IF w = "RESET" THEN d.rst ELSE d.tear
      put(x, v) == IF w = "RESET" THEN [x EXCEPT !.rst = v] ELSE [x EXCEPT !.tear = v]
      mark(v) == put(d, v)
      first == w = "TEARDOWN" /\ d.rst.st \notin {"NONE", "COMMITTED"}
      answer(r, ok) == CASE r = "OK" -> ok
                         [] r = "IN_PROGRESS" -> mark([c EXCEPT !.st = "WAITING"])
                         [] OTHER -> mark([c EXCEPT !.st = "POISONED"])
      held(r, ok) == CASE r = "OK" -> ok
                       [] r = "IN_PROGRESS" -> d
                       [] OTHER -> mark([c EXCEPT !.st = "POISONED"])
      over == put([clear_runtime_tables(d) EXCEPT
                     !.phase = IF w = "RESET" THEN "COLD" ELSE "DEAD",
                     !.rst = IF w = "RESET" THEN @ ELSE NoControl],
                  [c EXCEPT !.st = "COMMITTED"])
  IN IF first /\ ~d.rst.port
     THEN {Result(held(r.a, [d EXCEPT !.rst.port = TRUE]), r.e)
             : r \in port_begin(e, "RESET", d.rst.old)}
     ELSE IF first /\ ~d.rst.mem
     THEN {Result(held(r.a, [d EXCEPT !.rst.mem = TRUE]), r.e)
             : r \in memory_begin(e, "RESET", d.rst.old)}
     ELSE IF ~c.port
     THEN {Result(answer(r.a, mark([c EXCEPT !.port = TRUE])), r.e)
             : r \in port_begin(e, w, c.old)}
     ELSE IF ~c.mem
     THEN {Result(answer(r.a, mark([c EXCEPT !.mem = TRUE])), r.e)
             : r \in memory_begin(e, w, c.old)}
     ELSE UNION {{Result(CASE r.a = "OK" /\ s.a = "OK" -> over
                           [] "INVALID" \in {r.a, s.a} -> mark([c EXCEPT !.st = "POISONED"])
                           [] OTHER -> mark([c EXCEPT !.st = "WAITING"]), s.e)
                    : s \in memory_quiescent(r.e, w, c.old)}
                 : r \in port_quiescent(e, w, c.old)}

\* progress_control_once
Open(c) == c.st \in {"STARTED", "WAITING"}

\* c42_progress_queue_controls
progress_queue_controls(d, e) ==
  IF d.tear.st \notin {"NONE", "COMMITTED"}
  THEN IF Open(d.tear) THEN progress_epoch_control(d, e, "TEARDOWN") ELSE Idle(d, e)
  ELSE IF d.rst.st \notin {"NONE", "COMMITTED"} /\ d.phase # "TEARING_DOWN"
  THEN IF Open(d.rst) THEN progress_epoch_control(d, e, "RESET") ELSE Idle(d, e)
  ELSE LET try(n) == IF Open(d.ctl[n]) THEN progress_delete(d, e, n) ELSE Idle(d, e)
       IN IF \E r \in try(0) : r.ok THEN try(0) ELSE try(1)

\* c42_step, one unit: the controls, or the first lane that progresses.
lane(k, d, e) ==
  CASE k = 0 -> progress_admission(d, e) [] k = 1 -> poll_ready(d, e)
    [] k = 2 -> progress_publication(d, e) [] k = 3 -> progress_reconcile(d, e)
else_lane(S, k) ==
  UNION {IF r.ok THEN {r}
         ELSE {IF x.ok THEN [x EXCEPT !.d.lane = (k + 1) % 4] ELSE x : x \in lane(k, r.d, r.e)}
           : r \in S}
step_unit(d, e) ==
  UNION {IF r.ok \/ d.phase \in {"RESETTING", "TEARING_DOWN"} THEN {r}
         ELSE else_lane(else_lane(else_lane(else_lane({r}, d.lane), (d.lane + 1) % 4),
                                  (d.lane + 2) % 4), (d.lane + 3) % 4)
           : r \in progress_queue_controls(d, e)}

Step == \E r \in step_unit(dev, env) : /\ dev' = r.d /\ env' = r.e
                                       /\ <<dev, env>>' # <<dev, env>>
                                       /\ UNCHANGED set

----------------------------------------------------------------------------
(* The calls of the owner: queue creation and deletion, reset, teardown,   *)
(* abort targets.                                                          *)

Live(d) == d.phase \in {"COLD", "READY"}
Quiet == set.tidy => \A k \in DOMAIN dev.cand : dev.cand[k].st = "NONE"
AllUp == set.tidy => /\ dev.phase = "READY" /\ Quiet
                     /\ \A q \in Q : dev.sq[q].life # "ABSENT" \/ env.cands = 0

\* candidate_access_result
Reachable(k) == /\ dev.cand[k].st \notin {"NONE", "SUPERSEDED"}
                /\ dev.cand[k].epoch = dev.epoch /\ Live(dev)

\* c42_candidate_prepare, with the Host mapping a ring of a new generation
CandidatePrepare(kind, q) ==
  /\ Live(dev) /\ env.cands > 0 /\ Quiet /\ dev.cand[<<kind, q>>].st = "NONE"
  /\ IF kind = "SQ" THEN dev.sq[q].life = "ABSENT" /\ dev.cq[q].life = "LIVE"
     ELSE dev.cq[q].life = "ABSENT"
  /\ env.ring > (IF kind = "SQ" THEN dev.sq[q].last ELSE dev.cq[q].last)
  /\ dev' = [dev EXCEPT
       !.cand[<<kind, q>>] = [NoCandidate EXCEPT
           !.st = IF kind = "SQ" THEN "READY" ELSE "PREPARED", !.gen = env.ring,
           !.cqgen = IF kind = "SQ" THEN dev.cq[q].gen ELSE 0, !.epoch = dev.epoch],
       !.sq = IF kind = "SQ" THEN [@ EXCEPT ![q].life = "PREPARED"] ELSE @,
       !.cq = IF kind = "CQ" THEN [@ EXCEPT ![q].life = "PREPARED"] ELSE @]
  /\ env' = [env EXCEPT !.ring = @ + 1, !.cands = @ - 1]
  /\ UNCHANGED set

\* progress_candidate_once
progress_candidate_once(d, e, k) ==
  LET c == d.cand[k]
      st(s) == [d EXCEPT !.cand[k].st = s, !.cand[k].scrub = TRUE]
      bad == fault_controller(st("POISONED"), "PROVIDER_POISON")
  IN IF c.st = "ABORTING"
     THEN {Result(CASE r.a = "RETIRED" -> [st("ABORTED") EXCEPT !.cand[k].retired = TRUE]
                    [] r.a = "IN_PROGRESS" -> d
                    [] OTHER -> bad, r.e) : r \in memory_scrub_end(e, k[2], c.gen)}
     ELSE {Result(CASE r.a = "FULL" -> st("READY")
                    [] r.a = "UNKNOWN" -> st("SCRUB_UNKNOWN")
                    [] OTHER -> bad, r.e) : r \in memory_scrub(e, k[2], c.gen, ~c.scrub)}

\* c42_candidate_progress, with a budget of one
CandidateProgress(k) ==
  /\ Reachable(k) /\ dev.cand[k].st \in {"PREPARED", "SCRUB_UNKNOWN", "ABORTING"}
  /\ \E r \in progress_candidate_once(dev, env, k) : dev' = r.d /\ env' = r.e
  /\ UNCHANGED set

\* c42_candidate_commit, commit_sq, commit_cq.  The Host may use the queue.
CandidateCommit(k) ==
  LET c == dev.cand[k]
      q == k[2]
  IN /\ Reachable(k) /\ c.st = "READY"
     /\ IF k[1] = "SQ"
        THEN /\ dev.sq[q].life = "PREPARED" /\ dev.cq[q].life = "LIVE"
             /\ dev.cq[q].gen = c.cqgen
             /\ dev' = [dev EXCEPT !.cand[k].st = "RETIRE_READY",
                          !.sq[q] = [AbsentSq EXCEPT !.life = "LIVE", !.gen = c.gen,
                                                     !.last = c.gen]]
             /\ env' = [env EXCEPT !.hsq[q] = [HostSq EXCEPT !.on = TRUE]]
        ELSE /\ dev.cq[q].life = "PREPARED"
             /\ dev' = [dev EXCEPT !.cand[k].st = "AWAIT_RETIRE",
                          !.cq[q] = [AbsentCq EXCEPT !.life = "LIVE", !.gen = c.gen,
                                                     !.last = c.gen]]
             /\ env' = [env EXCEPT !.hcq[q] = [HostCq EXCEPT !.on = TRUE]]
     /\ UNCHANGED set

\* c42_candidate_abort, abort_prepared_queue
CandidateAbort(k) ==
  LET q == k[2]
  IN /\ set.abort /\ Reachable(k)
     /\ dev.cand[k].st \in {"PREPARED", "SCRUB_UNKNOWN", "READY"}
     /\ dev' = [dev EXCEPT
          !.sq = IF k[1] = "SQ" THEN [@ EXCEPT ![q].life = "ABSENT"] ELSE @,
          !.cq = IF k[1] = "CQ" THEN [@ EXCEPT ![q].life = "ABSENT"] ELSE @,
          !.cand[k] = IF k[1] = "SQ" \/ ~@.scrub
                      THEN [@ EXCEPT !.st = "ABORTED", !.retired = TRUE]
                      ELSE [@ EXCEPT !.st = "ABORTING"]]
     /\ UNCHANGED <<set, env>>

\* c42_candidate_retire
CandidateRetire(k) ==
  LET c == dev.cand[k]
      q == k[2]
      gone == [dev EXCEPT !.cand[k] = NoCandidate]
      st(s) == [dev EXCEPT !.cand[k].st = s]
  IN /\ Reachable(k)
     /\ \/ /\ c.st = "ABORTED" /\ c.retired
           /\ dev' = gone /\ UNCHANGED env
        \/ /\ c.st = "RETIRE_READY" /\ k[1] = "SQ"
           /\ dev' = gone /\ UNCHANGED env
        \/ /\ c.st = "RETIRE_READY" /\ k[1] = "CQ" /\ c.retired
           /\ dev.cq[q].life = "LIVE" /\ dev.cq[q].gen = c.gen
           /\ dev' = [gone EXCEPT !.cq[q].scrubbed = TRUE] /\ UNCHANGED env
        \/ /\ c.st \in {"AWAIT_RETIRE", "RETIRE_UNKNOWN"}
           /\ \E r \in memory_scrub_end(env, q, c.gen) :
                /\ env' = r.e
                /\ dev' = CASE r.a = "RETIRED" -> [st("RETIRE_READY") EXCEPT !.cand[k].retired = TRUE]
                            [] r.a = "IN_PROGRESS" -> st("RETIRE_UNKNOWN")
                            [] OTHER -> fault_controller(st("POISONED"), "PROVIDER_POISON")
     /\ UNCHANGED set

\* c42_enable
Enable ==
  /\ dev.phase = "COLD" /\ dev.cq[0].life = "LIVE" /\ dev.sq[0].life = "LIVE"
  /\ dev' = [dev EXCEPT !.phase = "READY"] /\ UNCHANGED <<set, env>>

\* c42_delete_start.  The Host stops using the queue.
DeleteStart(kind, q) ==
  LET free == {n \in DOMAIN dev.ctl : dev.ctl[n].st = "NONE"}
  IN /\ dev.phase = "READY" /\ env.dels > 0 /\ free # {} /\ AllUp
     /\ IF kind = "SQ" THEN dev.sq[q].life = "LIVE"
        ELSE dev.cq[q].life = "LIVE" /\ cq_delete_dependencies_clear(dev, q)
     /\ dev' = [dev EXCEPT
          !.ctl[Min(free)] = [NoControl EXCEPT !.st = "STARTED", !.kind = kind, !.q = q],
          !.sq = IF kind = "SQ" THEN [@ EXCEPT ![q].life = "PREQUIESCE",
                                               ![q].frozen = dev.sq[q].tail] ELSE @,
          !.cq = IF kind = "CQ" THEN [@ EXCEPT ![q].life = "QUIESCING"] ELSE @]
     /\ env' = [env EXCEPT !.dels = @ - 1,
                  !.hsq = IF kind = "SQ" THEN [@ EXCEPT ![q].on = FALSE] ELSE @,
                  !.hcq = IF kind = "CQ" THEN [@ EXCEPT ![q].on = FALSE] ELSE @]
     /\ UNCHANGED set

\* c42_control_progress on a deletion
ControlProgress(n) ==
  /\ Open(dev.ctl[n]) /\ dev.phase \in {"READY", "FAULTED"}
  /\ \E r \in progress_delete(dev, env, n) : r.ok /\ dev' = r.d /\ env' = r.e
  /\ UNCHANGED set

\* c42_control_retire
ControlRetire ==
  /\ \/ \E n \in DOMAIN dev.ctl : /\ dev.ctl[n].st \in {"COMMITTED", "SUPERSEDED"}
                                  /\ dev' = [dev EXCEPT !.ctl[n] = NoControl]
     \/ dev.rst.st = "COMMITTED" /\ dev' = [dev EXCEPT !.rst = NoControl]
     \/ dev.tear.st = "COMMITTED" /\ dev' = [dev EXCEPT !.tear = NoControl]
  /\ UNCHANGED <<set, env>>

\* supersede_exported_records
supersede_exported_records(d) ==
  [d EXCEPT
    !.cand = [k \in DOMAIN @ |-> IF @[k].st = "NONE" THEN @[k]
                                 ELSE [@[k] EXCEPT !.st = "SUPERSEDED"]],
    !.ctl = [n \in DOMAIN @ |-> IF @[n].st \in {"NONE", "COMMITTED"} THEN @[n]
                                ELSE [@[n] EXCEPT !.st = "SUPERSEDED"]],
    !.cmd = [i \in DOMAIN @ |-> IF @[i].note \in {"RESERVED", "READY", "ACQUIRED"}
                                THEN [@[i] EXCEPT !.note = "SUPPRESSED"] ELSE @[i]],
    !.targets = {}]

\* The Host forgets the queues of an epoch that ends.
Forget(e) == [e EXCEPT !.hsq = [q \in Q |-> HostSq], !.hcq = [q \in Q |-> HostCq],
                       !.cands = set.cands]

\* c42_reset_start
ResetStart ==
  /\ dev.phase \in {"COLD", "READY", "FAULTED"} /\ dev.rst.st = "NONE" /\ env.resets > 0
  /\ dev' = [supersede_exported_records(dev) EXCEPT
       !.rst = [NoControl EXCEPT !.st = "STARTED", !.old = dev.epoch],
       !.epoch = @ + 1, !.phase = "RESETTING", !.paused = TRUE]
  /\ env' = [Forget(env) EXCEPT !.resets = @ - 1]
  /\ UNCHANGED set

\* c42_teardown_start
TeardownStart ==
  /\ set.tear /\ dev.phase \notin {"TEARING_DOWN", "DEAD"} /\ dev.tear.st = "NONE"
  /\ dev' = [supersede_exported_records(dev) EXCEPT
       !.tear = [NoControl EXCEPT !.st = "STARTED", !.old = dev.epoch],
       !.epoch = @ + 1, !.phase = "TEARING_DOWN", !.paused = TRUE,
       !.rst = IF @.st \in {"NONE", "COMMITTED"} THEN @ ELSE [@ EXCEPT !.st = "SUPERSEDED"]]
  /\ env' = Forget(env) /\ UNCHANGED set

\* c42_target_prepare: an abort holds on to a command that is not published.
TargetPrepare(i) ==
  /\ dev.phase = "READY" /\ Active(dev.cmd[i])
  /\ dev.cmd[i].st \notin {"MARKER_RECONCILE", "CONSUME_POISON_HOLD"}
  /\ Cardinality(dev.targets) < set.targets
  /\ dev' = [dev EXCEPT !.targets = @ \cup {[uid |-> dev.cmd[i].uid, q |-> dev.cmd[i].q,
                                             gen |-> dev.cmd[i].gen]}]
  /\ UNCHANGED <<set, env>>

\* c42_target_release
TargetRelease ==
  /\ \E t \in dev.targets : dev' = [dev EXCEPT !.targets = @ \ {t}]
  /\ UNCHANGED <<set, env>>

----------------------------------------------------------------------------
(* The Host: doorbells, completions and notifications.                     *)

\* c42_sq_tail_event_apply on a live queue
sq_tail_event_apply(d, q, tail) ==
  LET delta == (tail + set.depth - d.sq[q].tail) % set.depth
  IN IF tail >= set.depth \/ delta > set.depth - 1 - d.sq[q].pend
     THEN fault_sq(d, q, "INVALID_DOORBELL")
     ELSE [d EXCEPT !.sq[q].tail = tail, !.sq[q].pend = @ + delta]

\* The Host writes n entries and rings.  It uses the lowest command identifiers
\* that are not outstanding, and the SQ head the last completion reported.
Submit(q, n) ==
  LET h == env.hsq[q]
      room == (h.head + set.depth - 1 - h.tail) % set.depth
      cids == (1 .. set.depth + 1) \ h.out
      cid(k) == CHOOSE c \in cids : Cardinality({x \in cids : x < c}) = k
      at(k) == (h.tail + k) % set.depth
      tail == at(n)
  IN /\ dev.phase = "READY" /\ h.on /\ AllUp /\ dev.sq[q].life = "LIVE"
     /\ n <= room /\ n <= env.work
     /\ env' = [env EXCEPT !.work = @ - n, !.hsq[q].tail = tail,
                  !.hsq[q].out = @ \cup {cid(k) : k \in 0 .. n - 1},
                  !.sqe[q] = [i \in Slots |->
                     IF \E k \in 0 .. n - 1 : at(k) = i
                     THEN cid(CHOOSE k \in 0 .. n - 1 : at(k) = i) ELSE @[i]]]
     /\ dev' = sq_tail_event_apply(dev, q, tail)
     /\ UNCHANGED set

\* A doorbell beyond the queue, from a Host that breaks the contract
RingBeyond(q) ==
  /\ dev.phase = "READY" /\ env.bad > 0 /\ env.hsq[q].on /\ AllUp /\ dev.sq[q].life = "LIVE"
  /\ dev' = sq_tail_event_apply(dev, q, set.depth)
  /\ env' = [env EXCEPT !.bad = @ - 1] /\ UNCHANGED set

\* The Host finds an entry with the expected phase.
Reap(q) ==
  LET h == env.hcq[q]
      w == env.cqe[q][h.head]
  IN /\ h.on /\ w.phase = h.phase
     /\ env' = [env EXCEPT
          !.wrong = @ \/ w.torn \/ w.cid \notin env.hsq[q].out,
          !.hsq[q].out = @ \ {w.cid}, !.hsq[q].head = w.sqhd,
          !.hcq[q].head = Next1(@),
          !.hcq[q].phase = IF h.head + 1 = set.depth THEN 1 - @ ELSE @]
     /\ UNCHANGED <<set, dev>>

\* Mutant: an acknowledgement that overtakes the commit is not expected.
marker_pending_never(cq) == FALSE

\* c42_cq_head_event_apply.  While a marker is undecided the acknowledgement
\* is only noted; the longest wins.
marker_pending(cq) == \E n \in Slots : cq.slots[n].st = "MARKER_VISIBLE"
cq_head_event_apply(d, q, head) ==
  LET cq == d.cq[q]
      delta == (head + set.depth - cq.head) % set.depth
  IN IF delta = 0 THEN [d |-> d, ok |-> TRUE]
     ELSE IF marker_pending(cq)
     THEN IF delta > cq.unacked + 1 THEN [d |-> d, ok |-> FALSE]
          ELSE [ok |-> TRUE,
                d |-> IF delta <= cq.ack.delta THEN d
                      ELSE [d EXCEPT !.cq[q].ack = [head |-> head, delta |-> delta]]]
     ELSE IF ack_prefix_valid(cq, delta)
     THEN [d |-> apply_ack(d, q, head, delta), ok |-> TRUE]
     ELSE [d |-> d, ok |-> FALSE]

\* The Host acknowledges all it has seen.
Acknowledge(q) ==
  LET r == cq_head_event_apply(dev, q, env.hcq[q].head)
  IN /\ dev.phase = "READY" /\ dev.cq[q].life = "LIVE"
     /\ env.hcq[q].on /\ env.hcq[q].rung # env.hcq[q].head
     /\ dev' = r.d
     /\ env' = [env EXCEPT !.hcq[q].rung = env.hcq[q].head, !.wrong = @ \/ ~r.ok]
     /\ UNCHANGED set

\* c42_notification_acquire, c42_notification_consume, c42_notification_retire
Notification ==
  LET ready == {i \in Records : dev.cmd[i].note = "READY"}
      to(i, s) == dev' = [dev EXCEPT !.cmd[i].note = s]
  IN /\ \/ dev.phase = "READY" /\ ready # {} /\ to(Min(ready), "ACQUIRED")
        \/ \E i \in Records : /\ dev.cmd[i].note = "ACQUIRED"
                              /\ dev.cmd[i].epoch = dev.epoch /\ to(i, "CONSUMED")
        \/ \E i \in Records : /\ dev.cmd[i].note \in {"CONSUMED", "SUPPRESSED"}
                              /\ dev' = [dev EXCEPT !.cmd[i].note = "NONE", !.cmd[i].epoch = 0]
     /\ UNCHANGED <<set, env>>

----------------------------------------------------------------------------
Init == /\ set \in Settings /\ dev = InitDev(set) /\ env = InitEnv(set)

Candidate == \E k \in DOMAIN dev.cand :
               \/ CandidatePrepare(k[1], k[2]) \/ CandidateProgress(k)
               \/ CandidateCommit(k) \/ CandidateAbort(k) \/ CandidateRetire(k)
Control == \/ \E k \in DOMAIN dev.cand : DeleteStart(k[1], k[2])
           \/ \E n \in DOMAIN dev.ctl : ControlProgress(n)
           \/ ControlRetire \/ ResetStart \/ TeardownStart \/ Enable
           \/ \E i \in Records : TargetPrepare(i)
Host == \E q \in Q : Reap(q) \/ Acknowledge(q)

Next == \/ Step \/ Candidate \/ Control \/ TargetRelease \/ Notification \/ Host
        \/ \E q \in Q : (\E n \in 1 .. 2 : Submit(q, n)) \/ RingBeyond(q)

\* The firmware loop calls c42_step, the Host handles what it is sent, and the
\* layer above gives its targets back.
Fairness == /\ WF_vars(Step) /\ WF_vars(Host)
            /\ WF_vars(Notification) /\ WF_vars(TargetRelease)

Spec == Init /\ [][Next]_vars /\ Fairness

----------------------------------------------------------------------------
Used(cq) == {n \in Slots : cq.slots[n].st \notin {"FREE", "COMMITTED"}}
Committed(cq) == {n \in Slots : cq.slots[n].st = "COMMITTED"}
InSq(q) == {env.sqe[q][(dev.sq[q].head + k) % set.depth] : k \in 0 .. dev.sq[q].pend - 1}
Seen(i) == LET c == dev.cmd[i] IN c.st = "MARKER_RECONCILE"
                                  /\ env.hcq[c.q].head = Next1(c.slot)
Unseen(q) == {i \in Records : Active(dev.cmd[i]) /\ dev.cmd[i].q = q /\ ~Seen(i)}
Ahead(q, n) == (n + set.depth - dev.cq[q].head) % set.depth
ToReap(q) == {n \in Committed(dev.cq[q]) : Ahead(q, n) >= Ahead(q, env.hcq[q].head)}

\* A completion queue's counters, indexes and slots agree: committed entries run
\* from the Host's head to the device's tail, at most one entry is being
\* published and one command owns it, one slot always stays free, and a
\* submission queue that was deleted and created again finds no completion of
\* its former life (reserve_cq_slot, cross_commit, apply_ack, progress_delete).
QueuesAgree ==
  \A q \in Q :
    LET cq == dev.cq[q]
        sq == dev.sq[q]
    IN /\ cq.unacked = Cardinality(Committed(cq)) /\ cq.reserved = Cardinality(Used(cq))
       /\ cq.reserved <= 1 /\ cq.unacked + cq.reserved < set.depth
       /\ Committed(cq) = Acked(cq, cq.unacked)
       /\ cq.life = "LIVE" => cq.tail = (cq.head + cq.unacked) % set.depth
       /\ sq.pend = (sq.tail + set.depth - sq.head) % set.depth
       /\ \A n \in Used(cq) : Cardinality({i \in Records : Active(dev.cmd[i])
                                /\ dev.cmd[i].q = q /\ dev.cmd[i].uid = cq.slots[n].uid
                                /\ dev.cmd[i].slot = n}) = 1
       /\ sq.life = "TOMBSTONED" => CommittedFor(dev, q, sq.gen)
       /\ sq.life \in {"ABSENT", "PREPARED", "LIVE"} =>
            \A n \in Committed(cq) : sq.life = "LIVE" /\ cq.slots[n].gen = sq.gen

\* Nothing the Host submitted is lost or answered twice: while the controller
\* runs, what the Host waits for is exactly what is in the submission queue, in
\* an active record or visible and not yet seen; and no completion it saw was
\* torn, unasked for or not acknowledgeable (the copy in capture_one, the head
\* moved by progress_hif_commit, the body staged before the marker).
NothingLost ==
  /\ ~env.wrong
  /\ dev.phase = "READY" =>
       \A q \in Q : env.hcq[q].on =>
         env.hsq[q].out = InSq(q) \cup {dev.cmd[i].cid : i \in Unseen(q)}
                          \cup {dev.cq[q].slots[n].cid : n \in ToReap(q)}

\* With providers that keep their contract, however late, and a Host that does
\* too, the controller never faults and neither a reset nor a teardown ends
\* poisoned: a command identifier used again as soon as its completion is seen
\* is no duplicate, every ready event finds its command, and a teardown that
\* overtakes a reset finds the providers in the epoch it names.
HealthyNeverFaults ==
  env.bad = set.bad /\ dev.uid <= set.uids =>
    /\ dev.phase # "FAULTED" /\ dev.rst.st # "POISONED" /\ dev.tear.st # "POISONED"

Waiting == \/ dev.phase = "READY" /\ \E q \in Q : env.hsq[q].out # {} /\ dev.uid <= set.uids
           \/ dev.phase = "READY" /\ \E n \in DOMAIN dev.ctl : Open(dev.ctl[n])
           \/ Open(dev.rst) /\ dev.phase = "RESETTING"
           \/ Open(dev.tear)

\* Every command the Host submitted is completed, every deletion, reset and
\* teardown ends, unless the controller faults or is reset first.
Progress == Waiting ~> ~Waiting
=============================================================================
