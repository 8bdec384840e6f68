--------------------------- MODULE SpineLifecycle ---------------------------
(***************************************************************************)
(* The profile-neutral command lifecycle of core/command-spine:            *)
(* admission, one action at a time driven through its driver, the abort    *)
(* relation, finalisation, publication leases, epoch close and fini.       *)
(*                                                                         *)
(* A program is a model value; Count, Deps, Kind, Role, Handle and Origin  *)
(* say what the immutable host_action_program holds.  Tickets, action      *)
(* tokens and abort uids are all named by the ticket uid: the code draws   *)
(* them from counters that advance together in admit_start.                *)
(***************************************************************************)
EXTENDS Naturals, FiniteSets

CONSTANTS
  N,            \* config.command_capacity
  Lanes,        \* FWLAB_HOST_ACTION_V0_KIND_COUNT
  MaxActions,   \* FWLAB_HOST_ACTION_V0_MAX_ACTIONS
  Programs,     \* host_action_program_v0 values a HIF may plan
  Role,         \* program -> "NORMAL" | "ABORT"
  Count,        \* program -> number of actions
  Deps,         \* program -> ordinal -> set of earlier ordinals
  Kind,         \* program -> ordinal -> driver lane
  Handle,       \* program -> command handle
  Origin,       \* program -> origin token
  MaxUid,       \* bounds every config.command_uid.maximum
  MaxLease,     \* config.completion_lease_uid.maximum
  Environments  \* what a behaviour may meet, see env

Slots == 0 .. N - 1
LaneSet == 0 .. Lanes - 1
Ordinals == 1 .. MaxActions
NoProgram == "NoProgram"
NoSlot == N + Lanes

ActionPhases == {"WAIT_DEP", "SUBMIT_READY", "SUBMIT_UNKNOWN", "ACCEPTED",
                 "TERMINAL", "RETIRE_ISSUED", "DRAINING", "DRAINED"}
Terminals == {"SUCCEEDED", "FAILED", "CANCELLED"}
CommandPhases == {"FREE", "ACTIVE", "INTENT", "QUARANTINED"}
Reports == {"NOT_FOUND", "FOUND", "STALE", "SUPERSEDED"}

ASSUME SpineConstants ==
  /\ N \in Nat \ {0}
  /\ Lanes \in Nat
  /\ MaxActions \in Nat
  /\ MaxUid \in Nat
  /\ MaxLease \in Nat
  /\ NoProgram \notin Programs
  /\ Role \in [Programs -> {"NORMAL", "ABORT"}]
  /\ Count \in [Programs -> 0 .. MaxActions]
  /\ Deps \in [Programs -> [Ordinals -> SUBSET Ordinals]]
  /\ Kind \in [Programs -> [Ordinals -> LaneSet]]
  /\ \A p \in Programs : \A i \in Ordinals : \A j \in Deps[p][i] : j < i
  /\ \A p \in Programs : Role[p] = "ABORT" => Count[p] = 1
  /\ Environments \subseteq [programs : SUBSET Programs, uids : 0 .. MaxUid,
                             slow : BOOLEAN, lost : BOOLEAN, faults : BOOLEAN]

VARIABLES
  env,              \* the environment of this behaviour, never changed:
                    \*   programs, the ones the HIF plans
                    \*   uids, config.command_uid.maximum
                    \*   slow, drivers may answer IN_PROGRESS, BACKPRESSURE or ACCEPTED
                    \*   lost, a submit answer may be lost (IN_PROGRESS, action owned)
                    \*   faults, drivers, sinks and profiles may answer with an error
  cmd,              \* command[]: slot -> command record
  lane,             \* driver_close[]: lane -> [acked, quiescent]
  receipt,          \* publication_receipt[] ring
  publication_cursor,
  next_uid,         \* next_command_uid / action / abort counters
  next_lease,       \* next_completion_lease_uid
  cursor,           \* service_cursor
  active_commands, retained_intents, completion_leases,
  admission_closed, close_started, poisoned,
  alive,            \* the arena still carries the lifecycle magic
  owned,            \* history: tokens a driver may hold, <<uid, ordinal, lane>>
  published         \* history: <<uid, decision>> of finished publications

counters == <<active_commands, retained_intents, completion_leases>>
gates == <<admission_closed, close_started, poisoned>>
ids == <<next_uid, next_lease>>
ring == <<receipt, publication_cursor>>
vars == <<env, cmd, lane, ring, ids, cursor, counters, gates, alive, owned, published>>

-----------------------------------------------------------------------------
(* Records *)

NewAction == [phase |-> "WAIT_DEP", term |-> "NONE", accepted |-> FALSE,
              cancel |-> FALSE, acked |-> FALSE]
NewAbort == [end |-> "OPEN", report |-> "NONE", target |-> 0,
             decision |-> "NONE", mask |-> {}, bound |-> NoSlot]
NewCommand(p, u) ==
  [prog |-> p, uid |-> u, phase |-> "ACTIVE", cancel |-> FALSE,
   first_failure |-> FALSE, suppress |-> FALSE, incoming |-> 0,
   resolved |-> FALSE, lease |-> 0, decision |-> "NONE", retired |-> FALSE,
   act |-> [i \in Ordinals |-> NewAction], abort |-> NewAbort]
FreeCommand == [NewCommand(NoProgram, 0) EXCEPT !.phase = "FREE"]
NoReceipt == [uid |-> 0, lease |-> 0, decision |-> "NONE"]

ActionRecord == [phase : ActionPhases, term : Terminals \cup {"NONE"},
                 accepted : BOOLEAN, cancel : BOOLEAN, acked : BOOLEAN]
AbortRecord ==
  [end : {"OPEN", "ABANDONED", "SUPERSEDED", "SINK_FAILED", "SINK_ACKED"},
   report : Reports \cup {"NONE"}, target : Nat,
   decision : {"NONE", "ABORT_WON", "NOT_ABORTED"},
   mask : SUBSET Ordinals, bound : Slots \cup {NoSlot}]
CommandRecord ==
  [prog : Programs \cup {NoProgram}, uid : Nat, phase : CommandPhases,
   cancel : BOOLEAN, first_failure : BOOLEAN, suppress : BOOLEAN,
   incoming : Nat, resolved : BOOLEAN, lease : Nat,
   decision : {"NONE", "COMMITTED", "DISCARDED"}, retired : BOOLEAN,
   act : [Ordinals -> ActionRecord], abort : AbortRecord]

occupied(c) == c.phase # "FREE"
OrdinalsOf(c) == IF occupied(c) THEN 1 .. Count[c.prog] ELSE {}
all_actions_drained(c) == \A i \in OrdinalsOf(c) : c.act[i].phase = "DRAINED"
Token(c, i) == <<c.uid, i, Kind[c.prog][i]>>
find_ticket(u) == {s \in Slots : occupied(cmd[s]) /\ cmd[s].uid = u}

Init ==
  /\ env \in Environments
  /\ cmd = [s \in Slots |-> FreeCommand]
  /\ lane = [l \in LaneSet |-> [acked |-> FALSE, quiescent |-> FALSE]]
  /\ receipt = [s \in Slots |-> NoReceipt]
  /\ publication_cursor = 0
  /\ next_uid = 1 /\ next_lease = 1 /\ cursor = 0
  /\ active_commands = 0 /\ retained_intents = 0 /\ completion_leases = 0
  /\ admission_closed = FALSE /\ close_started = FALSE /\ poisoned = FALSE
  /\ alive = TRUE
  /\ owned = {} /\ published = {}

-----------------------------------------------------------------------------
(* What the handlers share *)

\* Mutant: poison only suppresses.
poison_lifecycle_SuppressOnly(cs) ==
  [s \in Slots |-> IF cs[s].phase = "ACTIVE" THEN [cs[s] EXCEPT !.suppress = TRUE]
                                            ELSE cs[s]]
poison_lifecycle(cs) ==
  [s \in Slots |->
     IF cs[s].phase = "ACTIVE"
     THEN [cs[s] EXCEPT !.cancel = TRUE, !.suppress = TRUE]
     ELSE cs[s]]

\* The handler ends with poison_lifecycle, cs being what it wrote before.
Poison(cs) ==
  /\ cmd' = poison_lifecycle(cs)
  /\ poisoned' = TRUE /\ admission_closed' = TRUE
  /\ UNCHANGED close_started

Install(s, c) ==
  /\ cmd' = [cmd EXCEPT ![s] = c]
  /\ UNCHANGED gates

cancel_all(c) ==
  [c EXCEPT !.cancel = TRUE,
            !.act = [i \in Ordinals |-> IF i \in OrdinalsOf(c)
                                        THEN [c.act[i] EXCEPT !.cancel = TRUE]
                                        ELSE c.act[i]]]

note_failure(c, i) ==
  IF c.act[i].term \in {"NONE", "SUCCEEDED"} \/ c.first_failure
  THEN c
  ELSE [c EXCEPT !.first_failure = TRUE, !.cancel = TRUE,
                 !.act = [j \in Ordinals |->
                            IF j \in OrdinalsOf(c) \ {i}
                            THEN [c.act[j] EXCEPT !.cancel = TRUE]
                            ELSE c.act[j]]]

status_synthetic(c, i, kind) ==
  note_failure([c EXCEPT !.act[i].term = kind, !.act[i].phase = "DRAINED"], i)

\* accept_terminal on the first terminal answer; the facts of a later one are
\* compared by the callers.
accept_terminal(c, i, kind) ==
  LET c1 == [c EXCEPT !.act[i].term = kind,
                      !.resolved = @ \/ (/\ kind = "SUCCEEDED"
                                         /\ ~close_started
                                         /\ Role[c.prog] = "ABORT")]
  IN note_failure(c1, i)

dependency_ready(c, i) ==
  \A j \in Deps[c.prog][i] : c.act[j].phase = "DRAINED"
dependency_failed(c, i) ==
  \E j \in Deps[c.prog][i] : c.act[j].term # "SUCCEEDED"

\* Mutant: a close acknowledgement taken for quiescence.
effectful_quiescent_Acked ==
  close_started /\ completion_leases = 0 /\ \A l \in LaneSet : lane[l].acked

effectful_quiescent ==
  /\ close_started /\ active_commands = 0 /\ completion_leases = 0
  /\ \A l \in LaneSet : lane[l].acked /\ lane[l].quiescent

-----------------------------------------------------------------------------
(* step_one: the service scan *)

Span == N + (IF close_started THEN Lanes ELSE 0)

\* process_command propagates a command's cancel request to its actions first.
propagate_cancel(c) == IF c.cancel THEN cancel_all(c) ELSE c

\* An ABORT command whose bound target has not drained: process_command
\* answers IN_PROGRESS without a driver call and without a transition.
Waiting(c) ==
  /\ c.phase = "ACTIVE" /\ Role[c.prog] = "ABORT"
  /\ all_actions_drained(c) /\ propagate_cancel(c) = c
  /\ c.abort.end = "OPEN" /\ c.abort.decision = "NONE"
  /\ c.abort.bound \in Slots
  /\ ~all_actions_drained(cmd[c.abort.bound])

Serves(j) ==
  IF j < N THEN cmd[j].phase = "ACTIVE" /\ ~Waiting(cmd[j])
           ELSE ~(lane[j - N].acked /\ lane[j - N].quiescent)

\* Mutant: the service cursor does not wrap.
after_NoWrap(j) == j + 1

after(j) == (j + 1) % Span

\* service_cursor once the loop has visited slot last
cursor_after(last) == IF last = NoSlot THEN cursor ELSE after(last)

\* The loop over offset: a waiting command moves service_cursor and the loop
\* goes on with the next offset, counted from the moved cursor.
scan ==
  LET f[o \in 0 .. Span] ==
        IF o = 0 THEN [slot |-> NoSlot, last |-> NoSlot]
        ELSE LET st == f[o - 1]
                 j == (cursor_after(st.last) + o - 1) % Span
             IN IF st.slot # NoSlot THEN st
                ELSE IF Serves(j) THEN [slot |-> j, last |-> j]
                ELSE IF j < N /\ cmd[j].phase = "ACTIVE" THEN [slot |-> NoSlot, last |-> j]
                ELSE st
  IN f[Span]

-----------------------------------------------------------------------------
(* process_command: the first action that is not drained *)

AtAction(s, i, ph) ==
  /\ cmd[s].phase = "ACTIVE"
  /\ i \in OrdinalsOf(cmd[s])
  /\ cmd[s].act[i].phase \in ph
  /\ \A j \in OrdinalsOf(cmd[s]) : j < i => cmd[s].act[j].phase = "DRAINED"

StepRest == UNCHANGED <<lane, ring, ids, counters, alive, published>>

\* c after an answer that cannot be used: the driver's error poisons.
DriverError(s, c) == env.faults /\ Poison([cmd EXCEPT ![s] = c])

WaitDep(s, i) ==
  /\ AtAction(s, i, {"WAIT_DEP"})
  /\ LET c == propagate_cancel(cmd[s])
     IN /\ c.cancel \/ c.act[i].cancel \/ dependency_ready(c, i)
        /\ Install(s, IF c.cancel \/ c.act[i].cancel \/ dependency_failed(c, i)
                      THEN status_synthetic(c, i, "CANCELLED")
                      ELSE [c EXCEPT !.act[i].phase = "SUBMIT_READY"])
  /\ UNCHANGED owned /\ StepRest

SubmitCancelled(s, i) ==
  /\ AtAction(s, i, {"SUBMIT_READY"})
  /\ LET c == propagate_cancel(cmd[s])
     IN /\ c.cancel \/ c.act[i].cancel
        /\ Install(s, status_synthetic(c, i, "CANCELLED"))
  /\ UNCHANGED owned /\ StepRest

\* driver->ops->submit
Submit(s, i) ==
  /\ AtAction(s, i, {"SUBMIT_READY"})
  /\ LET c == cmd[s]
         unknown == [c EXCEPT !.act[i].phase = "SUBMIT_UNKNOWN"]
     IN /\ ~c.cancel /\ ~c.act[i].cancel
        /\ \/ /\ env.lost                             \* IN_PROGRESS
              /\ Install(s, unknown)
              /\ owned' = owned \cup {Token(c, i)}
           \/ /\ DriverError(s, unknown)
              /\ owned' = owned \cup {Token(c, i)}
           \/ /\ env.slow                                 \* BACKPRESSURE
              /\ Install(s, c)
              /\ UNCHANGED owned
           \/ /\ Install(s, status_synthetic(c, i, "FAILED"))   \* REJECTED
              /\ UNCHANGED owned
           \/ /\ Install(s, [c EXCEPT !.act[i].phase = "ACCEPTED",
                                      !.act[i].accepted = TRUE])
              /\ owned' = owned \cup {Token(c, i)}
  /\ StepRest

\* Mutant: the acknowledgement of a cancel is not recorded.
CancelAction_Again(s, i) ==
  /\ AtAction(s, i, {"ACCEPTED"})
  /\ LET c == propagate_cancel(cmd[s])
     IN /\ c.cancel \/ c.act[i].cancel
        /\ Install(s, [c EXCEPT !.act[i].cancel = TRUE])
  /\ UNCHANGED owned /\ StepRest

CancelAction(s, i) ==
  /\ AtAction(s, i, {"ACCEPTED"})
  /\ LET c == propagate_cancel(cmd[s])
         c1 == [c EXCEPT !.act[i].cancel = TRUE]
     IN /\ c.cancel \/ c.act[i].cancel
        /\ ~c.act[i].acked
        /\ \/ Install(s, [c1 EXCEPT !.act[i].acked = TRUE])
           \/ env.slow /\ Install(s, c1)
           \/ DriverError(s, c1)
  /\ UNCHANGED owned /\ StepRest

may_query(c, i) ==
  \/ c.act[i].phase = "SUBMIT_UNKNOWN"
  \/ c.act[i].acked
  \/ ~c.cancel /\ ~c.act[i].cancel

\* driver->ops->query, from SUBMIT_UNKNOWN or from ACCEPTED
action_query(s, i) ==
  /\ AtAction(s, i, {"SUBMIT_UNKNOWN", "ACCEPTED"})
  /\ LET c == propagate_cancel(cmd[s])
     IN /\ may_query(c, i)
        /\ \/ env.slow /\ Install(s, c)                   \* IN_PROGRESS
           \/ /\ env.slow \/ c.act[i].phase = "SUBMIT_UNKNOWN"
              /\ Install(s, [c EXCEPT !.act[i].phase = "ACCEPTED",
                                      !.act[i].accepted = TRUE])
           \/ \E kind \in Terminals :
                Install(s, [accept_terminal(c, i, kind) EXCEPT
                              !.act[i].phase = "TERMINAL",
                              !.act[i].accepted = TRUE])
           \/ DriverError(s, c)
  /\ UNCHANGED owned /\ StepRest

RetireStart(s, i) ==
  /\ AtAction(s, i, {"TERMINAL", "RETIRE_ISSUED"})
  /\ LET c == propagate_cancel(cmd[s])
     IN \/ env.slow /\ Install(s, [c EXCEPT !.act[i].phase = "RETIRE_ISSUED"])
        \/ Install(s, [c EXCEPT !.act[i].phase = "DRAINING"])
        \/ DriverError(s, c)
  /\ UNCHANGED owned /\ StepRest

\* driver->ops->retire_query: DRAINING keeps the phase; DRAINED and RETIRED
\* end the driver's ownership; other facts than the accepted ones poison.
RetireQuery(s, i) ==
  /\ AtAction(s, i, {"DRAINING"})
  /\ LET c == propagate_cancel(cmd[s])
     IN \/ env.slow /\ Install(s, c) /\ UNCHANGED owned
        \/ /\ Install(s, [c EXCEPT !.act[i].phase = "DRAINED"])
           /\ owned' = owned \ {Token(c, i)}
        \/ DriverError(s, c) /\ UNCHANGED owned
  /\ StepRest

-----------------------------------------------------------------------------
(* process_abort *)

AtAbort(s) ==
  /\ cmd[s].phase = "ACTIVE" /\ Role[cmd[s].prog] = "ABORT"
  /\ all_actions_drained(cmd[s])
  /\ cmd[s].abort.end = "OPEN"
  /\ cmd[s].act[1].term = "SUCCEEDED" /\ cmd[s].resolved

\* relation_sink or relation_source failed
SinkFailed(s, cs) ==
  /\ env.faults
  /\ Poison([cs EXCEPT ![s].abort.end = "SINK_FAILED", ![s].suppress = TRUE])

\* relation_source: the resolver's mailbox
ReadCandidate(s) ==
  /\ AtAbort(s)
  /\ cmd[s].abort.report = "NONE"
  /\ LET c == propagate_cancel(cmd[s])
     IN \/ SinkFailed(s, [cmd EXCEPT ![s] = c])
        \/ /\ close_started                               \* absent
           /\ Install(s, [c EXCEPT !.abort.end = "SUPERSEDED", !.suppress = TRUE])
        \/ ~close_started /\ env.slow /\ Install(s, c)    \* absent
        \/ \E r \in Reports \ {"FOUND"} : Install(s, [c EXCEPT !.abort.report = r])
        \/ \E u \in 1 .. next_uid - 1 :
             Install(s, [c EXCEPT !.abort.report = "FOUND", !.abort.target = u])
  /\ UNCHANGED owned /\ StepRest

Abortable(s, t) ==
  /\ t # s /\ cmd[t].incoming = 0 /\ cmd[t].phase = "ACTIVE"
  /\ ~cmd[t].first_failure /\ Count[cmd[t].prog] # 0

\* Mutant: the target does not learn of the abort that bound it.
bound_by_Unmarked(t, u) == cancel_all(t)

bound_by(t, u) == [cancel_all(t) EXCEPT !.incoming = u]

\* The commands after the target lookup: bound, or decided NOT_ABORTED.
bind_target(cs, s) ==
  LET ab == cs[s].abort
      found == {t \in find_ticket(ab.target) : Abortable(s, t)}
  IN IF ab.decision # "NONE" \/ ab.bound # NoSlot THEN cs
     ELSE IF ab.report # "FOUND" \/ found = {}
          THEN [cs EXCEPT ![s].abort.decision = "NOT_ABORTED"]
     ELSE LET t == CHOOSE x \in found : TRUE
          IN [cs EXCEPT ![t] = bound_by(cs[t], cs[s].uid),
                        ![s].abort.bound = t,
                        ![s].abort.mask = {i \in OrdinalsOf(cs[t]) : cs[t].act[i].accepted}]

\* Mutant: drained is enough to have won.
target_abort_won_Drained(ab, t) == all_actions_drained(t)

target_abort_won(ab, t) ==
  /\ all_actions_drained(t)
  /\ \A i \in ab.mask : t.act[i].term = "CANCELLED"

decide_target(cs, s) ==
  LET ab == cs[s].abort
  IN IF /\ ab.bound # NoSlot /\ ab.decision = "NONE"
        /\ all_actions_drained(cs[ab.bound])
     THEN [cs EXCEPT ![s].abort.decision =
             IF target_abort_won(ab, cs[ab.bound]) THEN "ABORT_WON"
                                                   ELSE "NOT_ABORTED"]
     ELSE cs

AbortDecide(s) ==
  /\ AtAbort(s)
  /\ cmd[s].abort.report # "NONE"
  /\ LET cs == decide_target(bind_target(
                 [cmd EXCEPT ![s] = propagate_cancel(cmd[s])], s), s)
     IN \/ /\ cs[s].abort.decision = "NONE"               \* target still drains
           /\ cmd' = cs
           /\ UNCHANGED gates
        \/ /\ cs[s].abort.decision # "NONE"               \* relation_sink
           /\ \/ /\ cmd' = [cs EXCEPT ![s].abort.end = "SINK_ACKED"]
                 /\ UNCHANGED gates
              \/ SinkFailed(s, cs)
  /\ UNCHANGED owned /\ StepRest

-----------------------------------------------------------------------------
(* finalize_command, after the branches of process_abort that make no call *)

abort_settled(c) ==
  IF Role[c.prog] = "NORMAL" \/ c.abort.end # "OPEN" THEN c
  ELSE IF c.act[1].term # "SUCCEEDED"
       THEN [c EXCEPT !.abort.end = "ABANDONED", !.abort.report = "NONE"]
  ELSE IF ~c.resolved
       THEN [c EXCEPT !.abort.end = "SUPERSEDED", !.suppress = TRUE]
  ELSE c

active_after(c) ==
  IF active_commands # 0 THEN active_commands - 1 ELSE active_commands

finalize_command(s) ==
  /\ cmd[s].phase = "ACTIVE"
  /\ all_actions_drained(cmd[s])
  /\ LET c == abort_settled(propagate_cancel(cmd[s]))
     IN /\ Role[c.prog] = "NORMAL" \/ c.abort.end # "OPEN"
        /\ active_commands' = active_after(c)
        /\ \/ /\ c.suppress
              /\ Install(s, [c EXCEPT !.phase = "QUARANTINED"])
              /\ UNCHANGED retained_intents
           \/ /\ ~c.suppress /\ env.faults              \* profile complete failed
              /\ Poison([cmd EXCEPT ![s] = [c EXCEPT !.phase = "QUARANTINED"]])
              /\ UNCHANGED retained_intents
           \/ /\ ~c.suppress
              /\ Install(s, [c EXCEPT !.phase = "INTENT"])
              /\ retained_intents' = retained_intents + 1
  /\ UNCHANGED <<lane, ring, ids, completion_leases, alive, owned, published>>

process_driver_close(l) ==
  /\ close_started
  /\ \/ /\ ~lane[l].acked
        /\ \/ lane' = [lane EXCEPT ![l].acked = TRUE] /\ UNCHANGED <<cmd, gates>>
           \/ env.slow /\ UNCHANGED <<cmd, lane, gates>>
           \/ env.faults /\ Poison(cmd) /\ UNCHANGED lane
     \/ /\ lane[l].acked
        /\ \/ /\ lane' = [lane EXCEPT ![l].quiescent = \A t \in owned : t[3] # l]
              /\ UNCHANGED <<cmd, gates>>
           \/ env.slow /\ UNCHANGED <<cmd, lane, gates>>
           \/ env.faults /\ Poison(cmd) /\ UNCHANGED lane
  /\ UNCHANGED <<ring, ids, counters, alive, owned, published>>

-----------------------------------------------------------------------------
(* The entry points of the HIF *)

Collides(p, c) == occupied(c) /\ (Handle[c.prog] = Handle[p] \/ Origin[c.prog] = Origin[p])

\* admit_start and admit_query poison on a partial identity match; an exact
\* repeat answers the retained ticket and changes nothing.
AdmitConflict(p) ==
  /\ alive
  /\ \E s \in Slots :
        /\ Collides(p, cmd[s]) /\ cmd[s].prog # p
        /\ \A t \in Slots : t < s => ~Collides(p, cmd[t])
  /\ Poison(cmd)
  /\ UNCHANGED <<lane, ring, ids, cursor, counters, alive, owned, published>>

admit_start(p) ==
  /\ alive /\ ~admission_closed
  /\ \A s \in Slots : ~Collides(p, cmd[s])
  /\ next_uid <= env.uids
  /\ \E s \in Slots :
        /\ ~occupied(cmd[s])
        /\ \A t \in Slots : t < s => occupied(cmd[t])
        /\ Install(s, NewCommand(p, next_uid))
  /\ next_uid' = next_uid + 1
  /\ active_commands' = active_commands + 1
  /\ UNCHANGED <<lane, ring, next_lease, cursor, retained_intents,
                 completion_leases, alive, owned, published>>

epoch_close_start ==
  /\ alive /\ ~close_started
  /\ admission_closed' = TRUE /\ close_started' = TRUE
  /\ cmd' = [s \in Slots |-> IF cmd[s].phase = "ACTIVE" THEN cancel_all(cmd[s])
                                                        ELSE cmd[s]]
  /\ UNCHANGED <<lane, ring, ids, cursor, counters, poisoned, alive, owned, published>>

publication_acquire(s) ==
  /\ alive /\ ~admission_closed
  /\ cmd[s].phase = "INTENT" /\ Role[cmd[s].prog] = "NORMAL"
  /\ cmd[s].incoming = 0 /\ cmd[s].decision = "NONE" /\ cmd[s].lease = 0
  /\ next_lease <= MaxLease
  /\ cmd' = [cmd EXCEPT ![s].lease = next_lease]
  /\ next_lease' = next_lease + 1
  /\ completion_leases' = completion_leases + 1
  /\ UNCHANGED <<lane, ring, next_uid, cursor, active_commands, retained_intents,
                 gates, alive, owned, published>>

\* Mutant: a later finish overrides the recorded decision.
conflicting_None(c, d) == FALSE

conflicting(c, d) == c.decision \notin {"NONE", d}

\* finish with the lease the command holds
publication_finish(s, d) ==
  /\ alive
  /\ cmd[s].lease # 0 /\ cmd[s].phase = "INTENT" /\ cmd[s].incoming = 0
  /\ d = "DISCARDED" => close_started
  /\ \/ /\ conflicting(cmd[s], d)
        /\ Poison(cmd)
        /\ UNCHANGED <<ring, retained_intents, completion_leases, published>>
     \/ /\ ~conflicting(cmd[s], d)
        /\ \/ /\ env.slow                                 \* profile retire pending
              /\ Install(s, [cmd[s] EXCEPT !.decision = d])
              /\ UNCHANGED <<ring, retained_intents, completion_leases, published>>
           \/ /\ env.faults
              /\ Poison([cmd EXCEPT ![s].decision = d])
              /\ UNCHANGED <<ring, retained_intents, completion_leases, published>>
           \/ /\ completion_leases # 0 /\ retained_intents # 0
              /\ receipt' = [receipt EXCEPT ![publication_cursor] =
                    [uid |-> cmd[s].uid, lease |-> cmd[s].lease, decision |-> d]]
              /\ publication_cursor' = (publication_cursor + 1) % N
              /\ completion_leases' = completion_leases - 1
              /\ retained_intents' = retained_intents - 1
              /\ published' = published \cup {<<cmd[s].uid, d>>}
              /\ Install(s, FreeCommand)
  /\ UNCHANGED <<lane, ids, cursor, active_commands, alive, owned>>

\* finish repeated for a command already freed: the receipt answers, a
\* different decision poisons.
FinishConflict ==
  /\ alive
  /\ \E r \in Slots : receipt[r].decision # "NONE" /\ find_ticket(receipt[r].uid) = {}
  /\ env.faults
  /\ Poison(cmd)
  /\ UNCHANGED <<lane, ring, ids, cursor, counters, alive, owned, published>>

fini ==
  /\ alive /\ effectful_quiescent
  /\ LET left == {s \in Slots : occupied(cmd[s]) /\ ~cmd[s].retired}
     IN \/ \E s \in left :
              /\ \A t \in left : s <= t
              /\ \/ Install(s, [cmd[s] EXCEPT !.retired = TRUE])
                 \/ env.faults /\ Poison(cmd)
              /\ UNCHANGED alive
        \/ /\ left = {}
           /\ alive' = FALSE
           /\ UNCHANGED <<cmd, gates>>
  /\ UNCHANGED <<lane, ring, ids, cursor, counters, owned, published>>

\* After fini the arena is returned; every call answers INVALID.
Finished == ~alive /\ UNCHANGED vars

-----------------------------------------------------------------------------
StepCommand(s) ==
  \/ \E i \in Ordinals :
       \/ WaitDep(s, i) \/ SubmitCancelled(s, i) \/ Submit(s, i) \/ CancelAction(s, i)
       \/ action_query(s, i) \/ RetireStart(s, i) \/ RetireQuery(s, i)
  \/ ReadCandidate(s) \/ AbortDecide(s) \/ finalize_command(s)

\* Nothing to do; the scan may still have moved the cursor.
StepIdle == UNCHANGED <<cmd, lane, ring, ids, counters, gates, alive, owned, published>>

step_one ==
  /\ alive
  /\ LET sc == scan
     IN /\ \/ sc.last = NoSlot /\ UNCHANGED cursor
           \/ \E j \in 0 .. Span - 1 : sc.last = j /\ cursor' = after(j)
        /\ \/ sc.slot = NoSlot /\ StepIdle
           \/ \E s \in Slots : sc.slot = s /\ StepCommand(s)
           \/ \E l \in LaneSet : sc.slot = N + l /\ process_driver_close(l)

Next ==
  /\ UNCHANGED env
  /\ \/ step_one
     \/ \E p \in env.programs : admit_start(p) \/ AdmitConflict(p)
     \/ epoch_close_start
     \/ \E s \in Slots : publication_acquire(s)
     \/ \E s \in Slots, d \in {"COMMITTED", "DISCARDED"} : publication_finish(s, d)
     \/ FinishConflict
     \/ fini
     \/ Finished

Spec == Init /\ [][Next]_vars

\* Drivers that answer every call.
Answering == ~env.slow /\ ~env.faults

\* The caller keeps stepping (j0_construction calls step once per turn) and
\* finishes the leases it holds; needed, and stated, only where drivers answer.
Fairness ==
  /\ WF_vars(Answering /\ step_one /\ UNCHANGED env)
  /\ \A s \in Slots :
        WF_vars(Answering /\ publication_finish(s, "COMMITTED") /\ UNCHANGED env)

FairSpec == Spec /\ Fairness

-----------------------------------------------------------------------------
(* Properties *)

ArenaOK ==
  /\ cmd \in [Slots -> CommandRecord]
  /\ lane \in [LaneSet -> [acked : BOOLEAN, quiescent : BOOLEAN]]
  /\ receipt \in [Slots -> [uid : Nat, lease : Nat,
                            decision : {"NONE", "COMMITTED", "DISCARDED"}]]
  /\ publication_cursor \in Slots
  /\ next_uid \in 1 .. MaxUid + 1 /\ next_lease \in 1 .. MaxLease + 1
  /\ cursor \in 0 .. N + Lanes - 1
  /\ {active_commands, retained_intents, completion_leases} \subseteq Nat
  /\ {admission_closed, close_started, poisoned, alive} \subseteq BOOLEAN
  /\ owned \subseteq Nat \X Ordinals \X LaneSet
  /\ published \subseteq Nat \X {"COMMITTED", "DISCARDED"}

\* Every field of the arena keeps its range, the two cursors included; the
\* environment stays the one the behaviour began with.
TypeOK == env \in Environments /\ ArenaOK

\* The three counters effectful_quiescent and epoch_query rely on are exactly
\* the number of active commands, of retained intents and of held leases,
\* although each is kept by increments spread over five handlers.
CountersExact ==
  /\ active_commands = Cardinality({s \in Slots : cmd[s].phase = "ACTIVE"})
  /\ retained_intents = Cardinality({s \in Slots : cmd[s].phase = "INTENT"})
  /\ completion_leases = Cardinality({s \in Slots : cmd[s].lease # 0})

HeldPhases == {"SUBMIT_UNKNOWN", "ACCEPTED", "TERMINAL", "RETIRE_ISSUED", "DRAINING"}
Held(s) == {i \in OrdinalsOf(cmd[s]) : cmd[s].phase = "ACTIVE" /\ cmd[s].act[i].phase \in HeldPhases}

\* No driver action is forgotten: a token a driver may hold belongs to an
\* active command whose record still says so, through poison, abort, close
\* and slot reuse (ADR-0006: "no force-forget path").
NoForgottenAction == owned = UNION {{Token(cmd[s], i) : i \in Held(s)} : s \in Slots}

\* When the epoch reports effectful quiescence, or the arena was returned, no
\* driver holds an action of it.
QuiescentHoldsNothing == (effectful_quiescent \/ ~alive) => owned = {}

\* process_abort keeps only the target's slot index: until it decides, that
\* slot still holds the very command it bound.
BoundTargetStays ==
  \A s \in Slots :
     LET ab == cmd[s].abort
     IN (occupied(cmd[s]) /\ ab.bound # NoSlot) =>
          /\ occupied(cmd[ab.bound])
          /\ cmd[ab.bound].uid = ab.target
          /\ cmd[ab.bound].incoming = cmd[s].uid

\* A command an abort has bound is never published: acquire and finish refuse
\* it, whichever of abort and publication came first.
AbortedNeverPublished ==
  \A s \in Slots : (occupied(cmd[s]) /\ cmd[s].abort.bound # NoSlot) =>
     \A d \in {"COMMITTED", "DISCARDED"} : <<cmd[s].abort.target, d>> \notin published

\* The decision publication_v1_finish recorded is the one that is published,
\* also when the profile's retire failed or was pending and finish is repeated
\* after poison or close.
PublishedAsDecided ==
  [][\A s \in Slots : cmd[s].decision # "NONE" =>
       \/ cmd'[s].uid = cmd[s].uid /\ cmd'[s].decision = cmd[s].decision
       \/ <<cmd[s].uid, cmd[s].decision>> \in published']_vars

\* A target whose abort won had work and none of it succeeded: the first
\* terminal event decides between abort and target (ADR-0006 and ADR-0011).
\* Without lost submit answers and driver errors: both leave an action in
\* SUBMIT_UNKNOWN, which is not in the abort's mask.
AbortWonTargetFailed ==
  \A s \in Slots :
     (/\ ~env.lost /\ ~env.faults
      /\ occupied(cmd[s]) /\ cmd[s].abort.decision = "ABORT_WON") =>
        LET t == cmd[cmd[s].abort.bound]
        IN OrdinalsOf(t) # {} /\ \A i \in OrdinalsOf(t) : t.act[i].term # "SUCCEEDED"

\* Once admission is closed, by poison or by epoch close, or the command is
\* cancelled, no driver is handed a new action.
NoSubmitAfterStop ==
  [][\A s \in Slots : \A i \in OrdinalsOf(cmd[s]) :
       (Token(cmd[s], i) \in owned' \ owned) =>
          ~admission_closed /\ ~cmd[s].cancel]_vars

\* The first terminal fact of an action never changes while its command lives.
TerminalStable ==
  [][\A s \in Slots : \A i \in OrdinalsOf(cmd[s]) :
       (cmd'[s].uid = cmd[s].uid /\ cmd[s].act[i].term # "NONE") =>
          cmd'[s].act[i].term = cmd[s].act[i].term]_vars

\* A command that was active when the lifecycle was poisoned never turns into
\* an intent.
PoisonSuppressesIntents ==
  [][\A s \in Slots :
       (poisoned /\ cmd[s].phase # "INTENT") => cmd'[s].phase # "INTENT"]_vars

\* No program aborts another.
Unrelated == \A p \in env.programs : Role[p] = "NORMAL"

\* After epoch close, with drivers that answer, the epoch becomes quiescent.
CloseDrains ==
  (Answering /\ Unrelated) => (close_started ~> (effectful_quiescent \/ ~alive))

\* The same with ABORT commands among the ones being drained.
CloseDrainsAborts ==
  Answering => (close_started ~> (effectful_quiescent \/ ~alive))

\* With drivers that answer, every admitted command reaches an intent or the
\* quarantine.
CommandsFinish ==
  (Answering /\ Unrelated) =>
     \A s \in Slots : (cmd[s].phase = "ACTIVE") ~> (cmd[s].phase # "ACTIVE")

\* The accounts close relies on are exact: counters, driver-held actions and
\* the quiescence epoch_query reports agree (see each part).
Accounted == CountersExact /\ NoForgottenAction /\ QuiescentHoldsNothing

\* Poison, close and cancel stop new work in every handler (see each part).
StopHolds == NoSubmitAfterStop /\ PoisonSuppressesIntents

\* What was decided stands: the first terminal fact of an action and the
\* recorded publication decision survive repeats, poison and close.
DecisionsStand == TerminalStable /\ PublishedAsDecided

\* With drivers that answer, epoch close drains and every command finishes.
Progress == CloseDrains /\ CommandsFinish
=============================================================================
