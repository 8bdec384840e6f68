---------------------------- MODULE CommandGraph ----------------------------
(* The C4.3 command graph (core/c4-nvme): a client reserves one of a few    *)
(* slots, admits a request which the policy turns into an immutable plan,   *)
(* and fwlab_c43_graph_step drives one slot at a time through the queue,    *)
(* target or block transaction its plan calls for.  Commands are never      *)
(* released: the result is held.  Every call first runs the graph's own     *)
(* validator, which is modelled with it.                                    *)
EXTENDS Naturals, FiniteSets, FiniteSetsExt, Functions

CONSTANT Settings
VARIABLES set, dev, env
vars == <<set, dev, env>>

Slots == 0 .. set.slots - 1
QueueKinds == {"CREATE_CQ", "CREATE_SQ", "DELETE_CQ", "DELETE_SQ"}
BlockKinds == {"READ", "WRITE", "FLUSH"}
IdentifyKinds == {"ID_CTRL", "ID_NS", "ID_LIST", "ID_DESC"}
ActionsPerCommand == 8   \* FWLAB_C43_ACTIONS_PER_COMMAND
LbaCount == 8            \* fwlab_nvme_profile_fixed
Depth == 4
MaxCount == 8            \* maximum_transfer_bytes / lba_bytes

----------------------------------------------------------------------------
(* Policy.                                                                  *)

\* struct fwlab_c43_policy_request
Request == [kind |-> "NONE", class |-> "ADMIN", fault |-> "NONE", bad |-> FALSE,
            data |-> FALSE, fua |-> FALSE, ns |-> 0, entries |-> 0, slba |-> 0,
            nlb |-> 0, feature |-> FALSE]

\* struct fwlab_c43_policy_plan: shape and block intent reduced to the extent
NoPlan == [kind |-> "NONE", status |-> "NONE", need |-> {}, dnr |-> FALSE,
           first |-> 0, count |-> 0, dir |-> "NONE"]
policy_plan_base(kind, status, dnr) ==
  [NoPlan EXCEPT !.kind = kind, !.status = status, !.dnr = dnr]
policy_error(status, dnr) == policy_plan_base("IMMEDIATE", status, dnr)

request_branch_valid(r) ==
  LET block == r.slba = 0 /\ r.nlb = 0
      sized == r.entries # 0
  IN CASE r.kind = "SET_NQ" -> block /\ ~sized
       [] r.kind \in {"CREATE_CQ", "CREATE_SQ"} -> block /\ ~r.feature
       [] r.kind \in {"READ", "WRITE"} -> ~r.feature /\ ~sized
       [] OTHER -> block /\ ~r.feature /\ ~sized

request_expected_queue(k) == IF k \in BlockKinds THEN "IO" ELSE "ADMIN"
request_namespace_valid(r) ==
  IF r.kind \in {"ID_NS", "ID_DESC"} \cup BlockKinds THEN r.ns = 1
  ELSE r.kind = "ID_LIST" \/ r.ns = 0
request_data_required(k) == k \in IdentifyKinds \cup {"READ", "WRITE"}

\* The checks common to every command: the set holds the error plan, if any.
request_common_error(r) ==
  IF r.fault # "NONE"
  THEN {policy_error(CASE r.fault = "FORMAT" -> "INVALID_FIELD"
                       [] r.fault = "STALE" -> "COMMAND_SEQUENCE"
                       [] OTHER -> "TRANSFER_FAILURE", r.fault # "QUEUE_MEMORY")}
  ELSE IF r.kind = "UNSUPPORTED" \/ r.class # request_expected_queue(r.kind)
  THEN {policy_error("UNSUPPORTED_COMMAND", TRUE)}
  ELSE IF \/ r.bad \/ (r.fua /\ r.kind # "WRITE")
          \/ request_data_required(r.kind) # r.data
  THEN {policy_error("INVALID_FIELD", TRUE)}
  ELSE IF ~request_namespace_valid(r) THEN {policy_error("INVALID_NAMESPACE", TRUE)}
  ELSE {}

identify_plan ==
  [policy_plan_base("PAYLOAD", "SUCCESS", FALSE) EXCEPT !.dir = "OUT",
     !.need = {"PAYLOAD_READY", "DMA_OUT"}]
checked_transfer(r) ==
  /\ r.nlb + 1 <= LbaCount /\ r.slba < LbaCount
  /\ r.slba + r.nlb + 1 <= LbaCount /\ r.nlb + 1 <= MaxCount
block_plan(r) ==
  [policy_plan_base("BLOCK", "SUCCESS", FALSE) EXCEPT
     !.first = r.slba, !.count = IF r.kind = "FLUSH" THEN 0 ELSE r.nlb + 1,
     !.dir = CASE r.kind = "READ" -> "OUT" [] r.kind = "WRITE" -> "IN" [] OTHER -> "NONE",
     !.need = CASE r.kind = "READ" -> {"READ_READY", "DMA_OUT"}
                [] r.kind = "WRITE" -> {"DMA_IN", "WRITE_COMPLETE"}
                                       \cup (IF r.fua THEN {"DURABLE"} ELSE {})
                [] OTHER -> {"DURABLE"}]

policy_begin(r) ==
  IF request_common_error(r) # {} THEN CHOOSE p \in request_common_error(r) : TRUE
  ELSE CASE r.kind \in IdentifyKinds -> identify_plan
         [] r.kind = "SET_NQ" -> IF r.feature THEN policy_plan_base("IMMEDIATE", "SUCCESS", FALSE)
                                 ELSE policy_error("INVALID_FIELD", TRUE)
         [] r.kind \in {"CREATE_CQ", "CREATE_SQ"} /\ r.entries # Depth ->
              policy_error("INVALID_QUEUE_SIZE", TRUE)
         [] r.kind \in QueueKinds /\ (r.kind \in {"DELETE_CQ", "DELETE_SQ"} \/ r.entries = Depth) ->
              [policy_plan_base("QUEUE", "SUCCESS", FALSE) EXCEPT !.need = {"QUEUE_EFFECT"}]
         [] r.kind = "ABORT" -> policy_plan_base("ABORT", "SUCCESS", FALSE)
         [] r.kind \in {"READ", "WRITE"} /\ ~checked_transfer(r) ->
              policy_error("LBA_RANGE", TRUE)
         [] r.kind = "FLUSH" \/ (r.kind \in {"READ", "WRITE"} /\ checked_transfer(r)) ->
              block_plan(r)

\* fwlab_c43_transfer_shape_valid, fwlab_c43_block_intent_valid
block_intent_valid(p, k) ==
  IF k = "FLUSH" THEN p.first = 0 /\ p.count = 0 /\ p.dir = "NONE"
  ELSE /\ p.count \in 1 .. LbaCount /\ p.count <= MaxCount
       /\ p.first < LbaCount /\ p.first <= LbaCount - p.count
       /\ p.dir = IF k = "READ" THEN "OUT" ELSE "IN"

policy_plan_valid(p, r) ==
  /\ p.status = "SUCCESS" => ~p.dnr
  /\ p.status # "SUCCESS" => p.kind = "IMMEDIATE"
  /\ CASE p.kind \in {"IMMEDIATE", "ABORT"} -> p.need = {} /\ p.count = 0 /\ p.dir = "NONE"
       [] p.kind = "QUEUE" -> p.need = {"QUEUE_EFFECT"} /\ p.count = 0 /\ p.dir = "NONE"
       [] p.kind = "PAYLOAD" -> p.need = {"PAYLOAD_READY", "DMA_OUT"} /\ p.dir = "OUT"
       [] p.kind = "BLOCK" ->
            /\ block_intent_valid(p, r.kind)
            /\ p.need = CASE r.kind = "READ" -> {"READ_READY", "DMA_OUT"}
                          [] r.kind = "WRITE" /\ r.fua -> {"DMA_IN", "WRITE_COMPLETE", "DURABLE"}
                          [] r.kind = "WRITE" /\ ~r.fua -> {"DMA_IN", "WRITE_COMPLETE"}
                          [] OTHER -> {"DURABLE"}
       [] OTHER -> FALSE

----------------------------------------------------------------------------
(* State.                                                                   *)

\* struct fwlab_c43_queue_facts: quiet stands for the *_zero facts the
\* operation looks at, sized for queue_entries = Depth.
NoFacts == [op |-> "NONE", queue |-> 0, acq |-> 0, sized |-> FALSE, addr |-> FALSE,
            match |-> FALSE, current |-> FALSE, quiet |-> FALSE]
NoTerminal == [state |-> "NONE", decision |-> "NONE", facts |-> NoFacts, ok |-> FALSE]

\* struct c43_command_record with the transaction its domain uses
NoTxn == [flow |-> "NONE", from |-> "NONE", decision |-> "NONE", status |-> "NONE",
          applied |-> FALSE, owned |-> FALSE, asked |-> FALSE, prepared |-> NoFacts,
          finish |-> "NONE", terminal |-> NoTerminal, outcome |-> "NONE", pin |-> 0]
FreeRecord == [state |-> "FREE", key |-> 0, origin |-> 0, class |-> "NONE", uid |-> 0,
               action |-> 0, request |-> Request, plan |-> NoPlan, txn |-> NoTxn,
               incoming |-> 0]

\* struct fwlab_c43_command_observer
FreeObserver == [phase |-> "FREE", uid |-> 0, action |-> 0, need |-> {}, sat |-> {},
                 success |-> FALSE, domain |-> "NONE", state |-> "NONE",
                 status |-> "NONE", outcome |-> "NONE", pin |-> 0, incoming |-> 0]

\* struct c43_queue_authority
NoAuthority == [nq |-> FALSE, owner |-> 0, cq |-> 0, sq |-> 0, acq |-> 0]

\* struct c43_counter_cursor, next = 0 when exhausted
cursor_can_take(next, max, n) == next # 0 /\ next <= max /\ n - 1 <= max - next
cursor_take(next, max, n) == IF n - 1 = max - next THEN 0 ELSE next + n
cursor_consumed(next, max, v) == v \in 1 .. max /\ (next = 0 \/ v < next)

\* fwlab_c43_graph_init
graph_init(s) ==
  [cmd |-> [i \in 0 .. s.slots - 1 |-> FreeRecord],
   obs |-> [i \in 0 .. s.slots - 1 |-> FreeObserver],
   auth |-> NoAuthority, oauth |-> NoAuthority, uid |-> 1, action |-> 1, next |-> 0]

queue_public_action_state(f) ==
  CASE f = "PREPARE_START" -> "SUBMIT_READY"
    [] f = "FINISH_START" -> "FINISH_READY"
    [] f = "DONE" -> "TERMINAL_HELD"
    [] OTHER -> f
target_public_action_state(f) ==
  CASE f = "SUBMIT_START" -> "SUBMIT_READY"
    [] f = "QUERY" -> "ACCEPTED_WAIT"
    [] f = "DONE" -> "TERMINAL_HELD"
    [] OTHER -> f
block_public_action_state(f) == target_public_action_state(f)

queue_authority_sync(d) == [d EXCEPT !.oauth = d.auth]
queue_record_sync(d, i) ==
  [d EXCEPT !.obs[i] = [@ EXCEPT !.domain = "QUEUE", !.status = d.cmd[i].txn.status,
                          !.state = queue_public_action_state(d.cmd[i].txn.flow)]]
target_record_sync(d, i) ==
  [d EXCEPT !.obs[i] = [@ EXCEPT !.domain = "TARGET", !.status = d.cmd[i].txn.status,
                          !.state = target_public_action_state(d.cmd[i].txn.flow),
                          !.outcome = d.cmd[i].txn.outcome, !.pin = d.cmd[i].txn.pin]]
block_record_sync(d, i) ==
  [d EXCEPT !.obs[i] = [@ EXCEPT !.domain = "BLOCK", !.status = d.cmd[i].txn.status,
                          !.state = block_public_action_state(d.cmd[i].txn.flow),
                          !.outcome = d.cmd[i].txn.outcome, !.pin = 0]]

----------------------------------------------------------------------------
(* The graph's own validators.                                              *)

Owning == {"PREPARE_START", "PREPARE_QUERY", "DECIDE", "FINISH_START", "FINISH_QUERY",
           "APPLY_COMMIT", "APPLY_ABORT", "RETIRE", "FAULT"}
queue_flow_requires_owner(f) == f \in Owning
queue_facts_immutable_equal(a, b) ==
  /\ a.op = b.op /\ a.queue = b.queue /\ a.acq = b.acq
  /\ a.sized = b.sized /\ a.addr = b.addr
queue_terminal_is_commit(t) ==
  \/ t.terminal.state = "COMMITTED" /\ t.decision = "COMMIT"
  \/ t.terminal.state = "TOO_LATE" /\ t.decision = "ABORT"

queue_facts_valid(f) ==
  /\ f.op \in QueueKinds
  /\ f.op \in {"CREATE_CQ", "DELETE_CQ"} => f.acq = 0 /\ ~f.match
  /\ f.match => f.queue # 0 /\ f.acq # 0
queue_effect_terminal_valid(t) ==
  /\ queue_facts_valid(t.facts)
  /\ CASE t.state = "PREPARED" -> t.decision = "NONE"
       [] t.state = "COMMITTED" -> t.decision = "COMMIT"
       [] t.state \in {"ABORTED", "TOO_LATE"} -> t.decision = "ABORT"
       [] OTHER -> t.state \in {"RESET_SUPERSEDED", "FAILED", "POISONED"}
queue_effect_terminal_matches_request(t, op) ==
  t.ok /\ queue_effect_terminal_valid(t) /\ t.facts.op = op
queue_finish_terminal_matches_request(t, decision) ==
  t.ok /\ queue_effect_terminal_valid(t) /\ t.decision = decision

queue_authority_valid(d) ==
  LET a == d.auth IN
  /\ (a.cq # 0 \/ a.sq # 0) => a.nq
  /\ IF a.sq = 0 THEN a.acq = 0 ELSE a.cq # 0 /\ a.acq = a.cq
  /\ d.oauth = a

queue_record_valid(r, o) ==
  LET t == r.txn
      zero(p, f, e) == /\ (t.prepared = NoFacts) = p /\ (t.finish = "NONE") = f
                       /\ (t.terminal = NoTerminal) = e
      last == t.terminal # NoTerminal /\ queue_effect_terminal_valid(t.terminal)
      plain == ~t.applied /\ t.decision = "NONE" /\ t.status = "NONE"
  IN IF t.flow = "NONE" THEN t = NoTxn /\ o.domain = "NONE" /\ o.state = "NONE" /\ o.status = "NONE"
     ELSE
     /\ t.flow # "FAULT" => t.from = "NONE"
     /\ t.flow = "FAULT" => t.from \in Owning \ {"FAULT"}
     /\ o.domain = "QUEUE" /\ o.state = queue_public_action_state(t.flow) /\ o.status = t.status
     /\ IF r.request.kind = "SET_NQ" THEN
             /\ t.flow = "DONE" /\ t.decision = "NONE" /\ ~t.applied /\ ~t.owned
             /\ \/ t.status = r.plan.status
                \/ r.plan.status = "SUCCESS" /\ t.status = "COMMAND_SEQUENCE"
             /\ ~t.asked /\ zero(TRUE, TRUE, TRUE)
        ELSE IF t.flow = "REJECTED_NO_EFFECT" THEN
             /\ r.request.kind \in QueueKinds /\ t.status \notin {"NONE", "SUCCESS"}
             /\ ~t.owned /\ ~t.applied /\ t.decision = "NONE" /\ zero(TRUE, TRUE, TRUE)
        ELSE
        /\ r.request.kind \in QueueKinds /\ t.asked
        /\ t.applied = ("QUEUE_EFFECT" \in o.sat)
        /\ t.finish # "NONE" => t.finish = t.decision
        /\ t.prepared # NoFacts => queue_facts_valid(t.prepared)
        /\ t.terminal # NoTerminal =>
             last /\ queue_facts_immutable_equal(t.prepared, t.terminal.facts)
        /\ CASE t.flow = "PREPARE_START" -> plain /\ ~t.owned /\ zero(TRUE, TRUE, TRUE)
             [] t.flow = "PREPARE_QUERY" -> plain /\ t.owned /\ zero(TRUE, TRUE, TRUE)
             [] t.flow = "DECIDE" -> plain /\ t.owned /\ zero(FALSE, TRUE, TRUE)
             [] t.flow \in {"FINISH_START", "FINISH_QUERY"} ->
                  /\ t.decision # "NONE" /\ t.status # "NONE" /\ t.owned /\ ~t.applied
                  /\ zero(FALSE, FALSE, TRUE)
             [] t.flow = "APPLY_COMMIT" ->
                  /\ t.status = "SUCCESS" /\ t.owned /\ ~t.applied /\ zero(FALSE, FALSE, FALSE)
                  /\ queue_terminal_is_commit(t)
             [] t.flow = "APPLY_ABORT" ->
                  /\ t.status \notin {"NONE", "SUCCESS"} /\ t.owned /\ ~t.applied
                  /\ zero(FALSE, FALSE, FALSE)
                  /\ t.decision = "ABORT" /\ t.terminal.state = "ABORTED"
             [] t.flow \in {"RETIRE", "DONE"} ->
                  /\ t.owned = (t.flow = "RETIRE") /\ zero(FALSE, FALSE, FALSE)
                  /\ \/ queue_terminal_is_commit(t) /\ t.applied /\ t.status = "SUCCESS"
                     \/ /\ t.terminal.state = "ABORTED" /\ ~t.applied
                        /\ t.status \notin {"NONE", "SUCCESS"}
             [] t.flow = "FAULT" ->
                  /\ t.status = "INTERNAL_FAILURE"
                  /\ t.from # "PREPARE_START" => t.owned
                  /\ t.applied => t.from = "RETIRE" /\ last /\ queue_terminal_is_commit(t)
                  /\ CASE t.from \in {"PREPARE_START", "PREPARE_QUERY"} ->
                            t.decision = "NONE" /\ zero(TRUE, TRUE, TRUE)
                       [] t.from = "DECIDE" -> zero(FALSE, TRUE, TRUE)
                       [] t.from \in {"FINISH_START", "FINISH_QUERY"} ->
                            t.prepared # NoFacts /\ t.finish # "NONE"
                       [] OTHER -> zero(FALSE, FALSE, FALSE)

target_find_slot(d, i, uid) ==
  {j \in DOMAIN d.cmd \ {i} : d.cmd[j].state = "ADMITTED" /\ d.cmd[j].uid = uid}
target_record_valid(d, i) ==
  LET t == d.cmd[i].txn  o == d.obs[i] IN
  IF t.flow = "NONE" THEN t = NoTxn /\ o.domain = "NONE" /\ o.state = "NONE" /\ o.status = "NONE"
  ELSE
  /\ t.flow # "FAULT" => t.from = "NONE"
  /\ t.flow = "FAULT" => t.from \in {"SUBMIT_START", "QUERY"}
  /\ o.domain = "TARGET" /\ o.state = target_public_action_state(t.flow)
  /\ o.status = t.status /\ o.outcome = t.outcome /\ o.pin = t.pin
  /\ CASE t.flow \in {"SUBMIT_START", "QUERY"} ->
            /\ t.status = "NONE" /\ t.owned = (t.flow = "QUERY")
            /\ t.pin = 0 /\ t.outcome = "NONE"
       [] t.flow = "DONE" ->
            /\ t.status = "SUCCESS" /\ t.owned
            /\ t.outcome \in {"FOUND", "NOT_FOUND", "TOO_LATE", "STALE", "SUPERSEDED"}
            /\ t.outcome # "FOUND" => t.pin = 0
            /\ t.outcome = "FOUND" =>
                 \E j \in target_find_slot(d, i, t.pin) : d.cmd[j].incoming = 1
       [] t.flow = "FAULT" ->
            /\ t.status = "INTERNAL_FAILURE" /\ t.pin = 0
            /\ t.from = "QUERY" => t.owned
            /\ t.outcome \in {"NONE", "FAULT"}

block_record_valid(r, o) ==
  LET t == r.txn IN
  IF t.flow = "NONE" THEN t = NoTxn /\ o.domain = "NONE" /\ o.state = "NONE" /\ o.status = "NONE"
  ELSE
  /\ t.flow # "FAULT" => t.from = "NONE"
  /\ t.flow = "FAULT" => t.from \in {"SUBMIT_START", "QUERY"}
  /\ o.domain = "BLOCK" /\ o.state = block_public_action_state(t.flow)
  /\ o.status = t.status /\ o.outcome = t.outcome
  /\ CASE t.flow \in {"SUBMIT_START", "QUERY"} ->
            t.status = "NONE" /\ t.owned = (t.flow = "QUERY") /\ t.outcome = "NONE"
       [] t.flow = "DONE" ->
            /\ t.owned
            /\ \/ t.outcome = "VALIDATED_ONLY" /\ t.status = "SUCCESS" /\ o.sat = {"VALIDATED"}
               \/ t.outcome = "FAILED_NO_EFFECT" /\ t.status = "MEDIA_FAILURE" /\ o.sat = {}
       [] t.flow = "REJECTED_NO_EFFECT" ->
            t.status = "RESOURCE_FAILURE" /\ ~t.owned /\ t.outcome = "NONE" /\ o.sat = {}
       [] t.flow = "FAULT" ->
            /\ t.status = "INTERNAL_FAILURE" /\ t.outcome = "NONE" /\ o.sat = {}
            /\ t.from = "QUERY" => t.owned

Pinners(d, j) ==
  {i \in DOMAIN d.cmd : /\ d.cmd[i].plan.kind = "ABORT" /\ d.cmd[i].txn.flow = "DONE"
                        /\ d.cmd[i].txn.pin = d.cmd[j].uid /\ d.cmd[j].uid # 0}
phase4_state_valid(d) ==
  LET owners == {i \in DOMAIN d.cmd : /\ d.cmd[i].plan.kind \notin {"ABORT", "BLOCK"}
                                      /\ queue_flow_requires_owner(d.cmd[i].txn.flow)}
  IN /\ queue_authority_valid(d)
     /\ \A i \in DOMAIN d.cmd :
          CASE d.cmd[i].state = "FREE" -> d.cmd[i].txn = NoTxn
            [] d.cmd[i].plan.kind = "ABORT" -> target_record_valid(d, i)
            [] d.cmd[i].plan.kind = "BLOCK" -> block_record_valid(d.cmd[i], d.obs[i])
            [] OTHER -> queue_record_valid(d.cmd[i], d.obs[i])
     /\ \A j \in DOMAIN d.cmd : d.cmd[j].incoming = Cardinality(Pinners(d, j))
     /\ IF owners = {} THEN d.auth.owner = 0 ELSE owners = {d.auth.owner - 1}

\* *_public_command_valid and the rest of fwlab_c43_graph_observer_valid
queue_public_command_valid(d, i) ==
  LET o == d.obs[i]
      early == o.state \in {"SUBMIT_READY", "PREPARE_QUERY", "DECIDE"}
      late == o.state \in {"RETIRE", "TERMINAL_HELD", "REJECTED_NO_EFFECT", "FAULT"}
  IN o.domain = "QUEUE" =>
     /\ o.state # "NONE" /\ o.need \cup o.sat \subseteq {"QUEUE_EFFECT"}
     /\ o.outcome = "NONE" /\ o.pin = 0
     /\ (o.state \notin {"TERMINAL_HELD", "REJECTED_NO_EFFECT"}) = (d.oauth.owner = i + 1)
     /\ o.phase = IF late THEN "ACTION_WAIT" ELSE "RESOLVE_WAIT"
     /\ (o.status = "NONE") = early
     /\ o.success = (o.status = "SUCCESS" /\ o.need \subseteq o.sat)
     /\ o.sat = {} \/ o.state \in {"RETIRE", "TERMINAL_HELD", "FAULT"}

target_public_command_valid(d, i) ==
  LET o == d.obs[i] IN
  o.domain = "TARGET" =>
    /\ o.need = {} /\ o.sat = {} /\ d.oauth.owner # i + 1
    /\ CASE o.state \in {"SUBMIT_READY", "ACCEPTED_WAIT"} ->
              /\ o.phase = "RESOLVE_WAIT" /\ o.status = "NONE" /\ ~o.success
              /\ o.outcome = "NONE" /\ o.pin = 0
         [] o.state = "TERMINAL_HELD" ->
              /\ o.phase = "ACTION_WAIT" /\ o.status = "SUCCESS" /\ o.success
              /\ IF o.outcome = "FOUND"
                 THEN Cardinality({j \in DOMAIN d.obs \ {i} : d.obs[j].uid = o.pin}) = 1
                 ELSE o.pin = 0
         [] o.state = "FAULT" ->
              /\ o.phase = "ACTION_WAIT" /\ o.status = "INTERNAL_FAILURE" /\ ~o.success
              /\ o.outcome \in {"NONE", "FAULT"} /\ o.pin = 0
         [] OTHER -> FALSE

block_public_command_valid(d, i) ==
  LET o == d.obs[i] IN
  o.domain = "BLOCK" =>
    /\ o.need # {} /\ o.sat \subseteq {"VALIDATED"} /\ ~o.success /\ d.oauth.owner # i + 1
    /\ CASE o.state \in {"SUBMIT_READY", "ACCEPTED_WAIT"} ->
              o.phase = "RESOLVE_WAIT" /\ o.status = "NONE" /\ o.outcome = "NONE" /\ o.sat = {}
         [] o.state = "TERMINAL_HELD" ->
              /\ o.phase = "ACTION_WAIT"
              /\ \/ o.outcome = "VALIDATED_ONLY" /\ o.status = "SUCCESS" /\ o.sat = {"VALIDATED"}
                 \/ o.outcome = "FAILED_NO_EFFECT" /\ o.status = "MEDIA_FAILURE" /\ o.sat = {}
         [] o.state \in {"REJECTED_NO_EFFECT", "FAULT"} ->
              /\ o.phase = "ACTION_WAIT" /\ o.outcome = "NONE" /\ o.sat = {}
              /\ o.status = IF o.state = "FAULT" THEN "INTERNAL_FAILURE" ELSE "RESOURCE_FAILURE"
         [] OTHER -> FALSE

observer_valid(d) ==
  /\ \A i \in DOMAIN d.obs :
       LET o == d.obs[i] IN
       IF o.phase = "FREE" THEN o = FreeObserver
       ELSE /\ o.sat \subseteq o.need \cup {"VALIDATED"}
            /\ (o.domain = "NONE") = (o.state = "NONE")
            /\ o.phase \in {"PREPARED", "ADMITTED_POLICY"} =>
                 o.domain = "NONE" /\ o.status = "NONE" /\ o.sat = {} /\ ~o.success
            /\ o.domain # "QUEUE" /\ o.need # {} => o.success = (o.need \subseteq o.sat)
            /\ o.success => o.need \subseteq o.sat /\ "VALIDATED" \notin o.sat
            /\ queue_public_command_valid(d, i) /\ target_public_command_valid(d, i)
            /\ block_public_command_valid(d, i)
            /\ o.incoming = Cardinality({j \in DOMAIN d.obs :
                                           d.obs[j].domain = "TARGET" /\ d.obs[j].pin = o.uid})
            /\ \A j \in DOMAIN d.obs \ {i} :
                 d.obs[j].phase # "FREE" =>
                   /\ o.uid # d.obs[j].uid
                   /\ \/ o.action + ActionsPerCommand <= d.obs[j].action
                      \/ d.obs[j].action + ActionsPerCommand <= o.action
  /\ d.oauth.owner # 0 =>
       /\ d.obs[d.oauth.owner - 1].domain = "QUEUE"
       /\ d.obs[d.oauth.owner - 1].state \notin {"NONE", "TERMINAL_HELD", "REJECTED_NO_EFFECT"}

observer_matches_record(r, o) ==
  /\ o.uid = r.uid /\ o.action = r.action /\ o.incoming = r.incoming
  /\ IF r.state = "PREPARED" THEN o.phase = "PREPARED" /\ o.need = {} /\ o.sat = {} /\ ~o.success
     ELSE o.phase \notin {"FREE", "PREPARED"} /\ o.need = r.plan.need

prepared_valid(r) ==
  IF r.state = "PREPARED" THEN r.incoming = 0 /\ r.request = Request /\ r.plan = NoPlan
  ELSE /\ r.request.class = r.class /\ request_branch_valid(r.request)
       /\ policy_plan_valid(r.plan, r.request) /\ r.plan = policy_begin(r.request)

reservation_state_valid(d) ==
  /\ d.uid <= set.max /\ d.action <= set.amax
  /\ \A i \in DOMAIN d.cmd :
       LET r == d.cmd[i] IN
       IF r.state = "FREE" THEN r = FreeRecord /\ d.obs[i].phase = "FREE"
       ELSE /\ observer_matches_record(r, d.obs[i])
            /\ prepared_valid(r)
            /\ \A j \in DOMAIN d.cmd \ {i} :
                 d.cmd[j].state # "FREE" => r.key # d.cmd[j].key /\ r.origin # d.cmd[j].origin
            /\ cursor_consumed(d.uid, set.max, r.uid)
            /\ \A n \in {0, ActionsPerCommand - 1} : cursor_consumed(d.action, set.amax, r.action + n)

graph_valid(d) == reservation_state_valid(d) /\ phase4_state_valid(d) /\ observer_valid(d)

----------------------------------------------------------------------------
(* The providers, as the ports see them: env.act[i] is what the provider    *)
(* holds for slot i's action, env.cq, sq and acq the queues it really has.  *)

NoAct == [stage |-> "NONE", facts |-> NoFacts, effect |-> FALSE]
Answer(a, e) == [a |-> a, e |-> e]
Late(a, e) == IF e.late = 0 THEN {} ELSE {Answer(a, [e EXCEPT !.late = @ - 1])}
Odd(A) == {Answer(r.a, [r.e EXCEPT !.odd = @ - 1]) : r \in {x \in A : x.e.odd > 0}}
Bad(A) == {Answer(r.a, [r.e EXCEPT !.bad = @ - 1]) : r \in {x \in A : x.e.bad > 0}}
Held(e, i, stage) == [e EXCEPT !.act[i].stage = stage]

\* queue prepare_start, target submit, block submit
submit(e, i) ==
  LET f == [e EXCEPT !.twice = @ \/ e.act[i].stage # "NONE"] IN
  {Answer("ACCEPTED", Held(f, i, "ACCEPTED"))} \cup Late("BACKPRESSURE", f)
  \cup Odd({Answer("REJECTED", Held(f, i, "REJECTED"))})
  \cup Bad({Answer("WRONG_TOKEN", Held(f, i, "ACCEPTED")), Answer("INVALID", f)})

TrueFacts(e, op) ==
  LET base == [NoFacts EXCEPT !.op = op, !.current = TRUE, !.quiet = TRUE] IN
  CASE op = "CREATE_CQ" -> {[base EXCEPT !.queue = e.ref + 1, !.sized = TRUE, !.addr = TRUE]}
    [] op = "CREATE_SQ" -> {[base EXCEPT !.queue = e.ref + 1, !.sized = TRUE, !.addr = TRUE,
                               !.acq = e.cq, !.match = e.cq # 0]}
    [] op = "DELETE_SQ" -> {[base EXCEPT !.queue = e.sq, !.acq = e.acq, !.match = e.sq # 0,
                               !.quiet = q] : q \in BOOLEAN}
    [] op = "DELETE_CQ" -> {[base EXCEPT !.queue = e.cq, !.quiet = q] : q \in BOOLEAN}

Effect(e, i, f) ==
  [e EXCEPT !.act[i].effect = TRUE, !.act[i].stage = "FINISHED",
     !.ref = IF f.op \in {"CREATE_CQ", "CREATE_SQ"} THEN f.queue ELSE @,
     !.cq = CASE f.op = "CREATE_CQ" -> f.queue [] f.op = "DELETE_CQ" -> 0 [] OTHER -> @,
     !.sq = CASE f.op = "CREATE_SQ" -> f.queue [] f.op = "DELETE_SQ" -> 0 [] OTHER -> @,
     !.acq = CASE f.op = "CREATE_SQ" -> f.acq [] f.op = "DELETE_SQ" -> 0 [] OTHER -> @]

prepare_query(e, i, op) ==
  LET told(f) == Answer([NoTerminal EXCEPT !.state = "PREPARED", !.facts = f, !.ok = TRUE],
                        [e EXCEPT !.act[i] = [stage |-> "PREPARED", facts |-> f, effect |-> FALSE]])
      T == TrueFacts(e, op)
  IN {told(f) : f \in T} \cup Late([NoTerminal EXCEPT !.state = "NOT_READY"], e)
     \cup Odd(UNION {{told([f EXCEPT !.addr = FALSE]), told([f EXCEPT !.sized = FALSE]),
                      told([f EXCEPT !.current = FALSE])} : f \in T})
     \cup Bad({Answer(NoTerminal, e)})

finish_query(e, i, decision) ==
  LET f == e.act[i].facts
      done == [f EXCEPT !.quiet = TRUE, !.current = TRUE]
      told(state, g, x) == Answer([state |-> state, decision |-> decision, facts |-> g, ok |-> TRUE], x)
      none == Held(e, i, "FINISHED")
  IN Late([NoTerminal EXCEPT !.state = "NOT_READY"], e)
     \cup IF decision = "COMMIT" THEN
            {told("COMMITTED", done, Effect(e, i, f))}
            \cup Bad({told("COMMITTED", [done EXCEPT !.quiet = FALSE], Effect(e, i, f)),
                      told("FAILED", f, none), told("POISONED", f, none),
                      told("POISONED", f, Effect(e, i, f)), told("RESET_SUPERSEDED", f, none),
                      Answer(NoTerminal, none)})
          ELSE {told("ABORTED", f, none)} \cup Odd({told("TOO_LATE", done, Effect(e, i, f))})
               \cup Bad({told("POISONED", f, Effect(e, i, f))})

queue_retire(e, i) ==
  {Answer("OK", Held(e, i, "RETIRED"))} \cup Late("IN_PROGRESS", e) \cup Bad({Answer("STALE", e)})

\* d tells which commands a host can have named
target_query(e, i, d) ==
  LET named == {d.cmd[j].uid : j \in {j \in DOMAIN d.cmd \ {i} : d.cmd[j].state # "FREE"}}
      fresh == {d.cmd[j].uid : j \in {j \in DOMAIN d.cmd \ {i} : /\ d.cmd[j].state = "ADMITTED"
                                                                /\ d.cmd[j].incoming = 0}}
      told(o, u) == Answer([outcome |-> o, uid |-> u], Held(e, i, "FINISHED"))
  IN {told(o, 0) : o \in {"NOT_FOUND", "SUPERSEDED"}} \cup {told("FOUND", u) : u \in fresh}
     \cup Late([outcome |-> "NOT_READY", uid |-> 0], e)
     \cup Odd({told("TOO_LATE", 0), told("STALE", 0)} \cup {told("FOUND", u) : u \in named \ fresh})
     \cup Bad({told("FAULT", 0), told("RELEASED", 0), told("WRONG", 0)})
block_query(e, i) ==
  {Answer("VALIDATED_ONLY", Held(e, i, "FINISHED"))} \cup Late("NOT_READY", e)
  \cup Odd({Answer("FAILED_NO_EFFECT", Held(e, i, "FINISHED"))})
  \cup Bad({Answer(k, Held(e, i, "FINISHED")) : k \in {"CANCELLED", "COMPLETED", "WRONG"}})

----------------------------------------------------------------------------
(* One unit of progress.  Each step returns the set of possible outcomes.   *)

Out(d, e) == [d |-> d, e |-> e]

queue_release_owner_kept(d, i) == d
queue_release_owner(d, i) ==
  IF d.auth.owner = i + 1 THEN queue_authority_sync([d EXCEPT !.auth.owner = 0]) ELSE d
queue_resolve_no_effect(d, i, status) ==
  queue_release_owner(queue_record_sync(
    [d EXCEPT !.cmd[i].txn = [@ EXCEPT !.flow = "REJECTED_NO_EFFECT", !.status = status,
                                !.owned = FALSE],
              !.obs[i].phase = "ACTION_WAIT", !.obs[i].success = FALSE], i), i)
Faulted(d, i) ==
  [d EXCEPT !.cmd[i].txn = [@ EXCEPT !.from = d.cmd[i].txn.flow, !.flow = "FAULT",
                              !.status = "INTERNAL_FAILURE"],
            !.obs[i].phase = "ACTION_WAIT", !.obs[i].success = FALSE]
queue_fault(d, i) == queue_record_sync(Faulted(d, i), i)

queue_precondition_status(d, i) ==
  LET r == d.cmd[i]  a == d.auth IN
  IF r.plan.status # "SUCCESS" THEN r.plan.status
  ELSE IF r.request.kind \in {"CREATE_CQ", "CREATE_SQ"} THEN
    IF ~a.nq THEN "COMMAND_SEQUENCE"
    ELSE IF a.sq # 0 \/ (a.cq # 0) # (r.request.kind = "CREATE_SQ") THEN "INVALID_QUEUE"
    ELSE "SUCCESS"
  ELSE IF a.cq # 0 /\ (a.sq # 0) = (r.request.kind = "DELETE_SQ") THEN "SUCCESS"
  ELSE "INVALID_QUEUE_DELETE"

queue_begin_nq(d, i) ==
  LET asked == d.cmd[i].plan.status
      status == IF asked = "SUCCESS" /\ (d.auth.owner # 0 \/ d.auth.cq # 0 \/ d.auth.sq # 0)
                THEN "COMMAND_SEQUENCE" ELSE asked
  IN queue_authority_sync(queue_record_sync(
       [d EXCEPT !.auth.nq = @ \/ status = "SUCCESS",
                 !.cmd[i].txn = [@ EXCEPT !.flow = "DONE", !.status = status],
                 !.obs[i].phase = "ACTION_WAIT", !.obs[i].success = status = "SUCCESS"], i))

queue_begin_transaction(d, i) ==
  LET status == queue_precondition_status(d, i) IN
  IF status # "SUCCESS" THEN queue_resolve_no_effect(d, i, status)
  ELSE queue_authority_sync(queue_record_sync(
         [d EXCEPT !.cmd[i].txn = [NoTxn EXCEPT !.flow = "PREPARE_START", !.asked = TRUE],
                   !.auth.owner = i + 1, !.obs[i].phase = "RESOLVE_WAIT"], i))

queue_prepare_start_step(d, e, i) ==
  {CASE r.a = "BACKPRESSURE" -> Out(d, r.e)
     [] r.a = "REJECTED" -> Out(queue_resolve_no_effect(d, i, "RESOURCE_FAILURE"), r.e)
     [] r.a = "ACCEPTED" ->
          Out(queue_record_sync([d EXCEPT !.cmd[i].txn = [@ EXCEPT !.owned = TRUE,
                                                            !.flow = "PREPARE_QUERY"]], i), r.e)
     [] OTHER -> Out(queue_fault([d EXCEPT !.cmd[i].txn.owned = r.a = "WRONG_TOKEN"], i), r.e)
   : r \in submit(e, i)}

queue_prepare_query_step(d, e, i) ==
  {IF r.a.state = "NOT_READY" THEN Out(d, r.e)
   ELSE IF ~queue_effect_terminal_matches_request(r.a, d.cmd[i].request.kind)
     THEN Out(queue_fault(d, i), r.e)
   ELSE Out(queue_record_sync([d EXCEPT !.cmd[i].txn = [@ EXCEPT !.prepared = r.a.facts,
                                                          !.flow = "DECIDE"]], i), r.e)
   : r \in prepare_query(e, i, d.cmd[i].request.kind)}

\* The status that refuses the facts, or SUCCESS.
queue_facts_commit_ready(d, i, f) ==
  LET k == d.cmd[i].request.kind  a == d.auth IN
  IF k \in {"CREATE_CQ", "CREATE_SQ"} /\ ~f.addr THEN "INVALID_FIELD"
  ELSE IF k \in {"CREATE_CQ", "CREATE_SQ"} /\ ~f.sized THEN "INVALID_QUEUE_SIZE"
  ELSE CASE k = "CREATE_CQ" ->
              IF f.queue # 0 /\ f.acq = 0 /\ a.cq = 0 /\ a.sq = 0 THEN "SUCCESS" ELSE "INVALID_QUEUE"
         [] k = "CREATE_SQ" ->
              IF /\ f.queue # 0 /\ f.acq # 0 /\ f.match /\ f.current
                 /\ a.cq # 0 /\ a.sq = 0 /\ f.acq = a.cq
              THEN "SUCCESS" ELSE "INVALID_QUEUE"
         [] k = "DELETE_SQ" ->
              IF /\ a.sq # 0 /\ a.cq # 0 /\ f.queue = a.sq /\ f.acq = a.cq
                 /\ f.match /\ f.current /\ f.quiet
              THEN "SUCCESS" ELSE "INVALID_QUEUE_DELETE"
         [] k = "DELETE_CQ" ->
              IF a.cq # 0 /\ a.sq = 0 /\ f.queue = a.cq /\ f.acq = 0 /\ f.current /\ f.quiet
              THEN "SUCCESS" ELSE "INVALID_QUEUE_DELETE"
\* A deletion is decided before its queue is drained.
queue_facts_decision_commit(d, i, f) ==
  queue_facts_commit_ready(d, i, IF f.op \in {"DELETE_SQ", "DELETE_CQ"}
                                 THEN [f EXCEPT !.quiet = TRUE] ELSE f)

queue_decide_step(d, i) ==
  LET status == queue_facts_decision_commit(d, i, d.cmd[i].txn.prepared)
      decision == IF status = "SUCCESS" THEN "COMMIT" ELSE "ABORT"
  IN queue_record_sync([d EXCEPT !.cmd[i].txn = [@ EXCEPT !.status = status,
                          !.decision = decision, !.finish = decision, !.flow = "FINISH_START"]], i)

queue_finish_start_step(d, e, i) ==
  {CASE r.a = "BACKPRESSURE" -> Out(d, r.e)
     [] r.a = "ACCEPTED" -> Out(queue_record_sync([d EXCEPT !.cmd[i].txn.flow = "FINISH_QUERY"], i), r.e)
     [] OTHER -> Out(queue_fault(d, i), r.e)
   : r \in {Answer("ACCEPTED", Held(e, i, "FINISHING"))} \cup Late("BACKPRESSURE", e)
           \cup Bad({Answer("REJECTED", e), Answer("WRONG_TOKEN", Held(e, i, "FINISHING"))})}

queue_finish_query_step(d, e, i) ==
  LET t == d.cmd[i].txn
      kept(r) == [d EXCEPT !.cmd[i].txn.terminal = r.a]
      go(r, flow) == queue_record_sync([kept(r) EXCEPT !.cmd[i].txn.flow = flow], i)
  IN {CASE r.a.state = "NOT_READY" -> Out(d, r.e)
        [] r.a.state # "NOT_READY" /\
           ~(/\ queue_finish_terminal_matches_request(r.a, t.finish)
             /\ r.a.facts.op = d.cmd[i].request.kind
             /\ queue_facts_immutable_equal(t.prepared, r.a.facts)) -> Out(queue_fault(d, i), r.e)
        [] r.a.state = "COMMITTED" -> Out(go(r, "APPLY_COMMIT"), r.e)
        [] r.a.state = "ABORTED" -> Out(go(r, "APPLY_ABORT"), r.e)
        [] r.a.state = "TOO_LATE" ->
             Out(queue_record_sync([go(r, "APPLY_COMMIT") EXCEPT !.cmd[i].txn.status = "SUCCESS"], i), r.e)
        [] r.a.state \in {"FAILED", "POISONED", "RESET_SUPERSEDED"} -> Out(queue_fault(kept(r), i), r.e)
      : r \in finish_query(e, i, t.decision)}

queue_apply_commit_step(d, i) ==
  LET t == d.cmd[i].txn  f == t.terminal.facts  k == d.cmd[i].request.kind IN
  IF ~queue_facts_immutable_equal(t.prepared, f) \/ queue_facts_commit_ready(d, i, f) # "SUCCESS"
  THEN queue_fault(d, i)
  ELSE queue_authority_sync(queue_record_sync(
         [d EXCEPT
            !.auth = CASE k = "CREATE_CQ" -> [@ EXCEPT !.cq = f.queue]
                       [] k = "CREATE_SQ" -> [@ EXCEPT !.sq = f.queue, !.acq = d.auth.cq]
                       [] k = "DELETE_SQ" -> [@ EXCEPT !.sq = 0, !.acq = 0]
                       [] k = "DELETE_CQ" -> [@ EXCEPT !.cq = 0],
            !.cmd[i].txn = [@ EXCEPT !.applied = TRUE, !.flow = "RETIRE"],
            !.obs[i] = [@ EXCEPT !.phase = "ACTION_WAIT", !.sat = @ \cup {"QUEUE_EFFECT"},
                          !.success = t.status = "SUCCESS"]], i))

queue_apply_abort_step(d, i) ==
  queue_record_sync([d EXCEPT !.cmd[i].txn.flow = "RETIRE", !.obs[i].phase = "ACTION_WAIT",
                              !.obs[i].success = FALSE], i)

queue_retire_step(d, e, i) ==
  {CASE r.a = "IN_PROGRESS" -> Out(d, r.e)
     [] r.a = "OK" -> Out(queue_release_owner(queue_record_sync(
                        [d EXCEPT !.cmd[i].txn = [@ EXCEPT !.owned = FALSE, !.flow = "DONE"]], i), i), r.e)
     [] OTHER -> Out(queue_fault(d, i), r.e)
   : r \in queue_retire(e, i)}

queue_record_step(d, e, i) ==
  LET f == d.cmd[i].txn.flow IN
  CASE f = "NONE" -> {Out(IF d.cmd[i].request.kind = "SET_NQ" THEN queue_begin_nq(d, i)
                          ELSE queue_begin_transaction(d, i), e)}
    [] f = "DECIDE" -> {Out(queue_decide_step(d, i), e)}
    [] f = "APPLY_COMMIT" -> {Out(queue_apply_commit_step(d, i), e)}
    [] f = "APPLY_ABORT" -> {Out(queue_apply_abort_step(d, i), e)}
    [] OTHER -> IF set.stuck THEN {Out(d, e)}    \* a provider busy for ever
                ELSE CASE f = "PREPARE_START" -> queue_prepare_start_step(d, e, i)
                       [] f = "PREPARE_QUERY" -> queue_prepare_query_step(d, e, i)
                       [] f = "FINISH_START" -> queue_finish_start_step(d, e, i)
                       [] f = "FINISH_QUERY" -> queue_finish_query_step(d, e, i)
                       [] f = "RETIRE" -> queue_retire_step(d, e, i)

target_fault(d, i, outcome) ==
  target_record_sync([Faulted(d, i) EXCEPT !.cmd[i].txn.outcome = outcome, !.cmd[i].txn.pin = 0], i)
target_begin(d, i) ==
  target_record_sync([d EXCEPT !.cmd[i].txn = [NoTxn EXCEPT !.flow = "SUBMIT_START"],
                               !.obs[i].phase = "RESOLVE_WAIT"], i)
target_submit_step(d, e, i) ==
  {CASE r.a = "BACKPRESSURE" -> Out(d, r.e)
     [] r.a = "ACCEPTED" -> Out(target_record_sync(
          [d EXCEPT !.cmd[i].txn = [@ EXCEPT !.owned = TRUE, !.flow = "QUERY"]], i), r.e)
     [] OTHER -> Out(target_fault([d EXCEPT !.cmd[i].txn.owned = r.a = "WRONG_TOKEN"], i, "NONE"), r.e)
   : r \in submit(e, i)}
target_query_step(d, e, i) ==
  LET done(x, r) == target_record_sync(
        [x EXCEPT !.cmd[i].txn = [@ EXCEPT !.flow = "DONE", !.outcome = r.a.outcome,
                                    !.status = "SUCCESS", !.pin = r.a.uid],
                  !.obs[i].phase = "ACTION_WAIT", !.obs[i].success = TRUE], i)
      hit(r) == {j \in target_find_slot(d, i, r.a.uid) : d.cmd[j].incoming = 0}
      pin(x, j) == [x EXCEPT !.cmd[j].incoming = 1, !.obs[j].incoming = 1]
  IN {CASE r.a.outcome = "NOT_READY" -> Out(d, r.e)
        [] r.a.outcome = "FOUND" ->
             Out(IF hit(r) = {} THEN target_fault(d, i, "NONE")
                 ELSE done(pin(d, CHOOSE j \in hit(r) : TRUE), r), r.e)
        [] r.a.outcome \in {"NOT_FOUND", "TOO_LATE", "STALE", "SUPERSEDED"} -> Out(done(d, r), r.e)
        [] r.a.outcome = "FAULT" -> Out(target_fault(d, i, "FAULT"), r.e)
        [] OTHER -> Out(target_fault(d, i, "NONE"), r.e)
      : r \in target_query(e, i, d)}
target_record_step(d, e, i) ==
  LET f == d.cmd[i].txn.flow IN
  CASE f = "NONE" -> {Out(target_begin(d, i), e)}
    [] f = "SUBMIT_START" -> target_submit_step(d, e, i)
    [] f = "QUERY" -> target_query_step(d, e, i)

block_fault(d, i) ==
  block_record_sync([Faulted(d, i) EXCEPT !.cmd[i].txn.outcome = "NONE", !.obs[i].sat = {}], i)
block_rejected(d, i) ==
  block_record_sync([d EXCEPT !.cmd[i].txn = [@ EXCEPT !.flow = "REJECTED_NO_EFFECT",
                                                !.status = "RESOURCE_FAILURE", !.owned = FALSE],
                       !.obs[i] = [@ EXCEPT !.phase = "ACTION_WAIT", !.sat = {}, !.success = FALSE]], i)
block_begin(d, i) ==
  block_record_sync([d EXCEPT !.cmd[i].txn = [NoTxn EXCEPT !.flow = "SUBMIT_START"],
                              !.obs[i].phase = "RESOLVE_WAIT"], i)
block_submit_step(d, e, i) ==
  {CASE r.a = "BACKPRESSURE" -> Out(d, r.e)
     [] r.a = "REJECTED" -> Out(block_rejected(d, i), r.e)
     [] r.a = "ACCEPTED" -> Out(block_record_sync(
          [d EXCEPT !.cmd[i].txn = [@ EXCEPT !.owned = TRUE, !.flow = "QUERY"]], i), r.e)
     [] OTHER -> Out(block_fault([d EXCEPT !.cmd[i].txn.owned = r.a = "WRONG_TOKEN"], i), r.e)
   : r \in submit(e, i)}
block_query_step(d, e, i) ==
  {CASE r.a = "NOT_READY" -> Out(d, r.e)
     [] r.a \in {"VALIDATED_ONLY", "FAILED_NO_EFFECT"} ->
          LET good == r.a = "VALIDATED_ONLY" IN
          Out(block_record_sync(
            [d EXCEPT !.cmd[i].txn = [@ EXCEPT !.flow = "DONE", !.outcome = r.a,
                                        !.status = IF good THEN "SUCCESS" ELSE "MEDIA_FAILURE"],
                      !.obs[i] = [@ EXCEPT !.phase = "ACTION_WAIT", !.success = FALSE,
                                    !.sat = IF good THEN @ \cup {"VALIDATED"} ELSE @]], i), r.e)
     [] OTHER -> Out(block_fault(d, i), r.e)
   : r \in block_query(e, i)}
block_record_step(d, e, i) ==
  LET f == d.cmd[i].txn.flow IN
  CASE f = "NONE" -> {Out(block_begin(d, i), e)}
    [] f = "SUBMIT_START" -> block_submit_step(d, e, i)
    [] f = "QUERY" -> block_query_step(d, e, i)

\* The records whose *_record_step finds nothing to do.
idle(d, i) ==
  LET r == d.cmd[i] IN
  \/ r.state # "ADMITTED" \/ r.txn.flow \in {"DONE", "REJECTED_NO_EFFECT", "FAULT"}
  \/ /\ r.plan.kind \notin {"ABORT", "BLOCK"} /\ r.txn.flow = "NONE" /\ r.request.kind # "SET_NQ"
     /\ r.request.kind \notin QueueKinds \/ d.auth.owner # 0
record_step(d, e, i) ==
  CASE d.cmd[i].plan.kind = "ABORT" -> target_record_step(d, e, i)
    [] d.cmd[i].plan.kind = "BLOCK" -> block_record_step(d, e, i)
    [] OTHER -> queue_record_step(d, e, i)
\* The first record at or after the cursor with something to do is served.
serviced(d) ==
  LET at(n) == (d.next + n) % set.slots
      ready == {n \in 0 .. set.slots - 1 : ~idle(d, at(n))}
  IN IF ready = {} THEN {} ELSE {at(Min(ready))}
phase4_step(d, e) ==
  UNION {{[r EXCEPT !.d.next = (i + 1) % set.slots] : r \in record_step(d, e, i)} : i \in serviced(d)}

----------------------------------------------------------------------------
(* The client and the specification.                                        *)

existing_key(d, k) == {i \in DOMAIN d.cmd : d.cmd[i].state # "FREE" /\ d.cmd[i].key = k}
free_slots(d) == {i \in DOMAIN d.cmd : d.cmd[i].state = "FREE"}

prepare_start(d, k, o, class) ==
  IF existing_key(d, k) # {}
  THEN IF \A i \in existing_key(d, k) : d.cmd[i].origin = o /\ d.cmd[i].class = class
       THEN "IN_PROGRESS" ELSE "POISONED"
  ELSE IF \E i \in DOMAIN d.cmd : d.cmd[i].state # "FREE" /\ d.cmd[i].origin = o THEN "POISONED"
  ELSE IF free_slots(d) = {} THEN "BACKPRESSURE"
  ELSE IF /\ cursor_can_take(d.uid, set.max, 1)
          /\ cursor_can_take(d.action, set.amax, ActionsPerCommand) THEN "RESERVED"
  ELSE "COUNTER_EXHAUSTED"
reserve(d, k, o, class) ==
  LET i == Min(free_slots(d)) IN
  [d EXCEPT !.cmd[i] = [FreeRecord EXCEPT !.state = "PREPARED", !.key = k, !.origin = o,
                          !.class = class, !.uid = d.uid, !.action = d.action],
            !.obs[i] = [FreeObserver EXCEPT !.phase = "PREPARED", !.uid = d.uid, !.action = d.action],
            !.uid = cursor_take(@, set.max, 1),
            !.action = cursor_take(@, set.amax, ActionsPerCommand)]
admit_start(d, i, r) ==
  IF d.cmd[i].class # r.class THEN "POISONED"
  ELSE IF d.cmd[i].state = "ADMITTED"
    THEN IF d.cmd[i].request = r THEN "IN_PROGRESS" ELSE "POISONED"
  ELSE IF policy_plan_valid(policy_begin(r), r) THEN "COMMITTED" ELSE "POISONED"
admit(d, i, r) ==
  LET p == policy_begin(r) IN
  [d EXCEPT !.cmd[i] = [@ EXCEPT !.state = "ADMITTED", !.request = r, !.plan = p],
            !.obs[i] = [@ EXCEPT !.phase = "ADMITTED_POLICY", !.need = p.need, !.sat = {},
                          !.success = FALSE]]

Init ==
  /\ set \in Settings
  /\ dev = graph_init(set)
  /\ env = [act |-> [i \in 0 .. set.slots - 1 |-> NoAct], cq |-> 0, sq |-> 0, acq |-> 0, ref |-> 0,
            twice |-> FALSE, late |-> set.late, odd |-> set.odd, bad |-> set.bad,
            client |-> [k \in DOMAIN set.origins |-> "NEW"],
            want |-> [k \in DOMAIN set.origins |-> Request]]

\* The reply to a call may be lost, at the cost of one delay.
Told(k, state, unheard) ==
  \/ env' = [env EXCEPT !.client[k] = state]
  \/ env.late > 0 /\ env' = [env EXCEPT !.client[k] = unheard, !.late = @ - 1]

\* fwlab_c43_graph_prepare_start, for the next key of the client
Prepare ==
  \E k \in DOMAIN set.origins : \E r \in set.requests[k] :
    /\ env.client[k] = "NEW" /\ \A n \in DOMAIN set.origins : n < k => env.client[n] # "NEW"
    /\ LET answer == prepare_start(dev, k, set.origins[k], r.class)
           wanted == [env EXCEPT !.want[k] = r]
       IN \/ /\ answer = "RESERVED"
             /\ dev' = reserve(dev, k, set.origins[k], r.class)
             /\ \/ env' = [wanted EXCEPT !.client[k] = "PREPARED"]
                \/ env.late > 0 /\ env' = [wanted EXCEPT !.client[k] = "ASKED", !.late = @ - 1]
          \/ /\ answer \in {"POISONED", "COUNTER_EXHAUSTED", "BACKPRESSURE"}
             /\ dev' = dev /\ env' = [env EXCEPT !.client[k] = "REFUSED"]
    /\ UNCHANGED set

\* A lost reply: the call made again answers IN_PROGRESS and the query tells.
Requery ==
  \E k \in DOMAIN set.origins :
    /\ \/ /\ env.client[k] = "ASKED" /\ prepare_start(dev, k, set.origins[k], env.want[k].class) = "IN_PROGRESS"
          /\ env' = [env EXCEPT !.client[k] = "PREPARED"]
       \/ /\ env.client[k] = "SENT"
          /\ \E i \in existing_key(dev, k) : admit_start(dev, i, env.want[k]) = "IN_PROGRESS"
          /\ env' = [env EXCEPT !.client[k] = "ADMITTED"]
    /\ UNCHANGED <<set, dev>>

\* fwlab_c43_graph_admit_start
Admit ==
  \E k \in DOMAIN set.origins :
    /\ env.client[k] = "PREPARED"
    /\ \E i \in existing_key(dev, k) :
         /\ admit_start(dev, i, env.want[k]) = "COMMITTED"
         /\ dev' = admit(dev, i, env.want[k])
         /\ Told(k, "ADMITTED", "SENT")
    /\ UNCHANGED set

\* fwlab_c43_graph_step
Step ==
  /\ \E r \in phase4_step(dev, env) : dev' = r.d /\ env' = r.e
  /\ UNCHANGED set

\* Every operation is refused unless the graph is valid.
Next == graph_valid(dev) /\ (Prepare \/ Requery \/ Admit \/ Step)
Spec == Init /\ [][Next]_vars /\ WF_vars(Step)

----------------------------------------------------------------------------
(* Properties.                                                              *)

\* The graph's own validator accepts every state a call can leave behind, so
\* that no later call is refused as INVALID (c43_graph_valid at the head of
\* every operation), whatever the providers answer; and the policy makes a
\* valid plan of every well-formed request.
GraphSound ==
  /\ graph_valid(dev)
  /\ \A k \in DOMAIN set.origins : env.client[k] = "PREPARED" =>
       \E i \in existing_key(dev, k) : admit_start(dev, i, env.want[k]) = "COMMITTED"

Settled == {"DONE", "REJECTED_NO_EFFECT"}
\* The I/O queues the graph shows are the ones the provider has, except while
\* the owner of the one queue transaction has still to apply a known commit or
\* has faulted; a queue command may be completed with success only if the
\* provider has the effect, and is settled without it only if it has not; no
\* action is submitted twice; what the graph says the provider holds it holds.
EffectsTrue ==
  /\ ~env.twice
  /\ \/ <<dev.auth.cq, dev.auth.sq, dev.auth.acq>> = <<env.cq, env.sq, env.acq>>
     \/ dev.auth.owner # 0 /\ dev.cmd[dev.auth.owner - 1].txn.flow \in {"APPLY_COMMIT", "FAULT"}
  /\ \A i \in Slots :
       LET r == dev.cmd[i] IN
       /\ r.request.kind \in QueueKinds =>
            /\ dev.obs[i].success => env.act[i].effect
            /\ r.txn.flow \in Settled => env.act[i].effect = (r.txn.status = "SUCCESS")
            /\ r.txn.flow = "DONE" => env.act[i].stage = "RETIRED"
       /\ r.txn.owned => env.act[i].stage \notin {"NONE", "REJECTED", "RETIRED"}
       /\ r.plan.kind = "BLOCK" => ~dev.obs[i].success

LaneFaulted == dev.auth.owner # 0 /\ dev.cmd[dev.auth.owner - 1].txn.flow = "FAULT"
Pending(i) ==
  LET r == dev.cmd[i] IN
  /\ r.state = "ADMITTED" /\ r.txn.flow \notin Settled \cup {"FAULT"}
  /\ \/ r.plan.kind \in {"ABORT", "BLOCK"} \/ r.request.kind = "SET_NQ"
     \/ r.request.kind \in QueueKinds /\ ~LaneFaulted /\ ~set.stuck
\* Every admitted command with something to do is settled or faulted in the
\* end, though a provider stays busy with another one's for ever
\* (next_service_slot); a queue command may wait behind a faulted transaction.
Progress == (\E i \in Slots : Pending(i)) ~> ~(\E i \in Slots : Pending(i))
============================================================================
