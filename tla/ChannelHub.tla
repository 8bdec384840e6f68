----------------------------- MODULE ChannelHub -----------------------------
(***************************************************************************)
(* The WAVE4 channel hub and its actors: core/nfc-page-v2/nfc_channel_v2.c *)
(* and nfc_channel_v2_actor.c.  Requests take one of the credits, a closed *)
(* batch is sent to every channel as PREP, RUN and RETIRE jobs, and reset  *)
(* ends in CLOSE jobs and the shutdown of the executor.                    *)
(*                                                                         *)
(* One action is one step_one of the hub, one provider call, or one        *)
(* quantum of actor_job_step.  The executor is any that keeps the promise  *)
(* of JobExecutor; the cooperative one is the case in which quanta happen  *)
(* only while the hub polls.  The page model below an actor is external:   *)
(* it accepts or rejects, completes in any order and may fail.             *)
(***************************************************************************)
EXTENDS Naturals, FiniteSets, FiniteSetsExt

CONSTANTS
  Channels,      \* geometry.channels
  Credits,       \* FWLAB_NFC_CHANNEL_V2_CREDITS, 4
  Charges,       \* modelled time a request may take
  MaxRequests,   \* bound: requests submitted (operation_uid)
  Settings       \* the settings a behaviour may have, see set

ASSUME HubConstants ==
  /\ Credits \in Nat \ {0} /\ MaxRequests \in Nat
  /\ Charges \subseteq Nat /\ IsFiniteSet(Channels)
  /\ Settings \subseteq [limit : Nat, seq : Nat, requests : 0 .. MaxRequests,
                         rejects : BOOLEAN, faults : BOOLEAN]

Slots == 0 .. Credits - 1
Uids == 1 .. MaxRequests

VARIABLES
  set,      \* never changed: limit, timing.read.virtual_ns_limit
            \*   seq, UINT64_MAX, the last job sequence
            \*   requests, bound: how many are submitted
            \*   rejects, the page model may refuse an operation
            \*   faults, the page model or the executor may fail
  slot,     \* hub_slot, with the request it holds
  hub,      \* the scalar fields of the hub
  view,     \* hub_actor_view
  job,      \* fwlab_nfc_channel_job, with its reply
  actor,    \* fwlab_nfc_channel_actor, with the page model below it
  frame,    \* the result in each frame
  box,      \* the executor: where the job of a channel is
  ended,    \* the executor: shutdown has completed
  ran       \* history: how often each request was given to a page model

vars == <<set, slot, hub, view, job, actor, frame, box, ended, ran>>

Executor == INSTANCE JobExecutor

NoEntry == [uid |-> 0, charge |-> 0]
NoResult == [uid |-> 0, ok |-> FALSE]
FreeSlot == [state |-> "FREE", chan |-> 0, uid |-> 0, charge |-> 0]
NoReply == [seq |-> 0, batch |-> 0, command |-> "NONE", ok |-> TRUE,
            accepted |-> {}, completed |-> {}, lower |-> {}, reports |-> {},
            closed |-> FALSE, quiet |-> FALSE, quarantined |-> FALSE, clock |-> 0]
NoJob == [seq |-> 0, batch |-> 0, command |-> "NONE", mask |-> {}, floor |-> 0,
          entry |-> [i \in Slots |-> NoEntry], reply |-> NoReply]
NewActor == [current |-> FALSE, stage |-> 0, cursor |-> 0, seq |-> 0, batch |-> 0,
             active |-> FALSE, granted |-> {}, accepted |-> {}, completed |-> {},
             lower |-> {}, done |-> {}, reports |-> {}, closed |-> FALSE,
             quiet |-> FALSE, quarantined |-> FALSE, fault |-> FALSE, clock |-> 0,
             entry |-> [i \in Slots |-> NoEntry]]

\* fwlab_nfc_channel_v2_init_policy
Init ==
  /\ set \in Settings
  /\ slot = [i \in Slots |-> FreeSlot]
  /\ hub = [phase |-> "BUILD", closed |-> FALSE, quarantined |-> FALSE,
            poisoned |-> FALSE, batch |-> 0, command |-> "NONE", required |-> {},
            posted |-> {}, replied |-> {}, lost |-> {}, fault |-> FALSE, now |-> 0,
            last_uid |-> 0, shutdown_wait |-> FALSE, executor_done |-> FALSE]
  /\ view = [c \in Channels |-> [seq |-> 0, batch |-> {}, accepted |-> {}, lower |-> {},
                                 reports |-> {}, quiet |-> FALSE, clock |-> 0]]
  /\ job = [c \in Channels |-> NoJob]
  /\ actor = [c \in Channels |-> NewActor]
  /\ frame = [i \in Slots |-> NoResult]
  /\ Executor!Init
  /\ ran = [u \in Uids |-> 0]

In(states) == {i \in Slots : slot[i].state \in states}
occupied == Slots \ In({"FREE"})
On(c, S) == {i \in S : slot[i].chan = c}
Least(S, i) == i \in S /\ \A j \in S : i <= j

-----------------------------------------------------------------------------
(* The provider calls *)

\* The sequences of a whole batch and a close are kept free: PREP, RUN, one
\* RETIRE per credit, CLOSE.
Reserve == Credits + 3

charged(c) == FoldSet(LAMBDA i, t : t + slot[i].charge, 0, On(c, occupied))

\* Mutant: only the sequence of the next job is kept free.
submit_OneLeft(c, d) ==
  /\ hub.phase = "BUILD" /\ ~hub.closed /\ ~hub.quarantined /\ hub.last_uid < set.requests
  /\ occupied = {} => \A e \in Channels : view[e].seq + 1 <= set.seq
  /\ hub.now + charged(c) + d <= set.limit
  /\ \E i \in Slots :
       /\ Least(In({"FREE"}), i)
       /\ slot' = [slot EXCEPT ![i] = [state |-> "QUEUED", chan |-> c,
                                       uid |-> hub.last_uid + 1, charge |-> d]]
  /\ hub' = [hub EXCEPT !.last_uid = @ + 1]
  /\ UNCHANGED <<view, job, actor, frame, box, ended, ran>>

submit(c, d) ==
  /\ hub.phase = "BUILD" /\ ~hub.closed /\ ~hub.quarantined /\ hub.last_uid < set.requests
  /\ occupied = {} => \A e \in Channels : view[e].seq + Reserve <= set.seq
  /\ hub.now + charged(c) + d <= set.limit
  /\ \E i \in Slots :
       /\ Least(In({"FREE"}), i)
       /\ slot' = [slot EXCEPT ![i] = [state |-> "QUEUED", chan |-> c,
                                       uid |-> hub.last_uid + 1, charge |-> d]]
  /\ hub' = [hub EXCEPT !.last_uid = @ + 1]
  /\ UNCHANGED <<view, job, actor, frame, box, ended, ran>>

\* Mutant: a taken result frees its credit at once.
take_Free(i) ==
  /\ slot[i].state = "READY" /\ ~hub.poisoned
  /\ slot' = [slot EXCEPT ![i] = FreeSlot]
  /\ UNCHANGED <<hub, view, job, actor, frame, box, ended, ran>>

take(i) ==
  /\ slot[i].state = "READY" /\ ~hub.poisoned
  /\ slot' = [slot EXCEPT ![i].state = "ACK"]
  /\ UNCHANGED <<hub, view, job, actor, frame, box, ended, ran>>

reset ==
  /\ ~hub.closed
  /\ hub' = [hub EXCEPT !.closed = TRUE]
  /\ UNCHANGED <<slot, view, job, actor, frame, box, ended, ran>>

quiet ==
  /\ ~hub.poisoned /\ hub.closed /\ hub.phase = "CLOSED" /\ hub.executor_done
  /\ occupied = {}
  /\ \A c \in Channels : view[c].quiet /\ view[c].reports = {} /\ view[c].lower = {}

live_idle ==
  /\ hub.phase = "BUILD" /\ ~hub.closed /\ ~hub.quarantined /\ occupied = {}
  /\ \A c \in Channels : view[c].reports = {} /\ view[c].lower = {}

jobs_complete == hub.required \subseteq hub.replied \cup hub.lost

\* Mutant: a complete phase may be waited for.
external_wait_Complete ==
  /\ ~hub.poisoned /\ hub.lost = {} /\ In({"READY"}) = {}
  /\ hub.phase \in {"ADMIT", "RUN", "RETIRING", "CLOSING"} /\ hub.posted = hub.required

external_wait ==
  /\ ~hub.poisoned /\ hub.lost = {} /\ In({"READY"}) = {}
  /\ \/ hub.phase = "SHUTDOWN" /\ hub.shutdown_wait
     \/ /\ hub.phase \in {"ADMIT", "RUN", "RETIRING", "CLOSING"}
        /\ hub.posted = hub.required /\ ~jobs_complete

-----------------------------------------------------------------------------
(* step_one *)

Poisoned(h) == [h EXCEPT !.poisoned = TRUE, !.quarantined = TRUE]
Faulted(h, L) == [h EXCEPT !.fault = TRUE, !.quarantined = TRUE, !.lost = @ \cup L]

\* setup_jobs, and the phase it leads to; no sequence left is a poison
setup_jobs(h, command, M, mask, phase) ==
  IF \E c \in M : view[c].seq = set.seq
  THEN hub' = Poisoned(h) /\ UNCHANGED <<slot, view, job>>
  ELSE /\ hub' = [h EXCEPT !.command = command, !.required = M, !.posted = {},
                           !.replied = {}, !.phase = phase]
       /\ view' = [c \in Channels |-> IF c \in M THEN [view[c] EXCEPT !.seq = @ + 1] ELSE view[c]]
       /\ job' = [c \in Channels |->
            IF c \notin M THEN job[c]
            ELSE [seq |-> view[c].seq + 1, batch |-> h.batch, command |-> command,
                  mask |-> mask[c], floor |-> h.now, reply |-> NoReply,
                  entry |-> [i \in Slots |->
                     IF command = "PREP" /\ i \in mask[c]
                     THEN [uid |-> slot[i].uid, charge |-> slot[i].charge] ELSE NoEntry]]]
       /\ slot' = [i \in Slots |->
            IF command = "RETIRE" /\ slot[i].state = "ACK" /\ slot[i].chan \in M
            THEN [slot[i] EXCEPT !.state = "RETIRING"] ELSE slot[i]]

Still == UNCHANGED <<actor, frame, box, ended, ran>>

seal ==
  /\ ~hub.poisoned /\ hub.phase = "BUILD" /\ occupied # {}
  /\ hub' = [hub EXCEPT !.batch = slot[0].uid, !.phase = "FLOOR"]
  /\ view' = [c \in Channels |-> [view[c] EXCEPT !.batch = On(c, In({"QUEUED"}))]]
  /\ UNCHANGED <<slot, job>> /\ Still

close ==
  /\ ~hub.poisoned /\ hub.phase = "BUILD" /\ occupied = {} /\ hub.closed
  /\ setup_jobs(hub, "CLOSE", Channels, [c \in Channels |-> {}], "CLOSING")
  /\ Still

floor ==
  /\ ~hub.poisoned /\ hub.phase = "FLOOR"
  /\ setup_jobs(hub, "PREP", Channels, [c \in Channels |-> view[c].batch], "ADMIT")
  /\ Still

retire ==
  /\ ~hub.poisoned /\ hub.phase = "JOINED" /\ In({"ACK"}) # {}
  /\ setup_jobs(hub, "RETIRE", {slot[i].chan : i \in In({"ACK"})},
                [c \in Channels |-> On(c, In({"ACK"}))], "RETIRING")
  /\ Still

InJobs(phase) == ~hub.poisoned /\ hub.phase = phase

\* The whole phase is dispatched before anything is polled.
unposted == hub.required \ (hub.posted \cup hub.lost)

jobs_post(c) ==
  /\ \E p \in {"ADMIT", "RUN", "RETIRING", "CLOSING"} : InJobs(p)
  /\ ~jobs_complete /\ Least(unposted, c)
  /\ \/ Executor!Submit(c) /\ hub' = [hub EXCEPT !.posted = @ \cup {c}]
     \/ set.faults /\ hub' = Faulted(hub, {c}) /\ UNCHANGED <<box, ended>>
  /\ UNCHANGED <<slot, view, job, actor, frame, ran>>

(***************************************************************************)
(* import_reply: the reply must be the one to this job, stay inside the    *)
(* batch, and account for every slot as its command requires.              *)
(***************************************************************************)
reply_matches(c, r) ==
  /\ r.seq = view[c].seq /\ r.batch = hub.batch /\ r.command = hub.command
  /\ r.accepted \cup r.completed \cup r.lower \cup r.reports \subseteq view[c].batch

reply_accounts(c, r) ==
  CASE hub.command = "PREP" ->
         /\ r.accepted = r.lower /\ r.lower \cup r.completed = view[c].batch
         /\ r.lower \cap r.completed = {} /\ r.reports = r.completed
    [] hub.command = "RUN" ->
         /\ r.accepted = view[c].accepted /\ r.lower = {}
         /\ r.completed = view[c].batch /\ r.reports = view[c].batch
         /\ r.clock >= hub.now
         /\ \A i \in view[c].batch : frame[i].uid = slot[i].uid
    [] hub.command = "RETIRE" ->
         /\ r.lower = {} /\ r.accepted = view[c].accepted \ job[c].mask
         /\ r.completed = r.reports /\ r.reports = view[c].batch \ job[c].mask
         /\ \A i \in job[c].mask : slot[i].state = "RETIRING" /\ slot[i].chan = c
    [] hub.command = "CLOSE" ->
         r.closed /\ r.quiet /\ r.accepted \cup r.completed \cup r.lower \cup r.reports = {}

import_view(c, r) ==
  [view EXCEPT ![c] = [@ EXCEPT !.accepted = r.accepted, !.lower = r.lower,
                                !.reports = r.reports, !.quiet = r.quiet, !.clock = r.clock]]

import_reply(c, h, r) ==
  IF ~reply_matches(c, r) THEN hub' = Faulted(h, {}) /\ UNCHANGED <<slot, view>>
  ELSE IF ~r.ok \/ ~reply_accounts(c, r)
  THEN /\ hub' = Faulted(h, {})
       /\ view' = import_view(c, r)
       /\ UNCHANGED slot
  ELSE /\ hub' = [h EXCEPT !.quarantined = @ \/ r.quarantined]
       /\ view' = IF hub.command # "RETIRE" THEN import_view(c, r)
                  ELSE [import_view(c, r) EXCEPT ![c].batch = @ \ job[c].mask]
       /\ slot' = [i \in Slots |->
            CASE hub.command = "RUN" /\ i \in view[c].batch -> [slot[i] EXCEPT !.state = "REPORT"]
              [] hub.command = "RETIRE" /\ i \in job[c].mask -> FreeSlot
              [] OTHER -> slot[i]]

jobs_poll(c) ==
  /\ \E p \in {"ADMIT", "RUN", "RETIRING", "CLOSING"} : InJobs(p)
  /\ ~jobs_complete /\ unposted = {}
  /\ c \in hub.required \ (hub.replied \cup hub.lost)
  /\ \/ /\ Executor!Poll(c)
        /\ import_reply(c, [hub EXCEPT !.replied = @ \cup {c}], job[c].reply)
     \/ /\ box[c] = "BROKEN"
        /\ hub' = Faulted(hub, {c})
        /\ UNCHANGED <<slot, view, box, ended>>
  /\ UNCHANGED <<job, actor, frame, ran>>

admitted ==
  /\ InJobs("ADMIT") /\ jobs_complete
  /\ setup_jobs(hub, "RUN", Channels \ hub.lost, [c \in Channels |-> view[c].batch], "RUN")
  /\ Still

clocks == {view[c].clock : c \in Channels} \cup {hub.now}

joined ==
  /\ InJobs("RUN") /\ jobs_complete /\ ~hub.fault
  /\ hub' = [hub EXCEPT !.now = Max(clocks), !.phase = "JOINED"]
  /\ slot' = [i \in Slots |-> IF slot[i].state = "REPORT"
                              THEN [slot[i] EXCEPT !.state = "READY"] ELSE slot[i]]
  /\ UNCHANGED <<view, job>> /\ Still

\* Mutant: a batch that is wholly retired is not left.
retired_Joined ==
  /\ InJobs("RETIRING") /\ jobs_complete /\ ~hub.fault
  /\ hub' = [hub EXCEPT !.phase = "JOINED"]
  /\ UNCHANGED <<slot, view, job>> /\ Still

retired ==
  /\ InJobs("RETIRING") /\ jobs_complete /\ ~hub.fault
  /\ hub' = [hub EXCEPT !.phase = IF occupied = {} THEN "BUILD" ELSE "JOINED"]
  /\ UNCHANGED <<slot, view, job>> /\ Still

closing ==
  /\ InJobs("CLOSING") /\ jobs_complete /\ ~hub.fault
  /\ hub' = [hub EXCEPT !.phase = "SHUTDOWN"]
  /\ UNCHANGED <<slot, view, job>> /\ Still

\* A fault waits for the whole phase: the healthy siblings have replied.
poison ==
  /\ \E p \in {"RUN", "RETIRING", "CLOSING"} : InJobs(p)
  /\ jobs_complete /\ hub.fault
  /\ hub' = Poisoned(hub)
  /\ UNCHANGED <<slot, view, job>> /\ Still

\* ops->shutdown: pending, complete, or refused
shutdown ==
  /\ InJobs("SHUTDOWN")
  /\ \/ /\ \E w \in BOOLEAN : hub' = [hub EXCEPT !.shutdown_wait = w]
        /\ UNCHANGED <<box, ended>>
     \/ /\ Executor!Shutdown
        /\ hub' = [hub EXCEPT !.shutdown_wait = FALSE, !.executor_done = TRUE, !.phase = "CLOSED"]
     \/ /\ set.faults
        /\ hub' = Poisoned(hub)
        /\ UNCHANGED <<box, ended>>
  /\ UNCHANGED <<slot, view, job, actor, frame, ran>>

step_one ==
  \/ seal \/ close \/ floor \/ retire
  \/ \E c \in Channels : jobs_post(c) \/ jobs_poll(c)
  \/ admitted \/ joined \/ retired \/ closing \/ poison \/ shutdown

-----------------------------------------------------------------------------
(* actor_job_step: one quantum of the job channel c has *)

\* finish: what the actor holds goes into the reply.
finish(c, a, ok) ==
  /\ actor' = [actor EXCEPT ![c] = [a EXCEPT !.current = FALSE]]
  /\ job' = [job EXCEPT ![c].reply =
       [seq |-> job[c].seq, batch |-> job[c].batch, command |-> job[c].command, ok |-> ok,
        accepted |-> a.accepted, completed |-> a.completed, lower |-> a.lower,
        reports |-> a.reports, closed |-> a.closed, quiet |-> a.quiet,
        quarantined |-> a.quarantined, clock |-> a.clock]]
  /\ Executor!Finish(c)

broken(c, a) == finish(c, [a EXCEPT !.fault = TRUE, !.quarantined = TRUE], FALSE)
go(c, a) == actor' = [actor EXCEPT ![c] = a] /\ UNCHANGED <<job, box, ended>>

\* Every request of a channel comes after the ones in lower slots.
in_order(j) == \A i, k \in j.mask : i < k => j.entry[i].uid < j.entry[k].uid

begin_allows(a, j) ==
  /\ j.seq = a.seq + 1
  /\ CASE j.command = "PREP" ->
            ~a.active /\ ~a.closed /\ a.granted \cup a.lower \cup a.reports = {} /\ in_order(j)
       [] j.command = "RUN" -> a.active /\ j.batch = a.batch /\ j.mask = a.granted
       [] j.command = "RETIRE" ->
            a.active /\ j.batch = a.batch /\ j.mask # {} /\ j.mask \subseteq a.reports \ a.lower
       [] j.command = "CLOSE" ->
            ~a.active /\ a.granted \cup a.lower \cup a.reports \cup j.mask = {}

begin(c) ==
  /\ ~actor[c].current
  /\ LET j == job[c]
         a == [actor[c] EXCEPT !.seq = IF j.seq = @ + 1 THEN j.seq ELSE @, !.current = TRUE, !.stage = 0, !.cursor = 0]
     IN  IF ~begin_allows(actor[c], j) THEN broken(c, a)
         ELSE IF j.command = "PREP"
         THEN go(c, [a EXCEPT !.entry = j.entry, !.granted = j.mask, !.accepted = {},
                              !.completed = {}, !.batch = j.batch, !.active = TRUE])
         ELSE go(c, a)
  /\ UNCHANGED <<frame, ran>>

Runs(c, command) == actor[c].current /\ job[c].command = command

prep_floor(c) ==
  /\ Runs(c, "PREP") /\ actor[c].stage = 0
  /\ \/ /\ actor[c].clock <= job[c].floor /\ job[c].floor <= set.limit
        /\ go(c, [actor[c] EXCEPT !.stage = 1, !.clock = job[c].floor])
     \/ /\ set.faults \/ actor[c].clock > job[c].floor \/ job[c].floor > set.limit
        /\ broken(c, actor[c])
  /\ UNCHANGED <<frame, ran>>

left(c, S) == {i \in S : i >= actor[c].cursor}

prep_submit(c) ==
  /\ Runs(c, "PREP") /\ actor[c].stage = 1
  /\ \E i \in Slots :
       /\ Least(left(c, actor[c].granted), i)
       /\ LET a == [actor[c] EXCEPT !.cursor = i + 1]
              u == a.entry[i].uid
          IN  \/ /\ go(c, [a EXCEPT !.accepted = @ \cup {i}, !.lower = @ \cup {i}])
                 /\ ran' = [ran EXCEPT ![u] = @ + 1]
                 /\ UNCHANGED frame
              \/ /\ set.rejects
                 /\ go(c, [a EXCEPT !.completed = @ \cup {i}, !.reports = @ \cup {i},
                                    !.quarantined = TRUE])
                 /\ frame' = [frame EXCEPT ![i] = [uid |-> u, ok |-> FALSE]]
                 /\ UNCHANGED ran
              \/ /\ set.faults /\ broken(c, a)
                 /\ UNCHANGED <<frame, ran>>

prep_finish(c) ==
  /\ Runs(c, "PREP") /\ actor[c].stage = 1 /\ left(c, actor[c].granted) = {}
  /\ finish(c, actor[c], TRUE)
  /\ UNCHANGED <<frame, ran>>

finished(a) == a.lower \cap a.done

run_take(c) ==
  /\ Runs(c, "RUN")
  /\ \E i \in Slots :
       /\ Least(finished(actor[c]), i)
       /\ LET a == [actor[c] EXCEPT !.lower = @ \ {i}, !.done = @ \ {i},
                                    !.completed = @ \cup {i}, !.reports = @ \cup {i}]
          IN  \/ \E ok \in BOOLEAN :
                   /\ go(c, a)
                   /\ frame' = [frame EXCEPT ![i] = [uid |-> a.entry[i].uid, ok |-> ok]]
              \/ set.faults /\ broken(c, a) /\ frame' = [frame EXCEPT ![i] = NoResult]
  /\ UNCHANGED ran

run_step(c) ==
  /\ Runs(c, "RUN") /\ finished(actor[c]) = {} /\ actor[c].lower # {}
  /\ \/ \E i \in actor[c].lower :
          go(c, [actor[c] EXCEPT !.done = @ \cup {i}, !.clock = @ + actor[c].entry[i].charge])
     \/ set.faults /\ broken(c, actor[c])
  /\ UNCHANGED <<frame, ran>>

Quieted(a) == [a EXCEPT !.active = @ /\ a.granted # {}]

run_finish(c) ==
  /\ Runs(c, "RUN") /\ actor[c].lower = {}
  /\ finish(c, Quieted(actor[c]), ~actor[c].fault)
  /\ UNCHANGED <<frame, ran>>

retire_one(c) ==
  /\ Runs(c, "RETIRE")
  /\ \E i \in Slots :
       /\ Least(left(c, job[c].mask), i)
       /\ go(c, [actor[c] EXCEPT !.cursor = i + 1, !.granted = @ \ {i}, !.reports = @ \ {i},
                                 !.accepted = @ \ {i}, !.completed = @ \ {i},
                                 !.entry[i] = NoEntry])
  /\ UNCHANGED <<frame, ran>>

retire_finish(c) ==
  /\ Runs(c, "RETIRE") /\ left(c, job[c].mask) = {}
  /\ finish(c, Quieted(actor[c]), TRUE)
  /\ UNCHANGED <<frame, ran>>

close_reset(c) ==
  /\ Runs(c, "CLOSE") /\ ~actor[c].closed
  /\ \/ go(c, [actor[c] EXCEPT !.closed = TRUE])
     \/ set.faults /\ broken(c, actor[c])
  /\ UNCHANGED <<frame, ran>>

close_quiet(c) ==
  /\ Runs(c, "CLOSE") /\ actor[c].closed
  /\ \/ finish(c, [actor[c] EXCEPT !.quiet = TRUE], TRUE)
     \/ set.faults /\ broken(c, actor[c])
  /\ UNCHANGED <<frame, ran>>

Quantum(c) ==
  /\ box[c] = "POSTED"
  /\ \/ begin(c) \/ prep_floor(c) \/ prep_submit(c) \/ prep_finish(c)
     \/ run_take(c) \/ run_step(c) \/ run_finish(c)
     \/ retire_one(c) \/ retire_finish(c) \/ close_reset(c) \/ close_quiet(c)
  /\ UNCHANGED <<slot, hub, view>>

\* A worker found no progress in the job, or its thread is lost.
Lose(c) ==
  /\ set.faults /\ Executor!Break(c)
  /\ UNCHANGED <<slot, hub, view, job, actor, frame, ran>>

Stopped == (hub.phase = "CLOSED" \/ hub.poisoned) /\ UNCHANGED vars

Next ==
  /\ UNCHANGED set
  /\ \/ \E c \in Channels, d \in Charges : submit(c, d)
     \/ \E i \in Slots : take(i)
     \/ reset
     \/ step_one
     \/ \E c \in Channels : Quantum(c) \/ Lose(c)
     \/ Stopped

Spec == Init /\ [][Next]_vars

(***************************************************************************)
(* The coordinator keeps stepping, executors and page models make          *)
(* progress, and the owner takes the results it is offered.  Stated for    *)
(* page models that neither refuse nor fail.                               *)
(***************************************************************************)
Smooth == ~set.faults /\ ~set.rejects
Going == Smooth /\ UNCHANGED set

Fairness ==
  /\ WF_vars(Going /\ step_one)
  /\ SF_vars(Going /\ InJobs("SHUTDOWN") /\ Executor!Shutdown /\ shutdown)
  /\ \A c \in Channels : WF_vars(Going /\ Quantum(c))
  /\ \A i \in Slots : WF_vars(Going /\ take(i))

FairSpec == Spec /\ Fairness

-----------------------------------------------------------------------------
(* Properties *)

SlotStates == {"FREE", "QUEUED", "REPORT", "READY", "ACK", "RETIRING"}
Phases == {"BUILD", "FLOOR", "ADMIT", "RUN", "JOINED", "RETIRING", "CLOSING", "SHUTDOWN", "CLOSED"}

TypeOK ==
  /\ set \in Settings
  /\ \A i \in Slots : slot[i].state \in SlotStates /\ slot[i].uid \in 0 .. MaxRequests
  /\ hub.phase \in Phases /\ hub.last_uid \in 0 .. MaxRequests
  /\ hub.required \cup hub.lost \subseteq Channels
  /\ hub.replied \subseteq hub.posted /\ hub.posted \subseteq hub.required
  /\ \A c \in Channels : view[c].seq \in 0 .. set.seq /\ view[c].batch \subseteq Slots
  /\ box \in [Channels -> Executor!Boxes] /\ ended \in BOOLEAN

\* While nothing below the hub fails, no reply is refused, no sequence runs
\* out and the hub is never poisoned (import_reply, setup_jobs, submit).
HealthyNeverPoisoned == ~set.faults => ~hub.fault /\ ~hub.poisoned

\* A credit is free only when the actor has let go of it: what an actor was
\* granted is the request that still occupies the slot (RETIRE_ACK).
CreditHeldByActor ==
  \A c \in Channels : \A i \in actor[c].granted :
    slot[i].state # "FREE" /\ slot[i].chan = c /\ slot[i].uid = actor[c].entry[i].uid

\* A result offered to the owner is the result of its own request, and a
\* success was produced by the one execution of that request.
ReadyIsOwnResult ==
  \A i \in In({"READY", "ACK"}) :
    frame[i].uid = slot[i].uid /\ (frame[i].ok => ran[slot[i].uid] = 1)

\* No request is given to a page model twice.
AtMostOnce == \A u \in Uids : ran[u] <= 1

\* Modelled time stays within the limit the page models enforce (the charge
\* of submit), and a committed JOIN is not before any actor's clock.
TimeBounded ==
  /\ hub.now <= set.limit /\ \A c \in Channels : actor[c].clock <= set.limit
  /\ hub.phase \in {"BUILD", "JOINED"} => \A c \in Channels : view[c].clock <= hub.now

\* Every PREP reply precedes every RUN dispatch: no actor runs its batch
\* while another is still admitting (ADR-0022), a channel given up for lost
\* excepted.
PrepBeforeRun ==
  \A c, d \in Channels \ hub.lost :
    box[c] # "EMPTY" /\ box[d] # "EMPTY" => job[c].command = job[d].command

\* When a fault ends in poison, the channels that did not fail have drained:
\* their job is back and no page model below them still owns an operation
\* (step_one: a fault is acted on at the end of the phase).
SiblingsDrained ==
  hub.poisoned =>
    \A c \in Channels \ hub.lost :
      ~actor[c].fault => actor[c].lower = {} /\ box[c] = "EMPTY"

\* The hub allows an external wait only while an executor has something of
\* the phase to answer, so a sleeping coordinator is always woken.
WaitHasWaker ==
  external_wait /\ hub.phase # "SHUTDOWN" => \E c \in hub.required \ hub.replied : box[c] # "EMPTY"

\* quiet and live_idle are certificates: nothing is posted and no actor or
\* page model holds anything of a request.
CertifiedIdle ==
  quiet \/ live_idle =>
    \A c \in Channels : box[c] = "EMPTY" /\ actor[c].granted \cup actor[c].lower \cup actor[c].reports = {}

\* Every accepted request is offered its result.
AcceptedDelivered ==
  Smooth => \A i \in Slots : slot[i].state = "QUEUED" ~> slot[i].state = "READY"

\* A reset ends with the executor shut down and the hub quiet.
ResetCloses == Smooth => (hub.closed ~> quiet)

\* A request has one credit, one execution and its own result, phases do not
\* overlap and the modelled clocks agree with them (see each part).
OneResultEach == TypeOK /\ CreditHeldByActor /\ ReadyIsOwnResult /\ AtMostOnce /\ PrepBeforeRun /\ TimeBounded

\* What the hub certifies is so: drained siblings after a fault, idleness, and
\* a waker for every external wait (see each part).
Certified == SiblingsDrained /\ CertifiedIdle /\ WaitHasWaker

\* Accepted requests are delivered and a reset closes (see each part).
Progress == AcceptedDelivered /\ ResetCloses
============================================================================
