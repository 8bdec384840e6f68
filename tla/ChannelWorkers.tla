--------------------------- MODULE ChannelWorkers ---------------------------
(***************************************************************************)
(* The Linux job executor, frontends/headless-scale/nfc_channel_workers.c: *)
(* one or four worker threads, a mailbox per channel, a mutex and a        *)
(* condition per worker, and one eventfd doorbell for the coordinator.     *)
(*                                                                         *)
(* A step is the code between two synchronisation points.  The coordinator *)
(* is serialised: co.pc says which call it is in and where.                *)
(***************************************************************************)
EXTENDS Naturals, FiniteSets

CONSTANTS
  C,            \* config.channels
  CursorSpan,   \* 2^32, the range of worker.cursor
  Settings      \* the settings a behaviour may have, see set

ASSUME WorkerConstants ==
  /\ C \in 1 .. 4
  /\ CursorSpan \in Nat \ {0}
  /\ Settings \subseteq [workers : {1, C}, blocking : BOOLEAN, faults : BOOLEAN, jobs : Nat]

VARIABLES
  set,        \* never changed: workers, config.workers
              \*   blocking, the caller uses create and shutdown_workers
              \*   faults, pthread_create, startup, actor, eventfd or join may fail
              \*   jobs, bound: how many the coordinator submits
  mailbox,    \* mailbox[c].state
  worker,     \* worker[i], with the program counter of its thread
  mutex,      \* worker[i].mutex: "free", or held by the thread over steps
  waiters,    \* worker[i].condition: who waits and was not signalled
  event,      \* completion_fd has a count
  rt,         \* the scalar fields of the runtime
  co          \* the coordinator's call

Channels == 0 .. C - 1
Threads == 0 .. set.workers - 1

vars == <<set, mailbox, worker, mutex, waiters, event, rt, co>>

States == {"EMPTY", "QUEUED", "RUNNING", "REPLIED", "BROKEN"}

owner(c) == IF set.workers = 1 THEN 0 ELSE c
mine(i) == {c \in Channels : owner(c) = i}

NewWorker == [pc |-> "none", chan |-> 0, cursor |-> 0, stop |-> FALSE,
              startup_done |-> FALSE, startup_error |-> FALSE,
              collected |-> FALSE, exited |-> FALSE, error |-> FALSE,
              joined |-> FALSE]

Idle == [pc |-> "idle", arg |-> 0]

\* fwlab_nfc_channel_workers_prepare
Init ==
  /\ set \in Settings
  /\ mailbox = [c \in Channels |-> "EMPTY"]
  /\ worker = [i \in Threads |-> NewWorker]
  /\ mutex = [i \in Threads |-> "free"]
  /\ waiters = [i \in Threads |-> {}]
  /\ event = FALSE
  /\ rt = [live |-> TRUE, created |-> 0, joined |-> 0, acks |-> 0,
           start_ok |-> TRUE, published |-> FALSE, stopping |-> FALSE,
           failed |-> FALSE, join_wait |-> FALSE, join_failed |-> FALSE,
           submitted |-> 0]
  /\ co = Idle

Created == {i \in Threads : i < rt.created}
workers_failed == rt.failed \/ ~rt.start_ok \/ \E i \in Created : worker[i].error
occupied == \E c \in Channels : mailbox[c] # "EMPTY"
visible(c) == mailbox[c] \in {"REPLIED", "BROKEN"}

-----------------------------------------------------------------------------
(* worker_main *)

\* pthread_cond_signal wakes one of the waiters, if there is one.
Signal(i) ==
  \/ waiters[i] = {} /\ UNCHANGED waiters
  \/ \E t \in waiters[i] : waiters' = [waiters EXCEPT ![i] = @ \ {t}]

At(i, pc) == worker[i].pc = pc
Go(i, pc) == worker' = [worker EXCEPT ![i].pc = pc]

\* notify_worker: the doorbell counts, or the write fails.
notify_worker(i, w) ==
  \/ /\ event' = TRUE
     /\ worker' = [worker EXCEPT ![i] = w]
  \/ /\ set.faults
     /\ UNCHANGED event
     /\ worker' = [worker EXCEPT ![i] = [w EXCEPT !.error = TRUE]]

worker_start(i) ==
  /\ At(i, "start") /\ mutex[i] = "free"
  /\ mutex' = [mutex EXCEPT ![i] = "worker"]
  /\ Signal(i)
  /\ \E e \in (IF set.faults THEN BOOLEAN ELSE {FALSE}) :
       notify_worker(i, [worker[i] EXCEPT !.startup_done = TRUE,
                                          !.startup_error = e, !.pc = "loop"])
  /\ UNCHANGED <<mailbox, rt, co>>

\* queued: the channels the scan visits, from the cursor on, and where the
\* cursor is after n of them.
visit(i, n) == ((worker[i].cursor + n) % CursorSpan) % C
hit(i, n) == visit(i, n) \in mine(i) /\ mailbox[visit(i, n)] = "QUEUED"
hits(i) == {n \in Channels : hit(i, n)}

\* The loop of worker_main, under the mutex: stop, take a job, or wait.
worker_stop(i) ==
  /\ At(i, "loop") /\ worker[i].stop
  /\ worker' = [worker EXCEPT ![i].exited = TRUE, ![i].pc = "exit"]
  /\ mutex' = [mutex EXCEPT ![i] = "free"]
  /\ UNCHANGED <<mailbox, waiters, event, rt, co>>

worker_take(i) ==
  /\ At(i, "loop") /\ ~worker[i].stop /\ ~worker[i].startup_error
  /\ \E n \in hits(i) :
       /\ \A m \in hits(i) : n <= m
       /\ worker' = [worker EXCEPT ![i].pc = "execute", ![i].chan = visit(i, n),
                                   ![i].cursor = (@ + n + 1) % CursorSpan]
  /\ mutex' = [mutex EXCEPT ![i] = "free"]
  /\ UNCHANGED <<mailbox, waiters, event, rt, co>>

\* queued found nothing: the thread still holds the mutex
worker_idle(i) ==
  /\ At(i, "loop") /\ ~worker[i].stop
  /\ worker[i].startup_error \/ hits(i) = {}
  /\ worker' = [worker EXCEPT ![i].pc = "empty",
                              ![i].cursor = IF worker[i].startup_error THEN @
                                            ELSE (@ + C) % CursorSpan]
  /\ UNCHANGED <<mailbox, mutex, waiters, event, rt, co>>

\* pthread_cond_wait gives up the mutex and joins the waiters in one step
worker_wait(i) ==
  /\ At(i, "empty")
  /\ Go(i, "wait")
  /\ waiters' = [waiters EXCEPT ![i] = @ \cup {"worker"}]
  /\ mutex' = [mutex EXCEPT ![i] = "free"]
  /\ UNCHANGED <<mailbox, event, rt, co>>

\* pthread_cond_wait returns with the mutex
worker_wake(i) ==
  /\ At(i, "wait") /\ "worker" \notin waiters[i] /\ mutex[i] = "free"
  /\ mutex' = [mutex EXCEPT ![i] = "worker"]
  /\ Go(i, "loop")
  /\ UNCHANGED <<mailbox, waiters, event, rt, co>>

\* execute: claim, run the actor's quanta, publish, ring.
execute_begin(i) ==
  /\ At(i, "execute")
  /\ mailbox' = [mailbox EXCEPT ![worker[i].chan] = "RUNNING"]
  /\ Go(i, "running")
  /\ UNCHANGED <<mutex, waiters, event, rt, co>>

execute_end(i) ==
  /\ At(i, "running")
  /\ \/ /\ mailbox' = [mailbox EXCEPT ![worker[i].chan] = "REPLIED"]
        /\ Go(i, "notify")
     \/ /\ set.faults
        /\ mailbox' = [mailbox EXCEPT ![worker[i].chan] = "BROKEN"]
        /\ worker' = [worker EXCEPT ![i].error = TRUE, ![i].pc = "notify"]
  /\ UNCHANGED <<mutex, waiters, event, rt, co>>

execute_notify(i) ==
  /\ At(i, "notify")
  /\ notify_worker(i, [worker[i] EXCEPT !.pc = "relock"])
  /\ UNCHANGED <<mailbox, mutex, waiters, rt, co>>

worker_relock(i) ==
  /\ At(i, "relock") /\ mutex[i] = "free"
  /\ mutex' = [mutex EXCEPT ![i] = "worker"]
  /\ Go(i, "loop")
  /\ UNCHANGED <<mailbox, waiters, event, rt, co>>

worker_exit(i) ==
  /\ At(i, "exit")
  /\ notify_worker(i, [worker[i] EXCEPT !.pc = "return"])
  /\ UNCHANGED <<mailbox, mutex, waiters, rt, co>>

worker_return(i) ==
  /\ At(i, "return")
  /\ Go(i, "done")
  /\ UNCHANGED <<mailbox, mutex, waiters, event, rt, co>>

Worker(i) ==
  \/ worker_start(i) \/ worker_stop(i) \/ worker_take(i) \/ worker_idle(i)
  \/ worker_wait(i) \/ worker_wake(i) \/ execute_begin(i) \/ execute_end(i)
  \/ execute_notify(i) \/ worker_relock(i) \/ worker_exit(i) \/ worker_return(i)

\* pthread_cond_wait may also return without a signal.
Spurious(i) ==
  /\ \E t \in waiters[i] : waiters' = [waiters EXCEPT ![i] = @ \ {t}]
  /\ UNCHANGED <<mailbox, worker, mutex, event, rt, co>>

-----------------------------------------------------------------------------
(* Startup: start_step, and the wait of create for an acknowledgement *)

Call(pc) == co.pc = pc /\ rt.live
Return == co' = Idle
To(pc, k) == co' = [co EXCEPT !.pc = pc, !.arg = k]

uncollected == {i \in Created : ~worker[i].collected}
starting == ~rt.stopping /\ ~workers_failed /\ ~rt.published

start_create ==
  /\ Call("idle") /\ starting /\ rt.created < set.workers
  /\ \/ /\ rt' = [rt EXCEPT !.created = @ + 1]
        /\ Go(rt.created, "start")
     \/ /\ set.faults
        /\ rt' = [rt EXCEPT !.start_ok = FALSE]
        /\ UNCHANGED worker
  /\ UNCHANGED <<mailbox, mutex, waiters, event, co>>

\* Mutant: an acknowledgement is collected but not counted.
start_collect_Uncounted(i) ==
  /\ Call("idle") /\ starting /\ rt.created = set.workers
  /\ i \in uncollected /\ mutex[i] = "free" /\ worker[i].startup_done
  /\ worker' = [worker EXCEPT ![i].collected = TRUE]
  /\ rt' = [rt EXCEPT !.published = rt.acks = set.workers]
  /\ UNCHANGED <<mailbox, mutex, waiters, event, co>>

start_collect(i) ==
  /\ Call("idle") /\ starting /\ rt.created = set.workers
  /\ i \in uncollected /\ mutex[i] = "free" /\ worker[i].startup_done
  /\ worker' = [worker EXCEPT ![i].collected = TRUE]
  /\ rt' = [rt EXCEPT !.acks = @ + 1,
                      !.start_ok = ~worker[i].startup_error,
                      !.published = ~worker[i].startup_error /\ rt.acks + 1 = set.workers]
  /\ UNCHANGED <<mailbox, mutex, waiters, event, co>>

create_await ==
  /\ set.blocking /\ Call("idle") /\ starting /\ rt.created = set.workers
  /\ \A i \in uncollected : mutex[i] # "free" \/ ~worker[i].startup_done
  /\ \E i \in uncollected :
       /\ \A j \in uncollected : i <= j
       /\ To("await", i)
  /\ UNCHANGED <<mailbox, worker, mutex, waiters, event, rt>>

\* Takes the mutex, looks at startup_done, and waits or leaves.
create_look ==
  /\ Call("await") /\ mutex[co.arg] = "free" /\ "coord" \notin waiters[co.arg]
  /\ IF worker[co.arg].startup_done
     THEN Return /\ UNCHANGED waiters
     ELSE /\ waiters' = [waiters EXCEPT ![co.arg] = @ \cup {"coord"}]
          /\ UNCHANGED co
  /\ UNCHANGED <<mailbox, worker, mutex, event, rt>>

-----------------------------------------------------------------------------
(* The executor: submit, poll_job, shutdown_common *)

\* Mutant: a mailbox that is in use takes a second job.
submit_check_Occupied(c) ==
  /\ Call("idle") /\ rt.published /\ ~rt.stopping /\ rt.submitted < set.jobs
  /\ To("submit", c)
  /\ UNCHANGED <<mailbox, worker, mutex, waiters, event, rt>>

submit_check(c) ==
  /\ Call("idle") /\ rt.published /\ ~rt.stopping /\ ~workers_failed
  /\ mailbox[c] = "EMPTY" /\ rt.submitted < set.jobs
  /\ To("submit", c)
  /\ UNCHANGED <<mailbox, worker, mutex, waiters, event, rt>>

submit_post ==
  /\ Call("submit") /\ mutex[owner(co.arg)] = "free"
  /\ mailbox' = [mailbox EXCEPT ![co.arg] = "QUEUED"]
  /\ Signal(owner(co.arg))
  /\ rt' = [rt EXCEPT !.submitted = @ + 1]
  /\ Return
  /\ UNCHANGED <<worker, mutex, event>>

\* Mutant: a job that is still running is handed back.
poll_job_Early(c) ==
  /\ Call("idle") /\ mailbox[c] \in {"RUNNING", "REPLIED"}
  /\ mailbox' = [mailbox EXCEPT ![c] = "EMPTY"]
  /\ UNCHANGED <<worker, mutex, waiters, event, rt, co>>

poll_job(c) ==
  /\ Call("idle") /\ mailbox[c] = "REPLIED"
  /\ mailbox' = [mailbox EXCEPT ![c] = "EMPTY"]
  /\ UNCHANGED <<worker, mutex, waiters, event, rt, co>>

shutdown_call ==
  /\ Call("idle") /\ ~occupied /\ ~rt.join_failed
  /\ rt' = [rt EXCEPT !.stopping = TRUE]
  /\ To(IF rt.stopping THEN "join" ELSE "stop", 0)
  /\ UNCHANGED <<mailbox, worker, mutex, waiters, event>>

shutdown_stop ==
  /\ Call("stop")
  /\ IF co.arg < rt.created
     THEN /\ mutex[co.arg] = "free"
          /\ worker' = [worker EXCEPT ![co.arg].stop = TRUE]
          /\ Signal(co.arg)
          /\ To("stop", co.arg + 1)
     ELSE To("join", 0) /\ UNCHANGED <<worker, waiters>>
  /\ UNCHANGED <<mailbox, mutex, event, rt>>

unjoined == {i \in Created : ~worker[i].joined}

shutdown_join ==
  /\ Call("join")
  /\ \/ /\ unjoined = {}
        /\ rt' = [rt EXCEPT !.join_wait = FALSE]
        /\ UNCHANGED worker
     \/ \E i \in unjoined :
          /\ \A j \in unjoined : i <= j
          /\ \/ /\ At(i, "done")
                /\ worker' = [worker EXCEPT ![i].joined = TRUE]
                /\ rt' = [rt EXCEPT !.joined = @ + 1, !.join_wait = FALSE]
             \/ /\ ~At(i, "done") /\ ~set.blocking
                /\ rt' = [rt EXCEPT !.join_wait = TRUE]
                /\ UNCHANGED worker
             \/ /\ set.faults
                /\ rt' = [rt EXCEPT !.failed = TRUE, !.join_failed = TRUE,
                                    !.join_wait = FALSE]
                /\ UNCHANGED worker
  /\ Return
  /\ UNCHANGED <<mailbox, mutex, waiters, event>>

destroy ==
  /\ Call("idle") /\ rt.created = rt.joined /\ ~occupied
  /\ rt' = [rt EXCEPT !.live = FALSE]
  /\ UNCHANGED <<mailbox, worker, mutex, waiters, event, co>>

-----------------------------------------------------------------------------
(* fwlab_nfc_channel_workers_wait: drain, look again, then poll *)

wait_call ==
  /\ Call("idle") /\ rt.published
  /\ To("drain", 0)
  /\ UNCHANGED <<mailbox, worker, mutex, waiters, event, rt>>

\* Mutant: poll follows the drain at once.
wait_drain_Sleep ==
  /\ Call("drain")
  /\ event' = FALSE
  /\ IF event THEN UNCHANGED co
     ELSE IF workers_failed \/ rt.stopping \/ ~occupied THEN Return ELSE To("sleep", 0)
  /\ UNCHANGED <<mailbox, worker, mutex, waiters, rt>>

wait_drain ==
  /\ Call("drain")
  /\ event' = FALSE
  /\ IF event THEN UNCHANGED co
     ELSE IF workers_failed THEN Return ELSE To("look", 0)
  /\ UNCHANGED <<mailbox, worker, mutex, waiters, rt>>

\* visible_reply, one mailbox a step; then stopping and occupied
wait_look ==
  /\ Call("look")
  /\ IF co.arg < C
     THEN IF visible(co.arg) THEN Return ELSE To("look", co.arg + 1)
     ELSE IF rt.stopping \/ ~occupied THEN Return ELSE To("sleep", 0)
  /\ UNCHANGED <<mailbox, worker, mutex, waiters, event, rt>>

wait_poll ==
  /\ Call("sleep") /\ event
  /\ Return
  /\ UNCHANGED <<mailbox, worker, mutex, waiters, event, rt>>

wait_timeout ==
  /\ Call("sleep") /\ ~event
  /\ Return
  /\ UNCHANGED <<mailbox, worker, mutex, waiters, event, rt>>

-----------------------------------------------------------------------------
(* fwlab_nfc_channel_workers_lifecycle_wait: pending, read, pending, poll.  *)
(* lifecycle_pending tries the mutexes one after the other.                *)

stop_pending == rt.join_wait /\ rt.joined < rt.created /\ ~occupied
start_pending == ~rt.published /\ ~workers_failed /\ rt.created = set.workers

lifecycle_call ==
  /\ Call("idle") /\ ~rt.join_failed
  /\ IF rt.stopping THEN stop_pending /\ To("read", 0)
     ELSE start_pending /\ To("scan", 0)
  /\ UNCHANGED <<mailbox, worker, mutex, waiters, event, rt>>

lifecycle_scan(pc, next) ==
  /\ Call(pc)
  /\ IF co.arg \in Created
     THEN IF co.arg \in uncollected /\ (mutex[co.arg] # "free" \/ worker[co.arg].startup_done)
          THEN Return ELSE To(pc, co.arg + 1)
     ELSE IF uncollected = {} THEN Return ELSE To(next, 0)
  /\ UNCHANGED <<mailbox, worker, mutex, waiters, event, rt>>

lifecycle_read ==
  /\ Call("read")
  /\ event' = FALSE
  /\ IF event \/ rt.failed THEN Return
     ELSE IF rt.stopping
          THEN IF stop_pending THEN To("doze", 0) ELSE Return
          ELSE IF start_pending THEN To("rescan", 0) ELSE Return
  /\ UNCHANGED <<mailbox, worker, mutex, waiters, rt>>

\* poll with a timeout of at most one millisecond
lifecycle_poll ==
  /\ Call("doze")
  /\ Return
  /\ UNCHANGED <<mailbox, worker, mutex, waiters, event, rt>>

Coordinator ==
  \/ start_create \/ create_await \/ create_look
  \/ \E i \in Threads : start_collect(i)
  \/ \E c \in Channels : submit_check(c) \/ poll_job(c)
  \/ submit_post \/ shutdown_call \/ shutdown_stop \/ shutdown_join \/ destroy
  \/ wait_call \/ wait_drain \/ wait_look \/ wait_poll
  \/ lifecycle_call \/ lifecycle_read \/ lifecycle_poll
  \/ lifecycle_scan("scan", "read") \/ lifecycle_scan("rescan", "doze")

\* Freed, or retained for ever after a failed join
Ended == (~rt.live \/ (rt.join_failed /\ co.pc = "idle")) /\ UNCHANGED vars

Next ==
  /\ UNCHANGED set
  /\ \/ \E i \in Threads : Worker(i) \/ Spurious(i)
     \/ Coordinator
     \/ wait_timeout
     \/ Ended

Spec == Init /\ [][Next]_vars

(***************************************************************************)
(* Threads are scheduled, jobs are finite and spurious wake-ups do not go  *)
(* on for ever.  The coordinator finishes the call it is in and comes back *)
(* to collect startups, replies and joins between the calls it makes.  The *)
(* poll of workers_wait is not assumed to time out.  Fairness is stated    *)
(* where it is needed: for the polling lifecycle, when nothing fails.      *)
(***************************************************************************)
Healthy == ~set.faults /\ ~set.blocking
Sound == Healthy /\ UNCHANGED set

Fairness ==
  /\ \A i \in Channels :
        /\ WF_vars(Sound /\ i \in Threads /\ Worker(i))
        /\ SF_vars(Sound /\ i \in Threads /\ start_collect(i))
        /\ SF_vars(Sound /\ poll_job(i))
  /\ WF_vars(Sound /\ co.pc # "idle" /\ Coordinator)
  /\ SF_vars(Sound /\ start_create)
  /\ <>[][\A i \in Threads : ~Spurious(i)]_vars
  /\ SF_vars(Sound /\ rt.stopping /\ shutdown_call)
  /\ SF_vars(Sound /\ rt.stopping /\ destroy)

FairSpec == Spec /\ Fairness

-----------------------------------------------------------------------------
(* Properties *)

TypeOK ==
  /\ set \in Settings
  /\ mailbox \in [Channels -> States]
  /\ \A i \in Threads : worker[i].cursor \in 0 .. CursorSpan - 1 /\ worker[i].chan \in Channels
  /\ mutex \in [Threads -> {"free", "worker"}]
  /\ waiters \in [Threads -> SUBSET {"worker", "coord"}]
  /\ event \in BOOLEAN
  /\ rt.created \in 0 .. set.workers /\ rt.joined \in 0 .. rt.created
  /\ rt.submitted \in 0 .. set.jobs

\* A worker that sleeps on its condition and was not signalled has no job to
\* run and no stop request to obey (submit, shutdown_common and worker_main:
\* predicate and signal share the wake mutex).
SleepsOnlyWhenIdle ==
  \A i \in Threads :
    "worker" \in waiters[i] =>
      /\ ~worker[i].stop
      /\ \/ worker[i].startup_error
         \/ \A c \in mine(i) : mailbox[c] # "QUEUED"

\* The coordinator asleep in workers_wait with the doorbell drained has not
\* missed a reply: the worker that published it has still to ring, or its
\* write to the eventfd failed.
NoMissedReply ==
  co.pc = "sleep" /\ ~event =>
    \A c \in Channels : visible(c) =>
      \/ At(owner(c), "notify") /\ worker[owner(c)].chan = c
      \/ worker[owner(c)].error

\* The coordinator asleep in lifecycle_wait for startups has not missed an
\* acknowledgement, unless the eventfd write of that worker failed.
NoMissedStartup ==
  co.pc = "doze" /\ ~rt.stopping /\ ~event =>
    \A i \in uncollected : worker[i].startup_done => worker[i].error

\* No two threads ever wait on one worker's condition, so the single signal
\* of submit and of startup cannot go to the wrong one.
OneWaiter == \A i \in Threads : Cardinality(waiters[i]) <= 1

\* Jobs are admitted only to a pool whose threads all acknowledged a clean
\* startup (start_step).
AdmittedToWholePool ==
  occupied => \A i \in Threads : worker[i].startup_done /\ ~worker[i].startup_error

\* When destroy frees the runtime every created thread has returned and no
\* mailbox holds a job: nothing can touch the freed memory.
FreedOnlyWhenGone ==
  ~rt.live => /\ \A i \in Threads : worker[i].pc \in {"none", "done"}
              /\ ~occupied

\* A mailbox is RUNNING exactly while its owner executes it, and no other
\* thread has it: the coordinator gets the job and its frames back whole.
OneExecutor ==
  \A c \in Channels :
    mailbox[c] = "RUNNING" <=> At(owner(c), "running") /\ worker[owner(c)].chan = c

\* The threads implement the executor the hub is written against: it cannot
\* tell a job that waits from one that runs.
Shown(state) ==
  CASE state \in {"QUEUED", "RUNNING"} -> "POSTED"
    [] state = "REPLIED" -> "DONE"
    [] OTHER -> state

Contract == INSTANCE JobExecutor WITH
  box <- [c \in Channels |-> Shown(mailbox[c])],
  ended <- rt.stopping /\ rt.created = rt.joined

\* submit, execute, poll_job and shutdown_common as seen by the hub.
ImplementsExecutor == Contract!Spec

\* Every job that is posted is answered.
JobsAnswered ==
  Healthy => \A c \in Channels : mailbox[c] = "QUEUED" ~> visible(c)

\* A coordinator asleep in workers_wait wakes without a timeout.
WaitEnds ==
  Healthy => (co.pc = "sleep" ~> co.pc = "idle")

\* A shutdown that has begun joins every thread and frees the runtime.
ShutdownEnds ==
  Healthy => (rt.stopping ~> ~rt.live)

\* The pool is published, or shut down first.
StartupEnds ==
  Healthy => (<>(rt.published \/ rt.stopping \/ ~rt.live))

\* No wakeup is lost: neither a worker's, nor the coordinator's in its two
\* waits, and a signal has one receiver (see each part).
NoLostWakeup == SleepsOnlyWhenIdle /\ NoMissedReply /\ NoMissedStartup /\ OneWaiter

\* Mailboxes and memory have one owner at a time, from startup to free.
OneOwner == TypeOK /\ OneExecutor /\ AdmittedToWholePool /\ FreedOnlyWhenGone

\* Startup, jobs, waits and shutdown come to an end (see each part).
Progress == StartupEnds /\ JobsAnswered /\ WaitEnds /\ ShutdownEnds
============================================================================
