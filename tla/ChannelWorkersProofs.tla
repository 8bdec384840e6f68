------------------------ MODULE ChannelWorkersProofs ------------------------
(***************************************************************************)
(* The worker pool for one to four channels, either number of threads, any *)
(* number of jobs and any cursor range: mailboxes and memory have one      *)
(* owner, no wakeup is lost, and the threads implement JobExecutor.        *)
(***************************************************************************)
EXTENDS ChannelWorkers, FiniteSetTheorems, TLAPS

\* A leaf is left to Zenon unless it names the SMT solver.
USE ZenonT(60)

-----------------------------------------------------------------------------
(* The inductive invariant                                                 *)

ThreadPcs == {"none", "start", "loop", "empty", "wait", "execute", "running",
              "notify", "relock", "exit", "return", "done"}

CallPcs == {"idle", "await", "submit", "stop", "join", "drain", "look", "sleep",
            "scan", "read", "rescan", "doze"}

WorkerRecord ==
  [pc : ThreadPcs, chan : Channels, cursor : 0 .. CursorSpan - 1, stop : BOOLEAN,
   startup_done : BOOLEAN, startup_error : BOOLEAN, collected : BOOLEAN,
   exited : BOOLEAN, error : BOOLEAN, joined : BOOLEAN]

RuntimeRecord ==
  [live : BOOLEAN, created : Nat, joined : Nat, acks : Nat, start_ok : BOOLEAN,
   published : BOOLEAN, stopping : BOOLEAN, failed : BOOLEAN, join_wait : BOOLEAN,
   join_failed : BOOLEAN, submitted : Nat]

Typed ==
  /\ set \in Settings
  /\ mailbox \in [Channels -> States]
  /\ worker \in [Threads -> WorkerRecord]
  /\ mutex \in [Threads -> {"free", "worker"}]
  /\ waiters \in [Threads -> SUBSET {"worker", "coord"}]
  /\ event \in BOOLEAN
  /\ rt \in RuntimeRecord
  /\ co \in [pc : CallPcs, arg : Nat]

\* The life of thread i: created in order, started, collected, joined in order.
LifeOK(i) ==
  /\ worker[i].pc = "none" <=> ~(i < rt.created)
  /\ worker[i].startup_done <=> worker[i].pc \notin {"none", "start"}
  /\ worker[i].collected => worker[i].startup_done
  /\ worker[i].joined <=> i < rt.joined
  /\ worker[i].joined => worker[i].pc = "done"

\* The thread holds its mutex from the top of the loop to the wait.
LockOK(i) == mutex[i] = "worker" <=> worker[i].pc \in {"loop", "empty"}

\* Who waits on the condition of thread i is in its wait, and the coordinator
\* only for a startup that is not acknowledged.
WaitOK(i) ==
  /\ "worker" \in waiters[i] => worker[i].pc = "wait"
  /\ "coord" \in waiters[i] =>
       co.pc = "await" /\ co.arg = i /\ ~worker[i].startup_done

\* From the moment a scan found nothing until the wait ends, nothing is there.
Resting(i) == worker[i].pc = "empty" \/ "worker" \in waiters[i]
NothingToDo(i) ==
  /\ ~worker[i].stop
  /\ worker[i].startup_error \/ \A c \in mine(i) : mailbox[c] # "QUEUED"
RestOK(i) == Resting(i) => NothingToDo(i)

\* The job a thread has taken is in its own mailbox, and is still there.
JobOK(i) ==
  /\ worker[i].pc = "execute" =>
       owner(worker[i].chan) = i /\ mailbox[worker[i].chan] = "QUEUED"
  /\ worker[i].pc = "running" =>
       owner(worker[i].chan) = i /\ mailbox[worker[i].chan] = "RUNNING"
RunOK(c) ==
  mailbox[c] = "RUNNING" => At(owner(c), "running") /\ worker[owner(c)].chan = c

Collected == {i \in Threads : worker[i].collected}

\* The counters, and what publication, stopping and freeing stand for.
PoolOK ==
  /\ rt.created <= set.workers /\ rt.joined <= rt.created
  /\ rt.submitted <= set.jobs
  /\ rt.acks = Cardinality(Collected)
  /\ rt.start_ok => \A i \in Collected : ~worker[i].startup_error
  /\ rt.published => \A i \in Threads : worker[i].collected /\ ~worker[i].startup_error
  /\ occupied => rt.published /\ ~rt.stopping
  /\ ~rt.live => /\ co.pc = "idle" /\ ~occupied
                 /\ \A i \in Threads : worker[i].pc \in {"none", "done"}

\* A reply, or a startup, that the waiting coordinator has passed by is one
\* whose worker has still to ring or could not.
Rung(c) ==
  visible(c) => \/ At(owner(c), "notify") /\ worker[owner(c)].chan = c
                \/ worker[owner(c)].error
Told(i) == ~worker[i].collected /\ worker[i].startup_done => worker[i].error

CallOK ==
  /\ co.pc = "await" => co.arg \in Threads
  /\ co.pc = "submit" => /\ co.arg \in Channels /\ mailbox[co.arg] = "EMPTY"
                         /\ rt.published /\ ~rt.stopping /\ rt.submitted < set.jobs
  /\ co.pc = "look" /\ ~event => \A c \in Channels : c < co.arg => Rung(c)
  /\ co.pc = "sleep" /\ ~event => \A c \in Channels : Rung(c)
  /\ co.pc = "rescan" /\ ~event => \A i \in Created : i < co.arg => Told(i)
  /\ co.pc = "doze" /\ ~event /\ ~rt.stopping => \A i \in Created : Told(i)

Threaded == \A i \in Threads : LifeOK(i) /\ LockOK(i) /\ WaitOK(i) /\ JobOK(i)
Running == \A c \in Channels : RunOK(c)
Rested == \A i \in Threads : RestOK(i)

PoolInv == Typed /\ Threaded /\ Running /\ PoolOK /\ CallOK

-----------------------------------------------------------------------------
(* The shape of a step                                                     *)

\* What thread i does to its own record when it goes from one place to the next:
\* stop, collected and joined are the coordinator's, an error stays, a startup
\* is acknowledged once.
Advance(i, to) ==
  /\ \A j \in Threads \ {i} : worker'[j] = worker[j]
  /\ worker' \in [Threads -> WorkerRecord]
  /\ worker'[i].pc = to
  /\ worker'[i].stop = worker[i].stop
  /\ worker'[i].collected = worker[i].collected
  /\ worker'[i].joined = worker[i].joined
  /\ worker[i].error => worker'[i].error
  /\ worker[i].pc # "start" => /\ worker'[i].startup_done = worker[i].startup_done
                               /\ worker'[i].startup_error = worker[i].startup_error
  /\ worker[i].pc = "start" => worker'[i].startup_done
  /\ worker[i].pc # "loop" => worker'[i].chan = worker[i].chan

\* The steps of worker_main.
Turns ==
  {<<"start", "loop">>, <<"loop", "exit">>, <<"loop", "execute">>, <<"loop", "empty">>,
   <<"empty", "wait">>, <<"wait", "loop">>, <<"execute", "running">>,
   <<"running", "notify">>, <<"notify", "relock">>, <<"relock", "loop">>,
   <<"exit", "return">>, <<"return", "done">>}

\* What a step of thread i does to the mutex, the condition, the mailboxes and
\* the doorbell.
LockStep(i, to) ==
  /\ mutex' \in [Threads -> {"free", "worker"}]
  /\ \A j \in Threads \ {i} : mutex'[j] = mutex[j]
  /\ mutex'[i] = "worker" <=> to \in {"loop", "empty"}

WaitStep(i, to) ==
  /\ waiters' \in [Threads -> SUBSET {"worker", "coord"}]
  /\ \A j \in Threads \ {i} : waiters'[j] = waiters[j]
  /\ "coord" \in waiters'[i] => "coord" \in waiters[i] /\ worker[i].pc # "start"
  /\ "worker" \in waiters'[i] => to = "wait" \/ ("worker" \in waiters[i] /\ worker[i].pc # "wait")

BoxStep(i) ==
  /\ mailbox' \in [Channels -> States]
  /\ \A c \in Channels :
       \/ mailbox'[c] = mailbox[c] /\ ~(worker[i].pc \in {"execute", "running"} /\ worker[i].chan = c)
       \/ worker[i].pc = "execute" /\ worker[i].chan = c /\ mailbox'[c] = "RUNNING"
       \/ worker[i].pc = "running" /\ worker[i].chan = c /\ mailbox'[c] \in {"REPLIED", "BROKEN"}

RingStep(i) ==
  /\ event' \in BOOLEAN
  /\ event => event'
  /\ worker[i].pc \in {"start", "notify"} => event' \/ worker'[i].error

Own(i, to) ==
  /\ set' = set /\ rt' = rt /\ co' = co
  /\ <<worker[i].pc, to>> \in Turns
  /\ Advance(i, to) /\ LockStep(i, to) /\ WaitStep(i, to) /\ BoxStep(i) /\ RingStep(i)
  /\ to = "execute" =>
       owner(worker'[i].chan) = i /\ mailbox[worker'[i].chan] = "QUEUED"
  /\ to = "empty" => ~worker[i].stop /\ (worker[i].startup_error \/ hits(i) = {})

-----------------------------------------------------------------------------
\* Moving a thread on replaces its record by one that moved.
LEMMA GoAdvance ==
  ASSUME Typed, NEW i \in Threads, NEW p \in ThreadPcs, Go(i, p), worker[i].pc # "start"
  PROVE Advance(i, p)
<1>1. worker[i] \in WorkerRecord /\ worker \in [Threads -> WorkerRecord]
  BY DEF Typed
<1>2. worker' = [worker EXCEPT ![i] = [worker[i] EXCEPT !.pc = p]]
  BY DEF Go
<1>3. worker'[i] = [worker[i] EXCEPT !.pc = p] /\ \A j \in Threads \ {i} : worker'[j] = worker[j]
  BY <1>1, <1>2
<1>4. worker'[i] \in WorkerRecord
  BY <1>1, <1>3 DEF WorkerRecord
<1>5. worker' \in [Threads -> WorkerRecord]
  BY <1>1, <1>2, <1>3, <1>4
<1>6. /\ worker'[i].pc = p /\ worker'[i].stop = worker[i].stop
      /\ worker'[i].collected = worker[i].collected
      /\ worker'[i].joined = worker[i].joined
      /\ worker[i].error = worker'[i].error
      /\ worker'[i].startup_done = worker[i].startup_done
      /\ worker'[i].startup_error = worker[i].startup_error
      /\ worker'[i].chan = worker[i].chan
  BY <1>1, <1>3, SMTT(60) DEF WorkerRecord
<1> QED BY <1>3, <1>5, <1>6 DEF Advance

\* Replacing the record of a thread.
LEMMA PutRecord ==
  ASSUME Typed, NEW i \in Threads, NEW w \in WorkerRecord, worker' = [worker EXCEPT ![i] = w]
  PROVE /\ worker'[i] = w /\ worker' \in [Threads -> WorkerRecord]
        /\ \A j \in Threads \ {i} : worker'[j] = worker[j]
BY DEF Typed

\* pthread_cond_signal leaves no waiter on a condition that has one at most.
LEMMA SignalWakes ==
  ASSUME Typed, NEW i \in Threads, Signal(i), NEW t, waiters[i] \subseteq {t}
  PROVE /\ waiters' \in [Threads -> SUBSET {"worker", "coord"}] /\ waiters'[i] = {}
        /\ \A j \in Threads \ {i} : waiters'[j] = waiters[j]
<1>1. CASE waiters[i] = {} /\ UNCHANGED waiters
  BY <1>1 DEF Typed
<1>2. CASE \E u \in waiters[i] : waiters' = [waiters EXCEPT ![i] = @ \ {u}]
  <2>1. PICK u \in waiters[i] : waiters' = [waiters EXCEPT ![i] = @ \ {u}]
    BY <1>2
  <2>2. u = t /\ waiters[i] \ {u} = {}
    BY <2>1
  <2>3. waiters' = [waiters EXCEPT ![i] = {}]
    BY <2>1, <2>2
  <2> QED BY <2>3 DEF Typed
<1> QED BY <1>1, <1>2 DEF Signal

\* A thread that is not in its wait is not among the waiters.
LEMMA Awake ==
  ASSUME Threaded, NEW i \in Threads, worker[i].pc # "wait"
  PROVE "worker" \notin waiters[i]
BY DEF Threaded, WaitOK

\* Every step of a thread has the shape Own.
LEMMA WorkerOwn ==
  ASSUME Typed, Threaded, set' = set
  PROVE \A i \in Threads : Worker(i) => \E to \in ThreadPcs : Own(i, to)
\* The thread keeps the mutex as it is, takes it or gives it up.
<1>LockKept. ASSUME Typed, NEW i \in Threads, UNCHANGED mutex, mutex[i] # "worker",
           NEW to \in {"running", "notify", "relock", "return", "done"}
    PROVE LockStep(i, to)
  BY <1>LockKept DEF Typed, LockStep
<1>LockTaken. ASSUME Typed, NEW i \in Threads, mutex' = [mutex EXCEPT ![i] = "worker"]
    PROVE LockStep(i, "loop")
  BY <1>LockTaken DEF Typed, LockStep
<1>LockGiven. ASSUME Typed, NEW i \in Threads, NEW to \in {"exit", "execute", "wait"},
           mutex' = [mutex EXCEPT ![i] = "free"]
    PROVE LockStep(i, to)
  BY <1>LockGiven DEF Typed, LockStep
\* Outside start, empty and wait the condition is left alone.
<1>WaitKept. ASSUME Typed, NEW i \in Threads, NEW to, UNCHANGED waiters, worker[i].pc # "start",
           "worker" \notin waiters[i]
    PROVE WaitStep(i, to)
  BY <1>WaitKept DEF Typed, WaitStep
\* Outside execute and running the mailboxes are.
<1>BoxKept. ASSUME Typed, NEW i \in Threads, UNCHANGED mailbox, worker[i].pc \notin {"execute", "running"}
    PROVE BoxStep(i)
  BY <1>BoxKept DEF Typed, BoxStep
<1>RingKept. ASSUME Typed, NEW i \in Threads, UNCHANGED event, worker[i].pc \notin {"start", "notify"}
    PROVE RingStep(i)
  BY <1>RingKept DEF Typed, RingStep
\* The doorbell counts, or the thread notes the error.
<1>Rings. ASSUME Typed, NEW i \in Threads, NEW w \in WorkerRecord, notify_worker(i, w)
    PROVE /\ event' \in BOOLEAN /\ (event => event') /\ (event' \/ worker'[i].error)
          /\ worker' \in [Threads -> WorkerRecord]
          /\ \A j \in Threads \ {i} : worker'[j] = worker[j]
          /\ worker'[i] = w \/ worker'[i] = [w EXCEPT !.error = TRUE]
  <2> USE <1>Rings
  <2>1. CASE event' = TRUE /\ worker' = [worker EXCEPT ![i] = w]
    BY <2>1, PutRecord DEF Typed
  <2>2. CASE UNCHANGED event /\ worker' = [worker EXCEPT ![i] = [w EXCEPT !.error = TRUE]]
    <3>1. [w EXCEPT !.error = TRUE] \in WorkerRecord
      BY DEF WorkerRecord
    <3>2. [w EXCEPT !.error = TRUE].error = TRUE
      BY SMTT(60) DEF WorkerRecord
    <3> QED BY <2>2, <3>1, <3>2, PutRecord DEF Typed
  <2> QED BY <2>1, <2>2 DEF notify_worker
\* A record with error set has the other fields of the record.
<1>ErrorSet. ASSUME NEW w \in WorkerRecord, NEW v, v = w \/ v = [w EXCEPT !.error = TRUE]
    PROVE /\ v.pc = w.pc /\ v.stop = w.stop /\ v.collected = w.collected
          /\ v.joined = w.joined /\ v.startup_done = w.startup_done
          /\ v.startup_error = w.startup_error /\ v.chan = w.chan
          /\ (w.error => v.error)
  BY <1>ErrorSet, SMTT(60) DEF WorkerRecord
<1>StartOwn. ASSUME Typed, Threaded, set' = set, NEW i \in Threads, worker_start(i)
    PROVE Own(i, "loop")
  <2> USE <1>StartOwn
  <2> DEFINE W(e) == [worker[i] EXCEPT !.startup_done = TRUE, !.startup_error = e, !.pc = "loop"]
  <2>1. worker[i] \in WorkerRecord /\ worker[i].pc = "start"
    BY DEF Typed, worker_start, At
  <2>2. PICK e \in BOOLEAN : notify_worker(i, W(e))
    <3>1. PICK e \in (IF set.faults THEN BOOLEAN ELSE {FALSE}) : notify_worker(i, W(e))
      BY DEF worker_start
    <3>2. e \in BOOLEAN
      BY <3>1
    <3> QED BY <3>1, <3>2
  <2>3. W(e) \in WorkerRecord
    BY <2>1 DEF WorkerRecord, ThreadPcs
  <2>4. /\ W(e).pc = "loop" /\ W(e).stop = worker[i].stop /\ W(e).startup_done
        /\ W(e).collected = worker[i].collected /\ W(e).joined = worker[i].joined
        /\ W(e).chan = worker[i].chan /\ W(e).error = worker[i].error
    BY <2>1, SMTT(60) DEF WorkerRecord
  <2> HIDE DEF W
  <2>5. Advance(i, "loop")
    BY <2>1, <2>2, <2>3, <2>4, <1>Rings, <1>ErrorSet DEF Advance
  <2>6. RingStep(i)
    BY <2>2, <2>3, <1>Rings DEF RingStep
  <2>7. waiters[i] \subseteq {"coord"}
    BY <2>1, Awake DEF Typed
  <2>8. WaitStep(i, "loop")
    BY <2>7, SignalWakes DEF WaitStep, worker_start
  <2>9. LockStep(i, "loop")
    BY <1>LockTaken DEF worker_start
  <2>10. BoxStep(i)
    BY <2>1, <1>BoxKept DEF worker_start
  <2> QED BY <2>1, <2>5, <2>6, <2>8, <2>9, <2>10 DEF Own, worker_start, Turns
<1>StopOwn. ASSUME Typed, Threaded, set' = set, NEW i \in Threads, worker_stop(i)
    PROVE Own(i, "exit")
  <2> USE <1>StopOwn
  <2> DEFINE w == [worker[i] EXCEPT !.exited = TRUE, !.pc = "exit"]
  <2>1. worker[i] \in WorkerRecord /\ worker[i].pc = "loop"
    BY DEF Typed, worker_stop, At
  <2>2. worker' = [worker EXCEPT ![i] = w]
    BY DEF worker_stop, Typed
  <2>3. w \in WorkerRecord
    BY <2>1 DEF WorkerRecord, ThreadPcs
  <2>4. /\ w.pc = "exit" /\ w.stop = worker[i].stop /\ w.startup_done = worker[i].startup_done
        /\ w.startup_error = worker[i].startup_error
        /\ w.collected = worker[i].collected /\ w.joined = worker[i].joined
        /\ w.error = worker[i].error
    BY <2>1, SMTT(60) DEF WorkerRecord
  <2> HIDE DEF w
  <2>5. Advance(i, "exit")
    BY <2>1, <2>2, <2>3, <2>4, PutRecord DEF Advance
  <2>6. LockStep(i, "exit") /\ BoxStep(i) /\ RingStep(i)
    <3>1. LockStep(i, "exit")
      BY <1>LockGiven DEF worker_stop
    <3> QED BY <2>1, <3>1, <1>BoxKept, <1>RingKept DEF worker_stop
  <2>7. WaitStep(i, "exit")
    BY <2>1, Awake, <1>WaitKept DEF worker_stop
  <2> QED BY <2>1, <2>5, <2>6, <2>7 DEF Own, worker_stop, Turns
<1>TakeOwn. ASSUME Typed, Threaded, set' = set, NEW i \in Threads, worker_take(i)
    PROVE Own(i, "execute")
  <2> USE <1>TakeOwn
  <2>1. worker[i] \in WorkerRecord /\ worker[i].pc = "loop"
    BY DEF Typed, worker_take, At
  <2>2. PICK n \in hits(i) :
          worker' = [worker EXCEPT ![i].pc = "execute", ![i].chan = visit(i, n),
                                   ![i].cursor = (@ + n + 1) % CursorSpan]
    BY DEF worker_take
  <2> DEFINE k == (worker[i].cursor + n + 1) % CursorSpan
             w == [worker[i] EXCEPT !.pc = "execute", !.chan = visit(i, n), !.cursor = k]
  <2>3. worker' = [worker EXCEPT ![i] = w]
    BY <2>2 DEF Typed
  <2>4. /\ visit(i, n) \in Channels /\ owner(visit(i, n)) = i
        /\ mailbox[visit(i, n)] = "QUEUED" /\ n \in Channels
    BY DEF hits, hit, mine
  <2>5. k \in 0 .. CursorSpan - 1
    <3>1. worker[i].cursor \in 0 .. CursorSpan - 1
      BY <2>1, SMTT(60) DEF WorkerRecord
    <3> QED BY <2>4, <3>1, WorkerConstants, SMTT(60) DEF Channels
  <2> HIDE DEF k
  <2>6. w \in WorkerRecord
    BY <2>1, <2>4, <2>5 DEF WorkerRecord, ThreadPcs
  <2>7. /\ w.pc = "execute" /\ w.stop = worker[i].stop /\ w.startup_done = worker[i].startup_done
        /\ w.startup_error = worker[i].startup_error
        /\ w.collected = worker[i].collected /\ w.joined = worker[i].joined
        /\ w.error = worker[i].error /\ w.chan = visit(i, n)
    BY <2>1, SMTT(60) DEF WorkerRecord
  <2> HIDE DEF w
  <2>8. Advance(i, "execute")
    BY <2>1, <2>3, <2>6, <2>7, PutRecord DEF Advance
  <2>9. LockStep(i, "execute") /\ BoxStep(i) /\ RingStep(i)
    <3>1. LockStep(i, "execute")
      BY <1>LockGiven DEF worker_take
    <3> QED BY <2>1, <3>1, <1>BoxKept, <1>RingKept DEF worker_take
  <2>10. WaitStep(i, "execute")
    BY <2>1, Awake, <1>WaitKept DEF worker_take
  <2>11. worker'[i].chan = visit(i, n)
    BY <2>3, <2>6, <2>7, PutRecord
  <2> QED BY <2>1, <2>4, <2>8, <2>9, <2>10, <2>11 DEF Own, worker_take, Turns
<1>IdleOwn. ASSUME Typed, Threaded, set' = set, NEW i \in Threads, worker_idle(i)
    PROVE Own(i, "empty")
  <2> USE <1>IdleOwn
  <2>1. worker[i] \in WorkerRecord /\ worker[i].pc = "loop"
    BY DEF Typed, worker_idle, At
  <2> DEFINE k == IF worker[i].startup_error THEN worker[i].cursor
                  ELSE (worker[i].cursor + C) % CursorSpan
             w == [worker[i] EXCEPT !.pc = "empty", !.cursor = k]
  <2>3. worker' = [worker EXCEPT ![i] = w]
    BY DEF Typed, worker_idle
  <2>5. k \in 0 .. CursorSpan - 1
    <3>1. worker[i].cursor \in 0 .. CursorSpan - 1
      BY <2>1, SMTT(60) DEF WorkerRecord
    <3> QED BY <3>1, WorkerConstants, SMTT(60)
  <2> HIDE DEF k
  <2>6. w \in WorkerRecord
    BY <2>1, <2>5 DEF WorkerRecord, ThreadPcs
  <2>7. /\ w.pc = "empty" /\ w.stop = worker[i].stop /\ w.startup_done = worker[i].startup_done
        /\ w.startup_error = worker[i].startup_error
        /\ w.collected = worker[i].collected /\ w.joined = worker[i].joined
        /\ w.error = worker[i].error
    BY <2>1, SMTT(60) DEF WorkerRecord
  <2> HIDE DEF w
  <2>8. Advance(i, "empty")
    BY <2>1, <2>3, <2>6, <2>7, PutRecord DEF Advance
  <2>9. LockStep(i, "empty")
    BY <2>1 DEF worker_idle, Threaded, LockOK, LockStep, Typed
  <2>10. BoxStep(i) /\ RingStep(i)
    BY <2>1, <1>BoxKept, <1>RingKept DEF worker_idle
  <2>11. WaitStep(i, "empty")
    BY <2>1, Awake, <1>WaitKept DEF worker_idle
  <2> QED BY <2>1, <2>8, <2>9, <2>10, <2>11 DEF Own, worker_idle, Turns
<1>WaitOwn. ASSUME Typed, Threaded, set' = set, NEW i \in Threads, worker_wait(i)
    PROVE Own(i, "wait")
  <2> USE <1>WaitOwn
  <2>1. worker[i].pc = "empty"
    BY DEF worker_wait, At
  <2>2. Advance(i, "wait")
    BY <2>1, GoAdvance DEF worker_wait, ThreadPcs
  <2>3. LockStep(i, "wait")
    BY <1>LockGiven DEF worker_wait
  <2>4. BoxStep(i) /\ RingStep(i)
    BY <2>1, <1>BoxKept, <1>RingKept DEF worker_wait
  <2>5. WaitStep(i, "wait")
    <3>1. waiters[i] \cup {"worker"} \in SUBSET {"worker", "coord"}
      BY DEF Typed
    <3>2. waiters' = [waiters EXCEPT ![i] = waiters[i] \cup {"worker"}]
      BY DEF worker_wait
    <3> QED BY <2>1, <3>1, <3>2 DEF WaitStep, Typed
  <2> QED BY <2>1, <2>2, <2>3, <2>4, <2>5 DEF Own, worker_wait, Turns
<1>WakeOwn. ASSUME Typed, Threaded, set' = set, NEW i \in Threads, worker_wake(i)
    PROVE Own(i, "loop")
  <2> USE <1>WakeOwn
  <2>1. worker[i].pc = "wait" /\ "worker" \notin waiters[i]
    BY DEF worker_wake, At
  <2>2. Advance(i, "loop")
    BY <2>1, GoAdvance DEF worker_wake, ThreadPcs
  <2>3. LockStep(i, "loop")
    BY <1>LockTaken DEF worker_wake
  <2>4. BoxStep(i) /\ RingStep(i) /\ WaitStep(i, "loop")
    BY <2>1, <1>BoxKept, <1>RingKept, <1>WaitKept DEF worker_wake
  <2> QED BY <2>1, <2>2, <2>3, <2>4 DEF Own, worker_wake, Turns
<1>RelockOwn. ASSUME Typed, Threaded, set' = set, NEW i \in Threads, worker_relock(i)
    PROVE Own(i, "loop")
  <2> USE <1>RelockOwn
  <2>1. worker[i].pc = "relock" /\ "worker" \notin waiters[i]
    BY Awake DEF worker_relock, At
  <2>2. Advance(i, "loop")
    BY <2>1, GoAdvance DEF worker_relock, ThreadPcs
  <2>3. LockStep(i, "loop")
    BY <1>LockTaken DEF worker_relock
  <2>4. BoxStep(i) /\ RingStep(i) /\ WaitStep(i, "loop")
    BY <2>1, <1>BoxKept, <1>RingKept, <1>WaitKept DEF worker_relock
  <2> QED BY <2>1, <2>2, <2>3, <2>4 DEF Own, worker_relock, Turns
<1>BeginOwn. ASSUME Typed, Threaded, set' = set, NEW i \in Threads, execute_begin(i)
    PROVE Own(i, "running")
  <2> USE <1>BeginOwn
  <2>1. worker[i].pc = "execute" /\ "worker" \notin waiters[i] /\ mutex[i] # "worker"
    BY Awake DEF execute_begin, At, Threaded, LockOK
  <2>2. Advance(i, "running")
    BY <2>1, GoAdvance DEF execute_begin, ThreadPcs
  <2>3. LockStep(i, "running")
    BY <2>1, <1>LockKept DEF execute_begin
  <2>4. RingStep(i) /\ WaitStep(i, "running")
    BY <2>1, <1>RingKept, <1>WaitKept DEF execute_begin
  <2>5. BoxStep(i)
    BY <2>1 DEF BoxStep, execute_begin, Typed, States
  <2> QED BY <2>1, <2>2, <2>3, <2>4, <2>5 DEF Own, execute_begin, Turns
<1>EndOwn. ASSUME Typed, Threaded, set' = set, NEW i \in Threads, execute_end(i)
    PROVE Own(i, "notify")
  <2> USE <1>EndOwn
  <2>1. worker[i].pc = "running" /\ "worker" \notin waiters[i] /\ mutex[i] # "worker"
    BY Awake DEF execute_end, At, Threaded, LockOK
  <2>2. Advance(i, "notify")
    <3>1. CASE Go(i, "notify")
      BY <2>1, <3>1, GoAdvance DEF ThreadPcs
    <3>2. CASE worker' = [worker EXCEPT ![i].error = TRUE, ![i].pc = "notify"]
      <4> DEFINE w == [worker[i] EXCEPT !.error = TRUE, !.pc = "notify"]
      <4>1. worker[i] \in WorkerRecord
        BY DEF Typed
      <4>2. worker' = [worker EXCEPT ![i] = w]
        BY <3>2 DEF Typed
      <4>3. w \in WorkerRecord
        BY <4>1 DEF WorkerRecord, ThreadPcs
      <4>4. /\ w.pc = "notify" /\ w.stop = worker[i].stop
            /\ w.startup_done = worker[i].startup_done
            /\ w.startup_error = worker[i].startup_error
            /\ w.collected = worker[i].collected /\ w.joined = worker[i].joined
            /\ w.error /\ w.chan = worker[i].chan
        BY <4>1, SMTT(60) DEF WorkerRecord
      <4> HIDE DEF w
      <4> QED BY <2>1, <4>2, <4>3, <4>4, PutRecord DEF Advance
    <3> QED BY <3>1, <3>2 DEF execute_end
  <2>3. LockStep(i, "notify")
    BY <2>1, <1>LockKept DEF execute_end
  <2>4. RingStep(i) /\ WaitStep(i, "notify")
    BY <2>1, <1>RingKept, <1>WaitKept DEF execute_end
  <2>5. BoxStep(i)
    <3>1. PICK v \in {"REPLIED", "BROKEN"} : mailbox' = [mailbox EXCEPT ![worker[i].chan] = v]
      BY DEF execute_end
    <3>2. v \in States
      BY <3>1 DEF States
    <3> QED BY <2>1, <3>1, <3>2 DEF BoxStep, Typed
  <2> QED BY <2>1, <2>2, <2>3, <2>4, <2>5 DEF Own, execute_end, Turns
\* notify_worker on the way from one place to the next.
<1>NotifyOwn. ASSUME Typed, Threaded, set' = set, NEW i \in Threads, NEW p \in {"relock", "return"},
           notify_worker(i, [worker[i] EXCEPT !.pc = p]), <<worker[i].pc, p>> \in Turns,
           UNCHANGED <<mailbox, mutex, waiters, rt, co>>
    PROVE Own(i, p)
  <2> USE <1>NotifyOwn
  <2> DEFINE w == [worker[i] EXCEPT !.pc = p]
  <2>1. /\ worker[i] \in WorkerRecord /\ worker[i].pc \in {"notify", "exit"}
        /\ p \in ThreadPcs /\ p \notin {"loop", "empty", "execute"}
    BY SMTT(60) DEF Typed, Turns, ThreadPcs
  <2>2. w \in WorkerRecord
    BY <2>1 DEF WorkerRecord
  <2>3. /\ w.pc = p /\ w.stop = worker[i].stop /\ w.startup_done = worker[i].startup_done
        /\ w.startup_error = worker[i].startup_error
        /\ w.collected = worker[i].collected /\ w.joined = worker[i].joined
        /\ w.error = worker[i].error /\ w.chan = worker[i].chan
    BY <2>1, SMTT(60) DEF WorkerRecord
  <2>4. notify_worker(i, w)
    OBVIOUS
  <2> HIDE DEF w
  <2>5. Advance(i, p)
    <3>1. worker[i].pc # "start"
      BY <2>1
    <3>2. /\ worker' \in [Threads -> WorkerRecord]
          /\ \A j \in Threads \ {i} : worker'[j] = worker[j]
          /\ worker'[i] = w \/ worker'[i] = [w EXCEPT !.error = TRUE]
      BY <2>2, <2>4, <1>Rings
    <3>3. /\ worker'[i].pc = p /\ worker'[i].stop = worker[i].stop
          /\ worker'[i].startup_done = worker[i].startup_done
          /\ worker'[i].startup_error = worker[i].startup_error
          /\ worker'[i].collected = worker[i].collected /\ worker'[i].joined = worker[i].joined
          /\ worker[i].error => worker'[i].error
          /\ worker'[i].chan = worker[i].chan
      <4>1. /\ worker'[i].pc = w.pc /\ worker'[i].stop = w.stop
            /\ worker'[i].collected = w.collected /\ worker'[i].joined = w.joined
            /\ worker'[i].startup_done = w.startup_done
            /\ worker'[i].startup_error = w.startup_error /\ worker'[i].chan = w.chan
            /\ (w.error => worker'[i].error)
        BY <2>2, <3>2, <1>ErrorSet
      <4> QED BY <2>3, <4>1
    <3> QED BY <3>1, <3>2, <3>3 DEF Advance
  <2>6. RingStep(i)
    BY <2>2, <2>4, <1>Rings DEF RingStep
  <2>7. "worker" \notin waiters[i] /\ mutex[i] # "worker"
    BY <2>1, Awake DEF Threaded, LockOK
  <2>8. LockStep(i, p)
    BY <2>1, <2>7, <1>LockKept
  <2>9. BoxStep(i) /\ WaitStep(i, p)
    BY <2>1, <2>7, <1>BoxKept, <1>WaitKept
  <2> QED BY <2>1, <2>5, <2>6, <2>8, <2>9 DEF Own
<1>ReturnOwn. ASSUME Typed, Threaded, set' = set, NEW i \in Threads, worker_return(i)
    PROVE Own(i, "done")
  <2> USE <1>ReturnOwn
  <2>1. worker[i].pc = "return" /\ "worker" \notin waiters[i] /\ mutex[i] # "worker"
    BY Awake DEF worker_return, At, Threaded, LockOK
  <2>2. Advance(i, "done")
    BY <2>1, GoAdvance DEF worker_return, ThreadPcs
  <2>3. LockStep(i, "done")
    BY <2>1, <1>LockKept DEF worker_return
  <2>4. BoxStep(i) /\ RingStep(i) /\ WaitStep(i, "done")
    BY <2>1, <1>BoxKept, <1>RingKept, <1>WaitKept DEF worker_return
  <2> QED BY <2>1, <2>2, <2>3, <2>4 DEF Own, worker_return, Turns
<1> SUFFICES ASSUME NEW i \in Threads, Worker(i)
             PROVE \E to \in ThreadPcs : Own(i, to)
  OBVIOUS
<1>1. ASSUME execute_notify(i) PROVE Own(i, "relock")
  BY <1>1, <1>NotifyOwn DEF execute_notify, At, Turns
<1>2. ASSUME worker_exit(i) PROVE Own(i, "return")
  BY <1>2, <1>NotifyOwn DEF worker_exit, At, Turns
<1> QED BY <1>1, <1>2, <1>StartOwn, <1>StopOwn, <1>TakeOwn, <1>IdleOwn, <1>WaitOwn, <1>WakeOwn,
           <1>RelockOwn, <1>BeginOwn, <1>EndOwn, <1>ReturnOwn DEF Worker, ThreadPcs

-----------------------------------------------------------------------------
(* A step of a thread keeps the invariant                                  *)

\* Threads and owners are fixed with the setting.
LEMMA Fixed ==
  ASSUME set' = set
  PROVE Threads' = Threads /\ \A c : owner(c)' = owner(c)
BY DEF Threads, owner

\* A step that leaves mailboxes, threads and mutexes alone.
LEMMA ThreadsKept ==
  ASSUME Threaded, Running, set' = set, UNCHANGED <<mailbox, worker, mutex>>,
         rt'.created = rt.created, rt'.joined = rt.joined
  PROVE Running' /\ \A j \in Threads : LifeOK(j)' /\ LockOK(j)' /\ JobOK(j)'
<1>1. ASSUME NEW j \in Threads PROVE LifeOK(j)'
  BY DEF Threaded, LifeOK
<1>2. ASSUME NEW j \in Threads PROVE LockOK(j)' /\ JobOK(j)'
  BY DEF Threaded, LockOK, JobOK, owner
<1>3. Running'
  BY DEF Running, RunOK, At, owner
<1> QED BY <1>1, <1>2, <1>3

\* A step of that shape keeps the invariant.
LEMMA OwnInv ==
  ASSUME PoolInv
  PROVE \A i \in Threads : (\E to \in ThreadPcs : Own(i, to)) => PoolInv'
<1>OwnTyped. ASSUME Typed, NEW i \in Threads, NEW to, Own(i, to)
    PROVE Typed'
  BY <1>OwnTyped, Fixed DEF Typed, Own, Advance, LockStep, WaitStep, BoxStep, RingStep
<1>OwnLife. ASSUME Typed, Threaded, NEW i \in Threads, NEW to, Own(i, to)
    PROVE \A j \in Threads : LifeOK(j)'
  <2> USE <1>OwnLife
  <2> SUFFICES ASSUME NEW j \in Threads PROVE LifeOK(j)'
    OBVIOUS
  <2>1. LifeOK(j) /\ rt' = rt
    BY DEF Threaded, Own
  <2>2. CASE j # i
    <3>1. worker'[j] = worker[j]
      BY <2>2 DEF Own, Advance
    <3> QED BY <2>1, <3>1 DEF LifeOK
  <2>3. CASE j = i
    <3>1. /\ worker'[i].pc = to /\ worker'[i].collected = worker[i].collected
          /\ worker'[i].joined = worker[i].joined
          /\ worker[i].pc # "start" => worker'[i].startup_done = worker[i].startup_done
          /\ worker[i].pc = "start" => worker'[i].startup_done
      BY DEF Own, Advance
    <3>2. /\ worker[i].pc \notin {"none", "done"} /\ to \notin {"none", "start"}
      BY SMTT(60) DEF Own, Turns
    <3> QED BY <2>1, <2>3, <3>1, <3>2 DEF LifeOK
  <2> QED BY <2>2, <2>3
<1>OwnLock. ASSUME Typed, Threaded, NEW i \in Threads, NEW to, Own(i, to)
    PROVE \A j \in Threads : LockOK(j)'
  <2> USE <1>OwnLock
  <2> SUFFICES ASSUME NEW j \in Threads PROVE LockOK(j)'
    OBVIOUS
  <2>1. CASE j # i
    <3>1. LockOK(j) /\ worker'[j] = worker[j] /\ mutex'[j] = mutex[j]
      BY <2>1 DEF Own, Advance, LockStep, Threaded
    <3> QED BY <3>1 DEF LockOK
  <2>2. CASE j = i
    BY <2>2 DEF Own, Advance, LockStep, LockOK
  <2> QED BY <2>1, <2>2
<1>OwnWait. ASSUME Typed, Threaded, NEW i \in Threads, NEW to, Own(i, to)
    PROVE \A j \in Threads : WaitOK(j)'
  <2> USE <1>OwnWait
  <2> SUFFICES ASSUME NEW j \in Threads PROVE WaitOK(j)'
    OBVIOUS
  <2>1. WaitOK(j) /\ co' = co
    BY DEF Threaded, Own
  <2>2. CASE j # i
    BY <2>1, <2>2 DEF Own, Advance, WaitStep, WaitOK
  <2>3. CASE j = i
    <3>1. "worker" \in waiters'[i] => worker'[i].pc = "wait"
      BY <2>1, <2>3 DEF Own, Advance, WaitStep, WaitOK
    <3>2. "coord" \in waiters'[i] =>
            co.pc = "await" /\ co.arg = i /\ ~worker'[i].startup_done
      BY <2>1, <2>3 DEF Own, Advance, WaitStep, WaitOK
    <3> QED BY <2>1, <2>3, <3>1, <3>2 DEF WaitOK
  <2> QED BY <2>2, <2>3
\* No other thread has a job in a mailbox of thread i.
<1>OwnJob. ASSUME Typed, Threaded, NEW i \in Threads, NEW to, Own(i, to)
    PROVE \A j \in Threads : JobOK(j)'
  <2> USE <1>OwnJob
  <2> SUFFICES ASSUME NEW j \in Threads PROVE JobOK(j)'
    OBVIOUS
  <2>1. JobOK(j) /\ JobOK(i) /\ set' = set
    BY DEF Threaded, Own
  <2>2. worker[j].chan \in Channels /\ worker'[j].chan \in Channels
    BY SMTT(60) DEF Typed, Own, Advance, WorkerRecord
  <2>3. CASE j # i
    <3>1. worker'[j] = worker[j]
      BY <2>3 DEF Own, Advance
    <3>2. worker[j].pc \in {"execute", "running"} => mailbox'[worker[j].chan] = mailbox[worker[j].chan]
      <4> SUFFICES ASSUME worker[j].pc \in {"execute", "running"}
                   PROVE  mailbox'[worker[j].chan] = mailbox[worker[j].chan]
        OBVIOUS
      <4>1. owner(worker[j].chan) = j
        BY <2>1 DEF JobOK
      <4>2. ~(worker[i].pc \in {"execute", "running"} /\ worker[i].chan = worker[j].chan)
        BY <2>1, <2>3, <4>1 DEF JobOK
      <4> QED BY <2>2, <4>2 DEF Own, BoxStep
    <3> QED BY <2>1, <3>1, <3>2 DEF JobOK, owner
  <2>4. CASE j = i
    <3>1. CASE to = "execute"
      <4>1. worker[i].pc = "loop"
        BY <3>1, SMTT(60) DEF Own, Turns
      <4>2. mailbox'[worker'[i].chan] = mailbox[worker'[i].chan]
        BY <2>2, <2>4, <4>1 DEF Own, BoxStep
      <4> QED BY <2>1, <2>4, <3>1, <4>2 DEF Own, Advance, JobOK, owner
    <3>2. CASE to = "running"
      <4>1. worker[i].pc = "execute"
        BY <3>2, SMTT(60) DEF Own, Turns
      <4>2. worker'[i].chan = worker[i].chan /\ owner(worker[i].chan) = i
        BY <2>1, <2>4, <4>1 DEF Own, Advance, JobOK
      <4>3. mailbox'[worker[i].chan] = "RUNNING"
        BY <2>2, <2>4, <4>1 DEF Own, BoxStep
      <4> QED BY <2>1, <2>4, <3>2, <4>2, <4>3 DEF Own, Advance, JobOK, owner
    <3>3. CASE to \notin {"execute", "running"}
      BY <2>4, <3>3 DEF Own, Advance, JobOK
    <3> QED BY <3>1, <3>2, <3>3
  <2> QED BY <2>3, <2>4
<1>OwnRunning. ASSUME Typed, Threaded, Running, NEW i \in Threads, NEW to, Own(i, to)
    PROVE \A c \in Channels : RunOK(c)'
  <2> USE <1>OwnRunning
  <2> SUFFICES ASSUME NEW c \in Channels, mailbox'[c] = "RUNNING"
               PROVE worker'[owner(c)].pc = "running" /\ worker'[owner(c)].chan = c
    BY Fixed DEF RunOK, At, Own
  <2>1. CASE mailbox[c] = "RUNNING"
    <3>1. worker[owner(c)].pc = "running" /\ worker[owner(c)].chan = c
      BY <2>1 DEF Running, RunOK, At
    <3>2. owner(c) # i
      BY <2>1, <3>1 DEF Own, BoxStep
    <3>3. owner(c) \in Threads
      BY WorkerConstants, SMTT(60) DEF Typed, owner, Threads, Channels
    <3> QED BY <3>1, <3>2, <3>3 DEF Own, Advance
  <2>2. CASE mailbox[c] # "RUNNING"
    <3>1. worker[i].pc = "execute" /\ worker[i].chan = c
      BY <2>2 DEF Own, BoxStep
    <3>2. owner(c) = i
      BY <3>1 DEF Threaded, JobOK
    <3>3. to = "running"
      BY <3>1, SMTT(60) DEF Own, Turns
    <3> QED BY <3>1, <3>2, <3>3 DEF Own, Advance
  <2> QED BY <2>1, <2>2
\* A step of a thread does not fill or empty a mailbox.
<1>OwnOccupied. ASSUME Typed, Threaded, NEW i \in Threads, NEW to, Own(i, to), NEW c \in Channels
    PROVE mailbox'[c] = "EMPTY" <=> mailbox[c] = "EMPTY"
  <2> USE <1>OwnOccupied
  <2>1. worker[i].pc = "execute" => mailbox[worker[i].chan] = "QUEUED"
    BY DEF Threaded, JobOK
  <2>2. worker[i].pc = "running" => mailbox[worker[i].chan] = "RUNNING"
    BY DEF Threaded, JobOK
  <2> QED BY <2>1, <2>2, SMTT(60) DEF Own, BoxStep
<1>OwnPool. ASSUME Typed, Threaded, PoolOK, NEW i \in Threads, NEW to, Own(i, to)
    PROVE PoolOK'
  <2> USE <1>OwnPool
  <2>1. set' = set /\ rt' = rt /\ co' = co /\ Threads' = Threads
    BY Fixed DEF Own
  <2>2. occupied' <=> occupied
    BY <1>OwnOccupied DEF occupied
  <2>3. \A j \in Threads : worker'[j].collected = worker[j].collected
    BY DEF Own, Advance
  <2>4. Collected' = Collected
    BY <2>1, <2>3 DEF Collected
  <2>5. \A j \in Collected : worker'[j].startup_error = worker[j].startup_error
    <3> SUFFICES ASSUME NEW j \in Collected PROVE worker'[j].startup_error = worker[j].startup_error
      OBVIOUS
    <3>1. j \in Threads /\ worker[j].pc # "start"
      BY DEF Collected, Threaded, LifeOK
    <3> QED BY <3>1 DEF Own, Advance
  <2>6. rt.published => \A j \in Threads : worker'[j].collected /\ ~worker'[j].startup_error
    BY <2>3, <2>5 DEF PoolOK, Collected
  <2>7. rt.live
    <3>1. worker[i].pc \notin {"none", "done"}
      BY SMTT(60) DEF Own, Turns
    <3> QED BY <3>1 DEF PoolOK
  <2>8. rt.acks = Cardinality(Collected)'
    BY <2>4 DEF PoolOK
  <2>9. rt.start_ok => \A j \in Collected' : ~worker'[j].startup_error
    BY <2>4, <2>5 DEF PoolOK
  <2> QED BY <2>1, <2>2, <2>6, <2>7, <2>8, <2>9 DEF PoolOK
\* A reply that was passed by is still to be rung, or the doorbell has a count.
<1>OwnRung. ASSUME Typed, Threaded, NEW i \in Threads, NEW to, Own(i, to), NEW c \in Channels,
           ~event', Rung(c)
    PROVE Rung(c)'
  <2> USE <1>OwnRung
  <2>1. owner(c)' = owner(c) /\ owner(c) \in Threads /\ ~event
    <3>1. owner(c) \in Threads
      BY WorkerConstants, SMTT(60) DEF Typed, owner, Threads, Channels
    <3> QED BY <3>1, Fixed DEF Own, RingStep
  <2>2. SUFFICES ASSUME mailbox'[c] \in {"REPLIED", "BROKEN"}
                 PROVE \/ worker'[owner(c)].pc = "notify" /\ worker'[owner(c)].chan = c
                       \/ worker'[owner(c)].error
    BY <2>1 DEF Rung, visible, At
  <2>3. CASE owner(c) # i
    <3>1. worker'[owner(c)] = worker[owner(c)]
      BY <2>1, <2>3 DEF Own, Advance
    <3>2. ~(worker[i].pc \in {"execute", "running"} /\ worker[i].chan = c)
      BY <2>3 DEF Threaded, JobOK
    <3>3. mailbox'[c] = mailbox[c]
      BY <3>2 DEF Own, BoxStep
    <3> QED BY <2>2, <3>1, <3>3 DEF Rung, visible, At
  <2>4. CASE owner(c) = i
    <3>1. CASE worker[i].pc = "running" /\ worker[i].chan = c
      <4>1. to = "notify"
        BY <3>1, SMTT(60) DEF Own, Turns
      <4> QED BY <2>4, <3>1, <4>1 DEF Own, Advance
    <3>2. CASE ~(worker[i].pc = "running" /\ worker[i].chan = c)
      <4>1. mailbox'[c] = mailbox[c]
        BY <2>2, <3>2 DEF Own, BoxStep
      <4>2. CASE worker[i].error
        BY <2>4, <4>2 DEF Own, Advance
      <4>3. CASE worker[i].pc = "notify"
        BY <2>4, <4>3 DEF Own, RingStep
      <4> QED BY <2>2, <2>4, <4>1, <4>2, <4>3 DEF Rung, visible, At
    <3> QED BY <3>1, <3>2
  <2> QED BY <2>3, <2>4
\* So is a startup.
<1>OwnTold. ASSUME Typed, Threaded, NEW i \in Threads, NEW to, Own(i, to), NEW j \in Threads,
           ~event', Told(j)
    PROVE Told(j)'
  <2> USE <1>OwnTold
  <2>1. CASE j # i
    <3>1. worker'[j] = worker[j]
      BY <2>1 DEF Own, Advance
    <3> QED BY <3>1 DEF Told
  <2>2. CASE j = i /\ worker[i].pc = "start"
    BY <2>2 DEF Own, RingStep, Told
  <2>3. CASE j = i /\ worker[i].pc # "start"
    BY <2>3 DEF Own, Advance, Told
  <2> QED BY <2>1, <2>2, <2>3
<1>OwnCall. ASSUME Typed, Threaded, CallOK, NEW i \in Threads, NEW to, Own(i, to)
    PROVE CallOK'
  <2> USE <1>OwnCall
  <2>1. set' = set /\ rt' = rt /\ co' = co /\ Threads' = Threads /\ Created' = Created
    BY Fixed DEF Own, Created
  <2>2. ~event' => ~event
    BY DEF Own, RingStep
  <2>3. co.pc = "submit" => mailbox'[co.arg] = "EMPTY"
    BY <1>OwnOccupied DEF CallOK
  <2>4. Created \subseteq Threads
    BY DEF Created
  <2>5. co.pc = "look" /\ ~event' => \A c \in Channels : c < co.arg => Rung(c)'
    BY <2>2, <1>OwnRung DEF CallOK
  <2>6. co.pc = "sleep" /\ ~event' => \A c \in Channels : Rung(c)'
    BY <2>2, <1>OwnRung DEF CallOK
  <2>7. co.pc = "rescan" /\ ~event' => \A j \in Created : j < co.arg => Told(j)'
    BY <2>2, <2>4, <1>OwnTold DEF CallOK
  <2>8. co.pc = "doze" /\ ~event' /\ ~rt.stopping => \A j \in Created : Told(j)'
    BY <2>2, <2>4, <1>OwnTold DEF CallOK
  <2>9. co.pc = "await" => co.arg \in Threads
    BY DEF CallOK
  <2>10. co.pc = "submit" => co.arg \in Channels /\ rt.published /\ ~rt.stopping /\ rt.submitted < set.jobs
    BY DEF CallOK
  <2> QED BY <2>1, <2>3, <2>5, <2>6, <2>7, <2>8, <2>9, <2>10 DEF CallOK
<1> SUFFICES ASSUME NEW i \in Threads, NEW to \in ThreadPcs, Own(i, to) PROVE PoolInv'
  OBVIOUS
<1>1. Typed /\ Threaded /\ Running /\ PoolOK /\ CallOK /\ set' = set
  BY DEF PoolInv, Own
<1>3. Typed' /\ PoolOK' /\ CallOK'
  BY <1>1, <1>OwnTyped, <1>OwnPool, <1>OwnCall
<1>4. Threaded'
  BY <1>1, <1>OwnLife, <1>OwnLock, <1>OwnWait, <1>OwnJob, Fixed DEF Threaded
<1>5. Running'
  BY <1>1, <1>OwnRunning DEF Running
<1> QED BY <1>3, <1>4, <1>5 DEF PoolInv

\* A spurious wakeup only removes a waiter.
LEMMA SpuriousInv ==
  ASSUME PoolInv, set' = set, NEW i \in Threads, Spurious(i)
  PROVE PoolInv'
<1>1. Typed /\ Threaded /\ Running /\ PoolOK /\ CallOK
  BY DEF PoolInv
<1>2. /\ UNCHANGED <<mailbox, worker, mutex, event, rt, co>> /\ Threads' = Threads
      /\ \A c : owner(c)' = owner(c)
  BY Fixed DEF Spurious
<1>3. PICK t \in waiters[i] : waiters' = [waiters EXCEPT ![i] = waiters[i] \ {t}]
  BY DEF Spurious
<1>4. /\ waiters' \in [Threads -> SUBSET {"worker", "coord"}]
      /\ \A j \in Threads : waiters'[j] \subseteq waiters[j]
  BY <1>1, <1>3 DEF Typed
<1>5. Typed'
  BY <1>1, <1>2, <1>4 DEF Typed
<1>6. \A j \in Threads : WaitOK(j)'
  BY <1>1, <1>2, <1>4 DEF Threaded, WaitOK
<1>7. \A j \in Threads : LifeOK(j)' /\ LockOK(j)' /\ JobOK(j)'
  BY <1>1, <1>2, ThreadsKept
<1>8. Running'
  BY <1>1, <1>2, ThreadsKept
<1>9. PoolOK' /\ CallOK'
  BY <1>1, <1>2 DEF PoolOK, CallOK, Rung, Told, Created, occupied, visible, At, Collected
<1> QED BY <1>2, <1>5, <1>6, <1>7, <1>8, <1>9 DEF PoolInv, Threaded

-----------------------------------------------------------------------------
(* A step of the coordinator                                               *)

\* At most places nothing is promised.
Plain == {"idle", "stop", "join", "drain", "scan", "read"}

\* The coordinator waits on a condition only in create.
LEMMA NoCoord ==
  ASSUME Threaded, NEW i \in Threads, co.pc # "await"
  PROVE "coord" \notin waiters[i]
BY DEF Threaded, WaitOK

\* Only the coordinator's place and the doorbell change.
Moves ==
  /\ UNCHANGED <<mailbox, worker, mutex, waiters, rt>>
  /\ event' \in BOOLEAN
  /\ rt.live /\ co.pc # "await"

-----------------------------------------------------------------------------
(* The steps of the coordinator that change more than its place            *)

\* The parts of the runtime a step of the coordinator does not touch.
LEMMA RuntimeTyped ==
  ASSUME Typed
  PROVE /\ rt.created \in Nat /\ rt.joined \in Nat /\ rt.acks \in Nat /\ rt.submitted \in Nat
        /\ set.workers \in Nat /\ set.jobs \in Nat
BY WorkerConstants, SMTT(60) DEF Typed, RuntimeRecord

\* The coordinator writes collected, stop and joined, nothing else of a thread.
Stays ==
  /\ worker' \in [Threads -> WorkerRecord]
  /\ \A j \in Threads : /\ worker'[j].pc = worker[j].pc /\ worker'[j].chan = worker[j].chan
                        /\ worker'[j].startup_done = worker[j].startup_done
                        /\ worker'[j].startup_error = worker[j].startup_error

\* Every step of the coordinator keeps the invariant.
LEMMA CoordinatorInv ==
  ASSUME PoolInv, set' = set, Coordinator \/ wait_timeout
  PROVE PoolInv'
\* The coordinator goes on in its call, or returns.
<1>Goes. ASSUME Typed, NEW p \in CallPcs, NEW k \in Nat, To(p, k)
    PROVE co'.pc = p /\ co'.arg = k /\ co' \in [pc : CallPcs, arg : Nat]
  <2> USE <1>Goes
  <2>1. co \in [pc : CallPcs, arg : Nat]
    BY DEF Typed
  <2>2. co' = [co EXCEPT !.pc = p, !.arg = k]
    BY DEF To
  <2>3. co' \in [pc : CallPcs, arg : Nat]
    BY <2>1, <2>2
  <2>4. co'.pc = p /\ co'.arg = k
    BY <2>1, <2>2, SMTT(60)
  <2> QED BY <2>3, <2>4
<1>Returns. ASSUME Return
    PROVE co'.pc = "idle" /\ co' \in [pc : CallPcs, arg : Nat]
  BY <1>Returns, SMTT(60) DEF Return, Idle, CallPcs
<1>PlainCall. ASSUME co'.pc \in Plain
    PROVE CallOK'
  BY <1>PlainCall DEF Plain, CallOK
\* A step that only moves the coordinator.
<1>CoordInv. ASSUME PoolInv, set' = set, UNCHANGED <<mailbox, worker, mutex, waiters, rt>>,
           event' \in BOOLEAN, co' \in [pc : CallPcs, arg : Nat], rt.live,
           \A i \in Threads : "coord" \notin waiters[i], CallOK'
    PROVE PoolInv'
  <2> USE <1>CoordInv
  <2>1. Typed /\ Threaded /\ Running /\ PoolOK
    BY DEF PoolInv
  <2>2. Threads' = Threads /\ \A c : owner(c)' = owner(c)
    BY Fixed
  <2>3. Typed'
    BY <2>1, <2>2 DEF Typed
  <2>4. \A j \in Threads : WaitOK(j)'
    BY <2>1, <2>2 DEF Threaded, WaitOK
  <2>5. \A j \in Threads : LifeOK(j)' /\ LockOK(j)' /\ JobOK(j)'
    BY <2>1, <2>2, ThreadsKept
  <2>6. Running'
    BY <2>1, <2>2, ThreadsKept
  <2>7. PoolOK'
    BY <2>1, <2>2 DEF PoolOK, occupied, Collected
  <2> QED BY <2>2, <2>3, <2>4, <2>5, <2>6, <2>7 DEF PoolInv, Threaded
<1>MovesInv. ASSUME PoolInv, set' = set, Moves, co' \in [pc : CallPcs, arg : Nat], CallOK'
    PROVE PoolInv'
  <2> USE <1>MovesInv
  <2>1. \A i \in Threads : "coord" \notin waiters[i]
    BY NoCoord DEF PoolInv, Moves
  <2> QED BY <2>1, <1>CoordInv DEF Moves
<1>PlainInv. ASSUME PoolInv, set' = set, Moves,
           Return \/ \E p \in Plain, k \in Nat : To(p, k)
    PROVE PoolInv'
  <2> USE <1>PlainInv
  <2>1. CASE Return
    BY <2>1, <1>Returns, <1>PlainCall, <1>MovesInv DEF Plain
  <2>2. CASE \E p \in Plain, k \in Nat : To(p, k)
    <3>1. PICK p \in Plain, k \in Nat : To(p, k)
      BY <2>2
    <3>2. p \in CallPcs
      BY DEF Plain, CallPcs
    <3> QED BY <3>1, <3>2, <1>Goes, <1>PlainCall, <1>MovesInv DEF PoolInv
  <2> QED BY <2>1, <2>2
<1>AwaitInv. ASSUME PoolInv, set' = set, create_await
    PROVE PoolInv'
  <2> USE <1>AwaitInv
  <2>1. PICK i \in uncollected : To("await", i)
    BY DEF create_await
  <2>2. i \in Threads /\ i \in Nat
    BY SMTT(60) DEF uncollected, Created, Threads, PoolInv, Typed
  <2>3. co'.pc = "await" /\ co'.arg = i /\ co' \in [pc : CallPcs, arg : Nat]
    BY <2>1, <2>2, <1>Goes DEF PoolInv, CallPcs
  <2>4. CallOK'
    BY <2>2, <2>3, Fixed DEF CallOK
  <2>5. Moves
    BY DEF create_await, Moves, Call, PoolInv, Typed
  <2> QED BY <2>3, <2>4, <2>5, <1>MovesInv
<1>LookInv. ASSUME PoolInv, set' = set, create_look
    PROVE PoolInv'
  <2> USE <1>LookInv
  <2>1. Typed /\ Threaded /\ Running /\ PoolOK /\ CallOK /\ Threads' = Threads
    BY Fixed DEF PoolInv
  <2>2. /\ co.pc = "await" /\ rt.live /\ "coord" \notin waiters[co.arg]
        /\ UNCHANGED <<mailbox, worker, mutex, event, rt>> /\ event' \in BOOLEAN
    BY <2>1 DEF create_look, Call, Typed
  <2>3. CASE Return /\ UNCHANGED waiters
    <3>1. \A i \in Threads : "coord" \notin waiters[i]
      BY <2>1, <2>2 DEF Threaded, WaitOK
    <3> QED BY <2>2, <2>3, <3>1, <1>Returns, <1>PlainCall, <1>CoordInv DEF Plain
  <2>4. CASE /\ ~worker[co.arg].startup_done /\ UNCHANGED co
             /\ waiters' = [waiters EXCEPT ![co.arg] = waiters[co.arg] \cup {"coord"}]
    <3>1. co.arg \in Threads
      BY <2>1, <2>2 DEF CallOK
    <3>2. /\ waiters' \in [Threads -> SUBSET {"worker", "coord"}]
          /\ waiters'[co.arg] = waiters[co.arg] \cup {"coord"}
          /\ \A j \in Threads \ {co.arg} : waiters'[j] = waiters[j]
      BY <2>1, <2>4, <3>1 DEF Typed
    <3>3. Typed'
      BY <2>1, <2>2, <2>4, <3>2 DEF Typed
    <3>4. \A j \in Threads : WaitOK(j)'
      BY <2>1, <2>2, <2>4, <3>2 DEF Threaded, WaitOK
    <3>5. \A j \in Threads : LifeOK(j)' /\ LockOK(j)' /\ JobOK(j)'
      BY <2>1, <2>2, ThreadsKept
    <3>6. Running'
      BY <2>1, <2>2, ThreadsKept
    <3>7. PoolOK'
      BY <2>1, <2>2, <2>4 DEF PoolOK, occupied, Collected
    <3>8. CallOK'
      BY <2>1, <2>2, <2>4 DEF CallOK
    <3> QED BY <2>1, <3>3, <3>4, <3>5, <3>6, <3>7, <3>8 DEF PoolInv, Threaded
  <2> QED BY <2>3, <2>4 DEF create_look
<1>SubmitInv. ASSUME PoolInv, set' = set, NEW c \in Channels, submit_check(c)
    PROVE PoolInv'
  <2> USE <1>SubmitInv
  <2>1. c \in Nat
    BY SMTT(60) DEF Channels
  <2>2. co'.pc = "submit" /\ co'.arg = c /\ co' \in [pc : CallPcs, arg : Nat]
    BY <2>1, <1>Goes DEF PoolInv, CallPcs, submit_check
  <2>3. CallOK'
    BY <2>2 DEF CallOK, submit_check
  <2>4. Moves
    BY DEF submit_check, Moves, Call, PoolInv, Typed
  <2> QED BY <2>2, <2>3, <2>4, <1>MovesInv
\* The calls that only return or go to a plain place.
<1>PlainCalls. ASSUME PoolInv, set' = set,
           \/ wait_call \/ wait_poll \/ wait_timeout \/ lifecycle_call \/ lifecycle_poll
           \/ lifecycle_scan("scan", "read")
    PROVE PoolInv'
  <2> USE <1>PlainCalls
  <2>1. /\ UNCHANGED <<mailbox, worker, mutex, waiters, event, rt>> /\ rt.live
        /\ co.pc \in {"idle", "sleep", "doze", "scan"}
    BY DEF wait_call, wait_poll, wait_timeout, lifecycle_call, lifecycle_poll,
                 lifecycle_scan, Call
  <2>2. Moves
    BY <2>1 DEF Moves, PoolInv, Typed
  <2>3. 0 \in Nat /\ co.arg + 1 \in Nat
    BY SMTT(60) DEF PoolInv, Typed
  <2>4. Return \/ \E p \in Plain, k \in Nat : To(p, k)
    BY <2>3 DEF wait_call, wait_poll, wait_timeout, lifecycle_call, lifecycle_poll,
                 lifecycle_scan, Plain
  <2> QED BY <2>2, <2>4, <1>PlainInv
<1>DrainInv. ASSUME PoolInv, set' = set, wait_drain
    PROVE PoolInv'
  <2> USE <1>DrainInv
  <2>1. Moves /\ co.pc = "drain" /\ Typed
    BY DEF Moves, wait_drain, Call, PoolInv
  <2>2. CASE UNCHANGED co
    BY <2>1, <2>2, <1>PlainCall, <1>MovesInv DEF Typed, Plain
  <2>3. CASE Return
    BY <2>1, <2>3, <1>PlainInv
  <2>4. CASE To("look", 0)
    <3>1. co'.pc = "look" /\ co'.arg = 0 /\ co' \in [pc : CallPcs, arg : Nat]
      BY <2>1, <2>4, <1>Goes, SMTT(60) DEF CallPcs
    <3>2. \A c \in Channels : ~(c < co'.arg)
      BY <3>1, SMTT(60) DEF Channels
    <3>3. CallOK'
      BY <3>1, <3>2 DEF CallOK
    <3> QED BY <2>1, <3>1, <3>3, <1>MovesInv
  <2> QED BY <2>2, <2>3, <2>4 DEF wait_drain
<1>WaitLookInv. ASSUME PoolInv, set' = set, wait_look
    PROVE PoolInv'
  <2> USE <1>WaitLookInv
  <2>1. /\ Moves /\ co.pc = "look" /\ Typed /\ CallOK /\ UNCHANGED event
        /\ co.arg \in Nat
    <3>1. Moves /\ co.pc = "look" /\ Typed /\ CallOK /\ UNCHANGED event
      BY DEF Moves, wait_look, Call, PoolInv, Typed
    <3> QED BY <3>1, SMTT(60) DEF Typed
  <2>2. \A c \in Channels : Rung(c) => Rung(c)'
    BY <2>1 DEF Rung, visible, At, Moves, owner
  <2>3. CASE Return
    BY <2>1, <2>3, <1>PlainInv
  <2>4. CASE ~visible(co.arg) /\ To("look", co.arg + 1)
    <3>1. co'.pc = "look" /\ co'.arg = co.arg + 1 /\ co' \in [pc : CallPcs, arg : Nat]
      BY <2>1, <2>4, <1>Goes, SMTT(60) DEF CallPcs
    <3>2. \A c \in Channels : c < co'.arg => c < co.arg \/ c = co.arg
      BY <2>1, <3>1, SMTT(60) DEF Channels
    <3>3. ~event => \A c \in Channels : c < co'.arg => Rung(c)
      BY <2>1, <2>4, <3>2 DEF CallOK, Rung
    <3>4. CallOK'
      BY <2>1, <2>2, <3>1, <3>3 DEF CallOK
    <3> QED BY <2>1, <3>1, <3>4, <1>MovesInv
  <2>5. CASE ~(co.arg < C) /\ To("sleep", 0)
    <3>1. co'.pc = "sleep" /\ co' \in [pc : CallPcs, arg : Nat]
      BY <2>1, <2>5, <1>Goes, SMTT(60) DEF CallPcs
    <3>2. \A c \in Channels : c < co.arg
      BY <2>1, <2>5, WorkerConstants, SMTT(60) DEF Channels
    <3>3. ~event => \A c \in Channels : Rung(c)
      BY <2>1, <3>2 DEF CallOK
    <3>4. CallOK'
      BY <2>1, <2>2, <3>1, <3>3 DEF CallOK
    <3> QED BY <2>1, <3>1, <3>4, <1>MovesInv
  <2> QED BY <2>3, <2>4, <2>5 DEF wait_look
<1>RescanInv. ASSUME PoolInv, set' = set, lifecycle_scan("rescan", "doze")
    PROVE PoolInv'
  <2> USE <1>RescanInv
  <2>1. /\ Moves /\ co.pc = "rescan" /\ Typed /\ CallOK /\ UNCHANGED event
        /\ co.arg \in Nat
    <3>1. Moves /\ co.pc = "rescan" /\ Typed /\ CallOK /\ UNCHANGED event
      BY DEF Moves, lifecycle_scan, Call, PoolInv, Typed
    <3> QED BY <3>1, SMTT(60) DEF Typed
  <2>2. (\A i \in Created : Told(i) => Told(i)') /\ Created' = Created
    BY <2>1, Fixed DEF Told, Created, Moves
  <2>3. CASE Return
    BY <2>1, <2>3, <1>PlainInv
  <2>4. CASE /\ co.arg \in Created /\ To("rescan", co.arg + 1)
             /\ ~(co.arg \in uncollected /\ worker[co.arg].startup_done)
    <3>1. co'.pc = "rescan" /\ co'.arg = co.arg + 1 /\ co' \in [pc : CallPcs, arg : Nat]
      BY <2>1, <2>4, <1>Goes, SMTT(60) DEF CallPcs
    <3>2. \A i \in Created : i < co'.arg => i < co.arg \/ i = co.arg
      BY <2>1, <3>1, SMTT(60) DEF Created, Threads
    <3>3. Told(co.arg)
      BY <2>4 DEF Told, uncollected
    <3>4. ~event => \A i \in Created : i < co'.arg => Told(i)
      BY <2>1, <3>2, <3>3 DEF CallOK
    <3>5. CallOK'
      BY <2>1, <2>2, <3>1, <3>4 DEF CallOK
    <3> QED BY <2>1, <3>1, <3>5, <1>MovesInv
  <2>5. CASE co.arg \notin Created /\ To("doze", 0)
    <3>1. co'.pc = "doze" /\ co' \in [pc : CallPcs, arg : Nat]
      BY <2>1, <2>5, <1>Goes, SMTT(60) DEF CallPcs
    <3>2. \A i \in Created : i < co.arg
      <4>1. set.workers \in Nat /\ rt.created \in Nat
        BY <2>1, WorkerConstants, SMTT(60) DEF Typed, RuntimeRecord
      <4> QED BY <2>1, <2>5, <4>1, SMTT(60) DEF Created, Threads
    <3>3. ~event => \A i \in Created : Told(i)
      BY <2>1, <3>2 DEF CallOK
    <3>4. CallOK'
      BY <2>1, <2>2, <3>1, <3>3 DEF CallOK
    <3> QED BY <2>1, <3>1, <3>4, <1>MovesInv
  <2> QED BY <2>3, <2>4, <2>5 DEF lifecycle_scan
<1>ReadInv. ASSUME PoolInv, set' = set, lifecycle_read
    PROVE PoolInv'
  <2> USE <1>ReadInv
  <2>1. Moves /\ Typed
    BY DEF Moves, lifecycle_read, Call, PoolInv
  <2>2. CASE Return
    BY <2>1, <2>2, <1>PlainInv
  <2>3. CASE rt.stopping /\ To("doze", 0)
    <3>1. co'.pc = "doze" /\ co' \in [pc : CallPcs, arg : Nat]
      BY <2>1, <2>3, <1>Goes, SMTT(60) DEF CallPcs
    <3>2. CallOK'
      BY <2>1, <2>3, <3>1 DEF CallOK, Moves
    <3> QED BY <2>1, <3>1, <3>2, <1>MovesInv
  <2>4. CASE To("rescan", 0)
    <3>1. co'.pc = "rescan" /\ co'.arg = 0 /\ co' \in [pc : CallPcs, arg : Nat]
      BY <2>1, <2>4, <1>Goes, SMTT(60) DEF CallPcs
    <3>2. \A i \in Created' : ~(i < co'.arg)
      BY <3>1, SMTT(60) DEF Created, Threads
    <3>3. CallOK'
      BY <3>1, <3>2 DEF CallOK
    <3> QED BY <2>1, <3>1, <3>3, <1>MovesInv
  <2> QED BY <2>2, <2>3, <2>4 DEF lifecycle_read
<1>CreateInv. ASSUME PoolInv, set' = set, start_create
    PROVE PoolInv'
  <2> USE <1>CreateInv
  <2>1. Typed /\ Threaded /\ Running /\ PoolOK /\ Threads' = Threads /\ rt \in RuntimeRecord
    BY Fixed DEF PoolInv, Typed
  <2>2. /\ co.pc = "idle" /\ rt.live /\ rt.created < set.workers
        /\ UNCHANGED <<mailbox, mutex, waiters, event, co>>
    BY DEF start_create, Call
  <2>3. CallOK'
    BY <2>2, <1>PlainCall DEF Plain
  <2>4. occupied' <=> occupied
    BY <2>2 DEF occupied
  <2>5. CASE /\ rt' = [rt EXCEPT !.start_ok = FALSE] /\ UNCHANGED worker
    <3>1. rt' \in RuntimeRecord
      BY <2>1, <2>5 DEF RuntimeRecord
    <3>2. /\ rt'.live = rt.live /\ rt'.created = rt.created /\ rt'.joined = rt.joined
          /\ rt'.acks = rt.acks /\ ~rt'.start_ok /\ rt'.published = rt.published
          /\ rt'.stopping = rt.stopping /\ rt'.submitted = rt.submitted
      BY <2>1, <2>5, SMTT(60) DEF RuntimeRecord
    <3>3. Typed'
      BY <2>1, <2>2, <2>5, <3>1 DEF Typed
    <3>4. \A j \in Threads : LifeOK(j)' /\ LockOK(j)' /\ WaitOK(j)' /\ JobOK(j)'
      BY <2>1, <2>2, <2>5, <3>2, ThreadsKept DEF Threaded, WaitOK
    <3>5. Running'
      BY <2>1, <2>2, <2>5, <3>2, ThreadsKept
    <3>6. PoolOK'
      BY <2>1, <2>2, <2>4, <2>5, <3>2 DEF PoolOK, Collected
    <3> QED BY <2>1, <2>3, <3>3, <3>4, <3>5, <3>6 DEF PoolInv, Threaded
  <2>6. CASE rt' = [rt EXCEPT !.created = @ + 1] /\ Go(rt.created, "start")
    <3>0. PICK i \in Threads : i = rt.created
      BY <2>1, <2>2, RuntimeTyped, SMTT(60) DEF Threads
    <3>1. i \in Threads /\ i = rt.created /\ i \in Nat /\ rt.created + 1 \in Nat
      BY <2>1, <3>0, RuntimeTyped, SMTT(60)
    <3>2. rt' \in RuntimeRecord
      BY <2>1, <2>6, <3>1 DEF RuntimeRecord
    <3>3. /\ rt'.live = rt.live /\ rt'.created = i + 1 /\ rt'.joined = rt.joined
          /\ rt'.acks = rt.acks /\ rt'.start_ok = rt.start_ok /\ rt'.published = rt.published
          /\ rt'.stopping = rt.stopping /\ rt'.submitted = rt.submitted
      BY <2>1, <2>6, <3>1, SMTT(60) DEF RuntimeRecord
    <3>4. /\ worker[i].pc = "none" /\ ~worker[i].startup_done /\ ~worker[i].collected
          /\ ~worker[i].joined
      <4>1. ~(i < rt.created) /\ ~(i < rt.joined)
        BY <2>1, <3>1, RuntimeTyped, SMTT(60) DEF PoolOK
      <4>2. worker[i].pc = "none"
        BY <2>1, <3>1, <4>1 DEF Threaded, LifeOK
      <4> QED BY <2>1, <3>1, <4>1, <4>2 DEF Threaded, LifeOK
    <3>5. Advance(i, "start")
      BY <2>1, <2>6, <3>1, <3>4, GoAdvance DEF ThreadPcs
    <3>6. \A j \in Threads : (j < rt'.created <=> j < rt.created \/ j = i) /\ ~(i < rt.created)
      BY <3>1, <3>3, SMTT(60) DEF Threads
    <3>7. Typed'
      BY <2>1, <2>2, <3>2, <3>5 DEF Typed, Advance
    <3>8. \A j \in Threads \ {i} : LifeOK(j)' /\ LockOK(j)' /\ WaitOK(j)' /\ JobOK(j)'
      <4> SUFFICES ASSUME NEW j \in Threads \ {i}
                   PROVE  LifeOK(j)' /\ LockOK(j)' /\ WaitOK(j)' /\ JobOK(j)'
        OBVIOUS
      <4>1. worker'[j] = worker[j] /\ (j < rt'.created <=> j < rt.created)
        BY <3>5, <3>6 DEF Advance
      <4>2. LifeOK(j) /\ LockOK(j) /\ WaitOK(j) /\ JobOK(j)
        BY <2>1 DEF Threaded
      <4>3. LifeOK(j)'
        BY <3>3, <4>1, <4>2 DEF LifeOK
      <4> QED BY <2>2, <4>1, <4>2, <4>3 DEF LockOK, WaitOK, JobOK, owner
    <3>9. LifeOK(i)' /\ LockOK(i)' /\ WaitOK(i)' /\ JobOK(i)'
      <4>1. /\ worker'[i].pc = "start" /\ ~worker'[i].startup_done /\ ~worker'[i].collected
            /\ ~worker'[i].joined /\ i < rt'.created
        BY <3>1, <3>4, <3>5, <3>6 DEF Advance
      <4>2. ~(i < rt'.joined)
        BY <2>1, <3>1, <3>3, <3>4 DEF Threaded, LifeOK
      <4>3. LifeOK(i)'
        BY <4>1, <4>2 DEF LifeOK
      <4>4. mutex[i] # "worker" /\ "worker" \notin waiters[i] /\ "coord" \notin waiters[i]
        BY <2>1, <2>2, <3>1, <3>4 DEF Threaded, LockOK, WaitOK
      <4> QED BY <2>2, <4>1, <4>3, <4>4 DEF LockOK, WaitOK, JobOK
    <3>10. Running'
      <4> SUFFICES ASSUME NEW c \in Channels, mailbox[c] = "RUNNING"
                   PROVE worker'[owner(c)].pc = "running" /\ worker'[owner(c)].chan = c
        BY <2>2, Fixed DEF Running, RunOK, At
      <4>1. worker[owner(c)].pc = "running" /\ worker[owner(c)].chan = c
        BY <2>1 DEF Running, RunOK, At
      <4>2. owner(c) \in Threads
        BY <2>1, WorkerConstants, SMTT(60) DEF Typed, owner, Threads, Channels
      <4>3. owner(c) # i
        BY <3>4, <4>1
      <4> QED BY <3>5, <4>1, <4>2, <4>3 DEF Advance
    <3>11. \A j \in Threads : worker'[j].collected = worker[j].collected
                              /\ worker'[j].startup_error = worker[j].startup_error
      BY <3>4, <3>5 DEF Advance
    <3>12. Collected' = Collected
      BY <2>1, <3>11 DEF Collected
    <3>13. rt'.created <= set.workers /\ rt'.joined <= rt'.created
      BY <2>1, <2>2, <3>1, <3>3, RuntimeTyped, SMTT(60) DEF PoolOK
    <3>14. Collected \subseteq Threads
      BY DEF Collected
    <3>15. PoolOK'
      BY <2>1, <2>2, <2>4, <3>3, <3>11, <3>12, <3>13, <3>14 DEF PoolOK
    <3> QED BY <2>1, <2>3, <3>7, <3>8, <3>9, <3>10, <3>15 DEF PoolInv, Threaded
  <2> QED BY <2>5, <2>6 DEF start_create
<1>StaysThreaded. ASSUME Typed, Threaded, Running, set' = set, Stays, UNCHANGED <<mailbox, mutex>>
    PROVE Running' /\ \A j \in Threads : LockOK(j)' /\ JobOK(j)'
  <2> USE <1>StaysThreaded
  <2>1. \A c \in Channels : owner(c) \in Threads
    BY WorkerConstants, SMTT(60) DEF Typed, owner, Threads, Channels
  <2>2. Running'
    <3> SUFFICES ASSUME NEW c \in Channels, mailbox[c] = "RUNNING"
                 PROVE worker'[owner(c)].pc = "running" /\ worker'[owner(c)].chan = c
      BY DEF Running, RunOK, At, owner
    <3>1. worker[owner(c)].pc = "running" /\ worker[owner(c)].chan = c
      BY DEF Running, RunOK, At
    <3> QED BY <2>1, <3>1 DEF Stays
  <2>3. \A j \in Threads : LockOK(j)'
    BY DEF Threaded, LockOK, Stays
  <2>4. ASSUME NEW j \in Threads PROVE JobOK(j)'
    <3>1. JobOK(j) /\ worker'[j].pc = worker[j].pc /\ worker'[j].chan = worker[j].chan
      BY DEF Threaded, Stays
    <3> QED BY <3>1 DEF JobOK, owner
  <2> QED BY <2>2, <2>3, <2>4
\* Threads are numbered from zero.
<1>ThreadCount. ASSUME Typed
    PROVE IsFiniteSet(Threads) /\ Cardinality(Threads) = set.workers
  <2> USE <1>ThreadCount
  <2>1. set.workers \in Nat /\ 0 \in Int /\ set.workers - 1 \in Int
    BY RuntimeTyped, SMTT(60)
  <2>2. IsFiniteSet(0 .. set.workers - 1)
    BY <2>1, FS_Interval
  <2>3. Cardinality(0 .. set.workers - 1) = IF 0 > set.workers - 1 THEN 0 ELSE set.workers - 1 - 0 + 1
    BY <2>1, FS_Interval
  <2> QED BY <2>1, <2>2, <2>3, SMTT(60) DEF Threads
<1>CollectInv. ASSUME PoolInv, set' = set, NEW i \in Threads, start_collect(i)
    PROVE PoolInv'
  <2> USE <1>CollectInv
  <2>1. Typed /\ Threaded /\ Running /\ PoolOK /\ Threads' = Threads /\ rt \in RuntimeRecord
    BY Fixed DEF PoolInv, Typed
  <2>2. /\ co.pc = "idle" /\ rt.live /\ worker[i].startup_done /\ ~worker[i].collected
        /\ rt.start_ok /\ UNCHANGED <<mailbox, mutex, waiters, event, co>>
    BY DEF start_collect, Call, starting, workers_failed, uncollected
  <2>3. CallOK'
    BY <2>2, <1>PlainCall DEF Plain
  <2> DEFINE w == [worker[i] EXCEPT !.collected = TRUE]
  <2>4. worker[i] \in WorkerRecord /\ worker' = [worker EXCEPT ![i] = w]
    BY <2>1 DEF start_collect, Typed
  <2>5. w \in WorkerRecord
    BY <2>4 DEF WorkerRecord
  <2>6. /\ w.pc = worker[i].pc /\ w.chan = worker[i].chan /\ w.joined = worker[i].joined
        /\ w.startup_done = worker[i].startup_done
        /\ w.startup_error = worker[i].startup_error /\ w.collected
    BY <2>4, SMTT(60) DEF WorkerRecord
  <2> HIDE DEF w
  <2>7. /\ worker'[i] = w /\ worker' \in [Threads -> WorkerRecord]
        /\ \A j \in Threads \ {i} : worker'[j] = worker[j]
    BY <2>1, <2>4, <2>5, PutRecord
  <2>8. Stays
    BY <2>6, <2>7 DEF Stays
  <2>9. /\ rt.acks + 1 \in Nat /\ (~worker[i].startup_error) \in BOOLEAN
        /\ (~worker[i].startup_error /\ rt.acks + 1 = set.workers) \in BOOLEAN
    <3>1. rt.acks + 1 \in Nat
      BY <2>1, RuntimeTyped, SMTT(60)
    <3> QED BY <3>1
  <2>10. rt' = [rt EXCEPT !.acks = rt.acks + 1, !.start_ok = ~worker[i].startup_error,
                          !.published = ~worker[i].startup_error /\ rt.acks + 1 = set.workers]
    BY DEF start_collect
  <2>11. rt' \in RuntimeRecord
    BY <2>1, <2>9, <2>10 DEF RuntimeRecord
  <2>12. /\ rt'.live = rt.live /\ rt'.created = rt.created /\ rt'.joined = rt.joined
         /\ rt'.acks = rt.acks + 1 /\ rt'.start_ok = ~worker[i].startup_error
         /\ rt'.published = (~worker[i].startup_error /\ rt.acks + 1 = set.workers)
         /\ rt'.stopping = rt.stopping /\ rt'.submitted = rt.submitted
    BY <2>1, <2>10, SMTT(60) DEF RuntimeRecord
  <2>13. Typed'
    BY <2>1, <2>2, <2>7, <2>11 DEF Typed
  <2>14. \A j \in Threads : LifeOK(j)' /\ WaitOK(j)'
    <3>1. \A j \in Threads : worker'[j].joined = worker[j].joined
                             /\ (worker'[j].collected <=> worker[j].collected \/ j = i)
      BY <2>6, <2>7
    <3>2. ASSUME NEW j \in Threads PROVE LifeOK(j)'
      <4>1. /\ LifeOK(j) /\ worker'[j].pc = worker[j].pc
            /\ worker'[j].startup_done = worker[j].startup_done
        BY <2>1, <2>8 DEF Threaded, Stays
      <4>2. worker'[j].collected => worker[j].startup_done
        BY <2>2, <3>1, <4>1 DEF LifeOK
      <4> QED BY <2>12, <3>1, <4>1, <4>2 DEF LifeOK
    <3>3. \A j \in Threads : WaitOK(j)'
      BY <2>1, <2>2, <2>8 DEF Threaded, WaitOK, Stays
    <3> QED BY <3>2, <3>3
  <2>15. Collected' = Collected \cup {i} /\ i \notin Collected
    BY <2>1, <2>2, <2>6, <2>7 DEF Collected
  <2>16. IsFiniteSet(Collected) /\ Collected \cup {i} \in SUBSET Threads
    BY <2>1, <1>ThreadCount, FS_Subset DEF Collected
  <2>17. Cardinality(Collected \cup {i}) = rt.acks + 1
    <3>1. Cardinality(Collected \cup {i}) = IF i \in Collected THEN Cardinality(Collected)
                                            ELSE Cardinality(Collected) + 1
      BY <2>16, FS_AddElement
    <3>2. rt.acks = Cardinality(Collected)
      BY <2>1 DEF PoolOK
    <3> QED BY <2>15, <3>1, <3>2
  <2>18. rt'.acks = Cardinality(Collected')
    BY <2>12, <2>15, <2>17
  <2>19. ~worker[i].startup_error => \A j \in Collected' : ~worker'[j].startup_error
    <3>1. \A j \in Collected : j \in Threads /\ ~worker[j].startup_error
      BY <2>1, <2>2 DEF PoolOK, Collected
    <3> QED BY <2>8, <2>15, <3>1 DEF Stays
  <2>20. rt'.published => \A j \in Threads : worker'[j].collected /\ ~worker'[j].startup_error
    <3> SUFFICES ASSUME ~worker[i].startup_error, rt.acks + 1 = set.workers
                 PROVE \A j \in Threads : worker'[j].collected /\ ~worker'[j].startup_error
      BY <2>12
    <3>1. Threads = Collected'
      BY <2>1, <2>15, <2>16, <2>17, <1>ThreadCount, FS_Subset
    <3> QED BY <2>1, <2>19, <3>1 DEF Collected
  <2>21. ~occupied /\ ~occupied'
    <3>1. ~rt.published
      BY DEF start_collect, starting
    <3>2. ~occupied
      BY <2>1, <3>1 DEF PoolOK
    <3> QED BY <2>2, <3>2 DEF occupied
  <2>22. PoolOK'
    BY <2>1, <2>2, <2>12, <2>18, <2>19, <2>20, <2>21 DEF PoolOK
  <2> QED BY <2>1, <2>2, <2>3, <2>8, <2>13, <2>14, <2>22, <1>StaysThreaded DEF PoolInv, Threaded
\* The mailbox of a submission was empty, so nobody has a job in it.
<1>PostInv. ASSUME PoolInv, set' = set, submit_post
    PROVE PoolInv'
  <2> USE <1>PostInv
  <2>1. Typed /\ Threaded /\ Running /\ PoolOK /\ CallOK /\ Threads' = Threads /\ rt \in RuntimeRecord
    BY Fixed DEF PoolInv, Typed
  <2>2. co.pc = "submit" /\ rt.live /\ UNCHANGED <<worker, mutex, event>>
    BY DEF submit_post, Call
  <2>3. PICK c \in Channels : /\ c = co.arg /\ mailbox[c] = "EMPTY" /\ rt.published
                              /\ ~rt.stopping /\ rt.submitted < set.jobs
    BY <2>1, <2>2 DEF CallOK
  <2>4. co' \in [pc : CallPcs, arg : Nat] /\ co'.pc = "idle"
    BY <1>Returns DEF submit_post
  <2>5. CallOK'
    BY <2>4, <1>PlainCall DEF Plain
  <2>6. /\ mailbox' \in [Channels -> States] /\ mailbox'[c] = "QUEUED"
        /\ \A d \in Channels \ {c} : mailbox'[d] = mailbox[d]
    BY <2>1, <2>3 DEF submit_post, Typed, States
  <2>7. owner(c) \in Threads
    BY <2>1, WorkerConstants, SMTT(60) DEF Typed, owner, Threads, Channels
  <2>8. waiters[owner(c)] \subseteq {"worker"}
    <3>1. "coord" \notin waiters[owner(c)]
      BY <2>1, <2>2, <2>7, NoCoord
    <3>2. waiters[owner(c)] \subseteq {"worker", "coord"}
      BY <2>1, <2>7 DEF Typed
    <3> QED BY <3>1, <3>2
  <2>9. /\ waiters' \in [Threads -> SUBSET {"worker", "coord"}] /\ waiters'[owner(c)] = {}
        /\ \A j \in Threads \ {owner(c)} : waiters'[j] = waiters[j]
    BY <2>1, <2>3, <2>7, <2>8, SignalWakes DEF submit_post
  <2>10. rt.submitted + 1 \in Nat /\ rt.submitted + 1 <= set.jobs
    BY <2>1, <2>3, RuntimeTyped, SMTT(60)
  <2>11. rt' = [rt EXCEPT !.submitted = rt.submitted + 1]
    BY DEF submit_post
  <2>12. rt' \in RuntimeRecord
    BY <2>1, <2>10, <2>11 DEF RuntimeRecord
  <2>13. /\ rt'.live = rt.live /\ rt'.created = rt.created /\ rt'.joined = rt.joined
         /\ rt'.acks = rt.acks /\ rt'.start_ok = rt.start_ok /\ rt'.published = rt.published
         /\ rt'.stopping = rt.stopping /\ rt'.submitted = rt.submitted + 1
    BY <2>1, <2>11, SMTT(60) DEF RuntimeRecord
  <2>14. Typed'
    BY <2>1, <2>2, <2>4, <2>6, <2>9, <2>12 DEF Typed
  <2>15. \A j \in Threads : LifeOK(j)' /\ LockOK(j)'
    BY <2>1, <2>2, <2>13 DEF Threaded, LifeOK, LockOK
  <2>16. ASSUME NEW j \in Threads PROVE WaitOK(j)'
    <3>1. waiters'[j] \subseteq waiters[j] /\ "coord" \notin waiters[j]
      BY <2>1, <2>2, <2>9, NoCoord
    <3> QED BY <2>1, <2>2, <3>1 DEF Threaded, WaitOK
  <2>17. ASSUME NEW j \in Threads PROVE JobOK(j)'
    <3>1. worker[j].chan \in Channels
      BY <2>1, SMTT(60) DEF Typed, WorkerRecord
    <3>2. JobOK(j)
      BY <2>1 DEF Threaded
    <3>3. worker[j].pc \in {"execute", "running"} => worker[j].chan # c
      BY <2>3, <3>2 DEF JobOK
    <3>4. worker[j].pc \in {"execute", "running"} => mailbox'[worker[j].chan] = mailbox[worker[j].chan]
      BY <2>6, <3>1, <3>3
    <3> QED BY <2>2, <3>2, <3>4 DEF JobOK, owner
  <2>18. Running'
    <3>1. \A d \in Channels : mailbox'[d] = "RUNNING" => mailbox[d] = "RUNNING"
      BY <2>6
    <3> QED BY <2>1, <2>2, <3>1 DEF Running, RunOK, At, owner
  <2>19. Collected' = Collected
    BY <2>1, <2>2 DEF Collected
  <2>20. PoolOK'
    BY <2>1, <2>2, <2>3, <2>10, <2>13, <2>19 DEF PoolOK
  <2> QED BY <2>1, <2>5, <2>14, <2>15, <2>16, <2>17, <2>18, <2>20 DEF PoolInv, Threaded
<1>PollInv. ASSUME PoolInv, set' = set, NEW c \in Channels, poll_job(c)
    PROVE PoolInv'
  <2> USE <1>PollInv
  <2>1. Typed /\ Threaded /\ Running /\ PoolOK /\ Threads' = Threads
    BY Fixed DEF PoolInv, Typed
  <2>2. /\ co.pc = "idle" /\ rt.live /\ mailbox[c] = "REPLIED"
        /\ UNCHANGED <<worker, mutex, waiters, event, rt, co>>
    BY DEF poll_job, Call
  <2>3. CallOK'
    BY <2>2, <1>PlainCall DEF Plain
  <2>4. /\ mailbox' \in [Channels -> States] /\ mailbox'[c] = "EMPTY"
        /\ \A d \in Channels \ {c} : mailbox'[d] = mailbox[d]
    BY <2>1 DEF poll_job, Typed, States
  <2>5. Typed'
    BY <2>1, <2>2, <2>4 DEF Typed
  <2>6. \A j \in Threads : LifeOK(j)' /\ LockOK(j)' /\ WaitOK(j)'
    BY <2>1, <2>2 DEF Threaded, LifeOK, LockOK, WaitOK
  <2>7. ASSUME NEW j \in Threads PROVE JobOK(j)'
    <3>1. worker[j].chan \in Channels
      BY <2>1, SMTT(60) DEF Typed, WorkerRecord
    <3>2. JobOK(j)
      BY <2>1 DEF Threaded
    <3>3. worker[j].pc \in {"execute", "running"} => worker[j].chan # c
      BY <2>2, <3>2 DEF JobOK
    <3>4. worker[j].pc \in {"execute", "running"} => mailbox'[worker[j].chan] = mailbox[worker[j].chan]
      BY <2>4, <3>1, <3>3
    <3> QED BY <2>2, <3>2, <3>4 DEF JobOK, owner
  <2>8. Running'
    <3>1. \A d \in Channels : mailbox'[d] = "RUNNING" => mailbox[d] = "RUNNING"
      BY <2>4
    <3> QED BY <2>1, <2>2, <3>1 DEF Running, RunOK, At, owner
  <2>9. Collected' = Collected
    BY <2>1, <2>2 DEF Collected
  <2>10. occupied
    BY <2>2 DEF occupied
  <2>11. PoolOK'
    BY <2>1, <2>2, <2>9, <2>10 DEF PoolOK
  <2> QED BY <2>1, <2>3, <2>5, <2>6, <2>7, <2>8, <2>11 DEF PoolInv, Threaded
<1>ShutdownInv. ASSUME PoolInv, set' = set, shutdown_call
    PROVE PoolInv'
  <2> USE <1>ShutdownInv
  <2>1. Typed /\ Threaded /\ Running /\ PoolOK /\ Threads' = Threads /\ rt \in RuntimeRecord
    BY Fixed DEF PoolInv, Typed
  <2>2. /\ co.pc = "idle" /\ rt.live /\ ~occupied
        /\ UNCHANGED <<mailbox, worker, mutex, waiters, event>>
    BY DEF shutdown_call, Call
  <2>3. co'.pc \in Plain /\ co' \in [pc : CallPcs, arg : Nat]
    <3>1. PICK p \in {"join", "stop"} : To(p, 0)
      BY DEF shutdown_call
    <3>2. p \in CallPcs /\ p \in Plain /\ 0 \in Nat
      BY <3>1, SMTT(60) DEF CallPcs, Plain
    <3> QED BY <2>1, <3>1, <3>2, <1>Goes
  <2>4. rt' = [rt EXCEPT !.stopping = TRUE]
    BY DEF shutdown_call
  <2>5. rt' \in RuntimeRecord
    BY <2>1, <2>4 DEF RuntimeRecord
  <2>6. /\ rt'.live = rt.live /\ rt'.created = rt.created /\ rt'.joined = rt.joined
        /\ rt'.acks = rt.acks /\ rt'.start_ok = rt.start_ok /\ rt'.published = rt.published
        /\ rt'.submitted = rt.submitted
    BY <2>1, <2>4, SMTT(60) DEF RuntimeRecord
  <2>7. Typed'
    BY <2>1, <2>2, <2>3, <2>5 DEF Typed
  <2>8. \A j \in Threads : LifeOK(j)' /\ LockOK(j)' /\ JobOK(j)'
    BY <2>1, <2>2, <2>6, ThreadsKept
  <2>9. \A j \in Threads : WaitOK(j)'
    BY <2>1, <2>2, NoCoord DEF Threaded, WaitOK
  <2>10. Running'
    BY <2>1, <2>2, <2>6, ThreadsKept
  <2>11. Collected' = Collected /\ ~occupied'
    BY <2>1, <2>2 DEF Collected, occupied
  <2>12. PoolOK'
    BY <2>1, <2>2, <2>6, <2>11 DEF PoolOK
  <2> QED BY <2>1, <2>3, <2>7, <2>8, <2>9, <2>10, <2>12, <1>PlainCall DEF PoolInv, Threaded
<1>StopInv. ASSUME PoolInv, set' = set, shutdown_stop
    PROVE PoolInv'
  <2> USE <1>StopInv
  <2>1. Typed /\ Threaded /\ Running /\ PoolOK /\ Threads' = Threads
    BY Fixed DEF PoolInv, Typed
  <2>2. co.pc = "stop" /\ rt.live /\ UNCHANGED <<mailbox, mutex, event, rt>> /\ event' \in BOOLEAN
    BY <2>1 DEF shutdown_stop, Call, Typed
  <2>3. co.arg \in Nat /\ co.arg + 1 \in Nat /\ 0 \in Nat
    BY <2>1, SMTT(60) DEF Typed
  <2>4. CASE To("join", 0) /\ UNCHANGED <<worker, waiters>>
    BY <2>2, <2>3, <2>4, <1>PlainInv DEF Moves, Plain
  <2>5. CASE /\ co.arg < rt.created /\ Signal(co.arg) /\ To("stop", co.arg + 1)
             /\ worker' = [worker EXCEPT ![co.arg].stop = TRUE]
    <3>1. PICK i \in Threads : i = co.arg
      BY <2>1, <2>3, <2>5, RuntimeTyped, SMTT(60) DEF Threads, PoolOK
    <3> DEFINE w == [worker[i] EXCEPT !.stop = TRUE]
    <3>2. worker[i] \in WorkerRecord /\ worker' = [worker EXCEPT ![i] = w]
      BY <2>1, <2>5, <3>1 DEF Typed
    <3>3. w \in WorkerRecord
      BY <3>2 DEF WorkerRecord
    <3>4. /\ w.pc = worker[i].pc /\ w.chan = worker[i].chan /\ w.joined = worker[i].joined
          /\ w.startup_done = worker[i].startup_done
          /\ w.startup_error = worker[i].startup_error /\ w.collected = worker[i].collected
      BY <3>2, SMTT(60) DEF WorkerRecord
    <3> HIDE DEF w
    <3>5. /\ worker'[i] = w /\ worker' \in [Threads -> WorkerRecord]
          /\ \A j \in Threads \ {i} : worker'[j] = worker[j]
      BY <2>1, <3>2, <3>3, PutRecord
    <3>6. /\ Stays
          /\ \A j \in Threads : worker'[j].joined = worker[j].joined
                                /\ worker'[j].collected = worker[j].collected
      BY <3>4, <3>5 DEF Stays
    <3>7. waiters[i] \subseteq {"worker"}
      <4>1. "coord" \notin waiters[i]
        BY <2>1, <2>2, NoCoord
      <4>2. waiters[i] \subseteq {"worker", "coord"}
        BY <2>1 DEF Typed
      <4> QED BY <4>1, <4>2
    <3>8. /\ waiters' \in [Threads -> SUBSET {"worker", "coord"}] /\ waiters'[i] = {}
          /\ \A j \in Threads \ {i} : waiters'[j] = waiters[j]
      BY <2>1, <2>5, <3>1, <3>7, SignalWakes
    <3>9. co'.pc = "stop" /\ co' \in [pc : CallPcs, arg : Nat]
      BY <2>1, <2>3, <2>5, <1>Goes DEF CallPcs
    <3>10. CallOK'
      BY <3>9, <1>PlainCall DEF Plain
    <3>11. Typed'
      BY <2>1, <2>2, <3>5, <3>8, <3>9 DEF Typed
    <3>12. ASSUME NEW j \in Threads PROVE LifeOK(j)' /\ WaitOK(j)'
      <4>1. /\ LifeOK(j) /\ WaitOK(j) /\ worker'[j].pc = worker[j].pc
            /\ worker'[j].startup_done = worker[j].startup_done
            /\ waiters'[j] \subseteq waiters[j] /\ "coord" \notin waiters[j]
        BY <2>1, <2>2, <3>6, <3>8, NoCoord DEF Threaded, Stays
      <4>2. LifeOK(j)'
        BY <2>2, <3>6, <4>1 DEF LifeOK
      <4> QED BY <4>1, <4>2 DEF WaitOK
    <3>13. Collected' = Collected /\ Collected \subseteq Threads /\ (occupied' <=> occupied)
      BY <2>1, <2>2, <3>6 DEF Collected, occupied
    <3>14. PoolOK'
      BY <2>1, <2>2, <3>6, <3>13 DEF PoolOK, Stays
    <3> QED BY <2>1, <2>2, <3>6, <3>10, <3>11, <3>12, <3>14, <1>StaysThreaded DEF PoolInv, Threaded
  <2> QED BY <2>4, <2>5 DEF shutdown_stop
\* Threads are joined in order, each after it has returned.
<1>JoinInv. ASSUME PoolInv, set' = set, shutdown_join
    PROVE PoolInv'
  <2> USE <1>JoinInv
  <2>1. Typed /\ Threaded /\ Running /\ PoolOK /\ Threads' = Threads /\ rt \in RuntimeRecord
    BY Fixed DEF PoolInv, Typed
  <2>2. co.pc = "join" /\ rt.live /\ UNCHANGED <<mailbox, mutex, waiters, event>>
    BY DEF shutdown_join, Call
  <2>3. co'.pc = "idle" /\ co' \in [pc : CallPcs, arg : Nat]
    BY <1>Returns DEF shutdown_join
  <2>4. CallOK'
    BY <2>3, <1>PlainCall DEF Plain
  <2>5. \A j \in Threads : "coord" \notin waiters[j]
    BY <2>1, <2>2, NoCoord
  <2>6. occupied' <=> occupied
    BY <2>2 DEF occupied
  <2>7. ASSUME UNCHANGED worker, rt' \in RuntimeRecord,
               rt'.live = rt.live, rt'.created = rt.created, rt'.joined = rt.joined,
               rt'.acks = rt.acks, rt'.start_ok = rt.start_ok, rt'.published = rt.published,
               rt'.submitted = rt.submitted, rt'.stopping = rt.stopping
        PROVE PoolInv'
    <3>1. Typed'
      BY <2>1, <2>2, <2>3, <2>7 DEF Typed
    <3>2. \A j \in Threads : LifeOK(j)' /\ LockOK(j)' /\ JobOK(j)'
      BY <2>1, <2>2, <2>7, ThreadsKept
    <3>3. \A j \in Threads : WaitOK(j)'
      BY <2>1, <2>2, <2>5, <2>7 DEF Threaded, WaitOK
    <3>4. Running'
      BY <2>1, <2>2, <2>7, ThreadsKept
    <3>5. Collected' = Collected
      BY <2>1, <2>7 DEF Collected
    <3>6. PoolOK'
      BY <2>1, <2>2, <2>6, <2>7, <3>5 DEF PoolOK
    <3> QED BY <2>1, <2>4, <3>1, <3>2, <3>3, <3>4, <3>6 DEF PoolInv, Threaded
  <2>8. CASE UNCHANGED worker /\ \E b \in BOOLEAN : rt' = [rt EXCEPT !.join_wait = b]
    <3>1. PICK b \in BOOLEAN : rt' = [rt EXCEPT !.join_wait = b]
      BY <2>8
    <3>2. rt' \in RuntimeRecord
      BY <2>1, <3>1 DEF RuntimeRecord
    <3>3. /\ rt'.live = rt.live /\ rt'.created = rt.created /\ rt'.joined = rt.joined
          /\ rt'.acks = rt.acks /\ rt'.start_ok = rt.start_ok /\ rt'.published = rt.published
          /\ rt'.submitted = rt.submitted /\ rt'.stopping = rt.stopping
      BY <2>1, <3>1, SMTT(60) DEF RuntimeRecord
    <3> QED BY <2>7, <2>8, <3>2, <3>3
  <2>9. CASE /\ UNCHANGED worker
             /\ rt' = [rt EXCEPT !.failed = TRUE, !.join_failed = TRUE, !.join_wait = FALSE]
    <3>2. rt' \in RuntimeRecord
      BY <2>1, <2>9 DEF RuntimeRecord
    <3>3. /\ rt'.live = rt.live /\ rt'.created = rt.created /\ rt'.joined = rt.joined
          /\ rt'.acks = rt.acks /\ rt'.start_ok = rt.start_ok /\ rt'.published = rt.published
          /\ rt'.submitted = rt.submitted /\ rt'.stopping = rt.stopping
      BY <2>1, <2>9, SMTT(60) DEF RuntimeRecord
    <3> QED BY <2>7, <2>9, <3>2, <3>3
  <2>10. ASSUME NEW i \in unjoined, \A j \in unjoined : i <= j, At(i, "done"),
                worker' = [worker EXCEPT ![i].joined = TRUE],
                rt' = [rt EXCEPT !.joined = @ + 1, !.join_wait = FALSE]
         PROVE PoolInv'
    <3>1. i \in Threads /\ i \in Created /\ ~worker[i].joined /\ worker[i].pc = "done"
      BY <2>10 DEF unjoined, Created, At
    <3>2. i = rt.joined /\ rt.joined + 1 <= rt.created /\ rt.joined + 1 \in Nat
      <4>1. ~(i < rt.joined) /\ i < rt.created /\ i \in Nat
        BY <2>1, <3>1, SMTT(60) DEF Threaded, LifeOK, Created, Threads
      <4>2. rt.joined \in Threads /\ rt.joined < rt.created /\ ~(rt.joined < rt.joined)
        BY <2>1, <3>1, <4>1, RuntimeTyped, SMTT(60) DEF Threads, PoolOK
      <4>3. rt.joined \in unjoined
        BY <2>1, <4>2 DEF unjoined, Created, Threaded, LifeOK
      <4>4. i <= rt.joined
        BY <2>10, <4>3
      <4> QED BY <2>1, <4>1, <4>2, <4>4, RuntimeTyped, SMTT(60)
    <3> DEFINE w == [worker[i] EXCEPT !.joined = TRUE]
    <3>3. worker[i] \in WorkerRecord /\ worker' = [worker EXCEPT ![i] = w]
      BY <2>1, <2>10, <3>1 DEF Typed
    <3>4. w \in WorkerRecord
      BY <3>3 DEF WorkerRecord
    <3>5. /\ w.pc = worker[i].pc /\ w.chan = worker[i].chan /\ w.joined
          /\ w.startup_done = worker[i].startup_done
          /\ w.startup_error = worker[i].startup_error /\ w.collected = worker[i].collected
      BY <3>3, SMTT(60) DEF WorkerRecord
    <3> HIDE DEF w
    <3>6. /\ worker'[i] = w /\ worker' \in [Threads -> WorkerRecord]
          /\ \A j \in Threads \ {i} : worker'[j] = worker[j]
      BY <2>1, <3>1, <3>3, <3>4, PutRecord
    <3>7. /\ Stays
          /\ \A j \in Threads : /\ worker'[j].collected = worker[j].collected
                                /\ worker'[j].joined <=> worker[j].joined \/ j = i
      BY <3>1, <3>5, <3>6 DEF Stays
    <3>8. rt' = [rt EXCEPT !.joined = rt.joined + 1, !.join_wait = FALSE]
      BY <2>10
    <3>9. rt' \in RuntimeRecord
      BY <2>1, <3>2, <3>8 DEF RuntimeRecord
    <3>10. /\ rt'.live = rt.live /\ rt'.created = rt.created /\ rt'.joined = rt.joined + 1
           /\ rt'.acks = rt.acks /\ rt'.start_ok = rt.start_ok /\ rt'.published = rt.published
           /\ rt'.submitted = rt.submitted /\ rt'.stopping = rt.stopping
      BY <2>1, <3>8, SMTT(60) DEF RuntimeRecord
    <3>11. Typed'
      BY <2>1, <2>2, <2>3, <3>6, <3>9 DEF Typed
    <3>12. ASSUME NEW j \in Threads PROVE LifeOK(j)' /\ WaitOK(j)'
      <4>1. /\ LifeOK(j) /\ WaitOK(j) /\ worker'[j].pc = worker[j].pc
            /\ worker'[j].startup_done = worker[j].startup_done
            /\ worker'[j].collected = worker[j].collected
            /\ (worker'[j].joined <=> worker[j].joined \/ j = i)
        BY <2>1, <3>7 DEF Threaded, Stays
      <4>2. j < rt'.joined <=> j < rt.joined \/ j = i
        BY <2>1, <3>2, <3>10, RuntimeTyped, SMTT(60) DEF Threads
      <4>3. worker'[j].joined => worker[j].pc = "done"
        BY <3>1, <4>1 DEF LifeOK
      <4>4. LifeOK(j)'
        BY <3>10, <4>1, <4>2, <4>3 DEF LifeOK
      <4> QED BY <2>2, <2>5, <4>1, <4>4 DEF WaitOK
    <3>13. Collected' = Collected /\ Collected \subseteq Threads
      BY <2>1, <3>7 DEF Collected
    <3>14. PoolOK'
      BY <2>1, <2>2, <2>6, <3>2, <3>7, <3>10, <3>13 DEF PoolOK, Stays
    <3> QED BY <2>1, <2>2, <2>4, <3>7, <3>11, <3>12, <3>14, <1>StaysThreaded DEF PoolInv, Threaded
  <2> QED BY <2>8, <2>9, <2>10 DEF shutdown_join
<1>DestroyInv. ASSUME PoolInv, set' = set, destroy
    PROVE PoolInv'
  <2> USE <1>DestroyInv
  <2>1. Typed /\ Threaded /\ Running /\ PoolOK /\ Threads' = Threads /\ rt \in RuntimeRecord
    BY Fixed DEF PoolInv, Typed
  <2>2. /\ co.pc = "idle" /\ rt.created = rt.joined /\ ~occupied
        /\ UNCHANGED <<mailbox, worker, mutex, waiters, event, co>>
    BY DEF destroy, Call
  <2>3. CallOK'
    BY <2>2, <1>PlainCall DEF Plain
  <2>4. rt' = [rt EXCEPT !.live = FALSE]
    BY DEF destroy
  <2>5. rt' \in RuntimeRecord
    BY <2>1, <2>4 DEF RuntimeRecord
  <2>6. /\ rt'.created = rt.created /\ rt'.joined = rt.joined /\ rt'.stopping = rt.stopping
        /\ rt'.acks = rt.acks /\ rt'.start_ok = rt.start_ok /\ rt'.published = rt.published
        /\ rt'.submitted = rt.submitted
    BY <2>1, <2>4, SMTT(60) DEF RuntimeRecord
  <2>7. Typed'
    BY <2>1, <2>2, <2>5 DEF Typed
  <2>8. \A j \in Threads : LifeOK(j)' /\ LockOK(j)' /\ WaitOK(j)' /\ JobOK(j)'
    BY <2>1, <2>2, <2>6, ThreadsKept DEF Threaded, WaitOK
  <2>9. Running'
    BY <2>1, <2>2, <2>6, ThreadsKept
  <2>10. Collected' = Collected /\ ~occupied'
    BY <2>1, <2>2 DEF Collected, occupied
  <2>11. \A j \in Threads : worker[j].pc \in {"none", "done"}
    BY <2>1, <2>2 DEF Threaded, LifeOK
  <2>12. PoolOK'
    BY <2>1, <2>2, <2>6, <2>10, <2>11 DEF PoolOK
  <2> QED BY <2>1, <2>3, <2>7, <2>8, <2>9, <2>12 DEF PoolInv, Threaded
<1> QED BY <1>CreateInv, <1>AwaitInv, <1>LookInv, <1>CollectInv, <1>SubmitInv, <1>PollInv, <1>PostInv,
           <1>ShutdownInv, <1>StopInv, <1>JoinInv, <1>DestroyInv, <1>PlainCalls, <1>DrainInv, <1>WaitLookInv,
           <1>ReadInv, <1>RescanInv DEF Coordinator

\* The invariant depends on the variables of the pool only.
LEMMA StutterInv ==
  ASSUME PoolInv, UNCHANGED vars
  PROVE PoolInv'
<1>1. /\ UNCHANGED <<set, mailbox, worker, mutex, waiters, event, rt, co>> /\ Threads' = Threads
      /\ Typed /\ Threaded /\ Running /\ PoolOK /\ CallOK
  BY Fixed DEF vars, PoolInv
<1>2. Typed'
  BY <1>1 DEF Typed
<1>3. \A j \in Threads : LifeOK(j)' /\ LockOK(j)' /\ WaitOK(j)' /\ JobOK(j)'
  BY <1>1, ThreadsKept DEF Threaded, WaitOK
<1>4. Running'
  BY <1>1, ThreadsKept
<1>5. PoolOK' /\ CallOK'
  BY <1>1 DEF PoolOK, CallOK, Rung, Told, Created, occupied, visible, At, Collected, owner
<1> QED BY <1>1, <1>2, <1>3, <1>4, <1>5 DEF PoolInv, Threaded

\* Every step of the pool keeps the invariant.
LEMMA NextInv ==
  ASSUME PoolInv, [Next]_vars
  PROVE PoolInv'
<1>1. CASE UNCHANGED vars
  BY <1>1, StutterInv
<1>2. CASE Next
  <2>1. set' = set
    BY <1>2 DEF Next
  <2>2. ASSUME NEW i \in Threads, Worker(i) \/ Spurious(i) PROVE PoolInv'
    BY <2>1, <2>2, WorkerOwn, OwnInv, SpuriousInv DEF PoolInv
  <2>3. CASE Coordinator
    BY <2>1, <2>3, CoordinatorInv
  <2>4. CASE wait_timeout
    BY <2>1, <2>4, CoordinatorInv
  <2>5. CASE Ended
    BY <2>5, StutterInv DEF Ended
  <2> QED BY <1>2, <2>2, <2>3, <2>4, <2>5 DEF Next
<1> QED BY <1>1, <1>2

\* create starts with no thread and empty mailboxes.
LEMMA InitInv == Init => PoolInv
<1> SUFFICES ASSUME Init PROVE PoolInv
  OBVIOUS
<1>1. NewWorker \in WorkerRecord
  <2>1. 0 \in Channels /\ 0 \in 0 .. CursorSpan - 1
    BY WorkerConstants, SMTT(60) DEF Channels
  <2> QED BY <2>1, SMTT(60) DEF NewWorker, WorkerRecord, ThreadPcs
<1>2. rt \in RuntimeRecord /\ co \in [pc : CallPcs, arg : Nat] /\ co.pc = "idle"
  BY SMTT(60) DEF Init, Idle, RuntimeRecord, CallPcs
<1>3. Typed
  BY <1>1, <1>2 DEF Init, Typed, States
<1>4. \A i \in Threads : /\ worker[i].pc = "none" /\ ~worker[i].startup_done
                         /\ ~worker[i].collected /\ ~worker[i].joined
                         /\ mutex[i] = "free" /\ waiters[i] = {}
  BY SMTT(60) DEF Init, NewWorker
<1>5. /\ rt.created = 0 /\ rt.joined = 0 /\ rt.acks = 0 /\ ~rt.published /\ rt.live
      /\ rt.submitted = 0
  BY SMTT(60) DEF Init
<1>6. \A i \in Threads : ~(i < rt.created) /\ ~(i < rt.joined)
  BY <1>5, SMTT(60) DEF Threads
<1>7. Threaded
  BY <1>4, <1>6 DEF Threaded, LifeOK, LockOK, WaitOK, JobOK
<1>8. Running /\ ~occupied
  BY DEF Running, RunOK, occupied, Init
<1>9. Collected = {}
  BY <1>4 DEF Collected
<1>10. rt.acks = Cardinality(Collected)
  BY <1>5, <1>9, FS_EmptySet
<1>11. rt.created <= set.workers /\ rt.joined <= rt.created /\ rt.submitted <= set.jobs
  BY <1>3, <1>5, RuntimeTyped, SMTT(60)
<1>12. PoolOK
  BY <1>5, <1>8, <1>9, <1>10, <1>11 DEF PoolOK
<1>13. CallOK
  BY <1>2 DEF CallOK
<1> QED BY <1>3, <1>7, <1>8, <1>12, <1>13 DEF PoolInv

\* The inductive invariant holds throughout.
LEMMA Inductive == Spec => []PoolInv
BY InitInv, NextInv, PTL DEF Spec

\* Mailboxes and memory have one owner: a mailbox is RUNNING exactly while its
\* owner executes it, jobs are admitted only to a pool that started whole, and
\* destroy frees nothing a thread may still touch (submit, execute, poll_job,
\* start_step, shutdown_common, destroy).
THEOREM OwnersAlone == Spec => []OneOwner
<1>1. ASSUME PoolInv PROVE OneOwner
  <2>1. Typed /\ Threaded /\ Running /\ PoolOK
    BY <1>1 DEF PoolInv
  <2>2. \A c \in Channels : owner(c) \in Threads
    BY <2>1, WorkerConstants, SMTT(60) DEF Typed, owner, Threads, Channels
  <2>3. TypeOK
    <3>1. rt.created \in 0 .. set.workers /\ rt.joined \in 0 .. rt.created /\ rt.submitted \in 0 .. set.jobs
      BY <2>1, RuntimeTyped, SMTT(60) DEF PoolOK
    <3>2. \A i \in Threads : worker[i].cursor \in 0 .. CursorSpan - 1 /\ worker[i].chan \in Channels
      <4>1. \A i \in Threads : worker[i] \in WorkerRecord
        BY <2>1 DEF Typed
      <4> QED BY <4>1 DEF WorkerRecord
    <3> QED BY <2>1, <3>1, <3>2 DEF TypeOK, Typed
  <2>4. OneExecutor
    <3> SUFFICES ASSUME NEW c \in Channels
                 PROVE mailbox[c] = "RUNNING" <=> At(owner(c), "running") /\ worker[owner(c)].chan = c
      BY DEF OneExecutor
    <3>1. At(owner(c), "running") /\ worker[owner(c)].chan = c => mailbox[c] = "RUNNING"
      BY <2>1, <2>2 DEF Threaded, JobOK, At
    <3> QED BY <2>1, <3>1 DEF Running, RunOK
  <2>5. AdmittedToWholePool
    BY <2>1 DEF AdmittedToWholePool, PoolOK, Threaded, LifeOK
  <2>6. FreedOnlyWhenGone
    BY <2>1 DEF FreedOnlyWhenGone, PoolOK
  <2> QED BY <2>3, <2>4, <2>5, <2>6 DEF OneOwner
<1> QED BY <1>1, Inductive, PTL

-----------------------------------------------------------------------------
(* No wakeup is lost, when the number of channels divides the cursor range *)

\* Every step keeps: a worker waits only when none of its mailboxes is QUEUED.
LEMMA NextRests ==
  ASSUME CursorSpan % C = 0, PoolInv, Rested, [Next]_vars
  PROVE Rested'
\* The scan of queued visits every channel: also where the cursor wraps.
<1>Covers. ASSUME CursorSpan % C = 0, NEW k \in 0 .. CursorSpan - 1, NEW c \in Channels
    PROVE \E n \in Channels : ((k + n) % CursorSpan) % C = c
  <2> USE <1>Covers
  <2>1. C \in 1 .. 4 /\ CursorSpan \in Nat \ {0}
    BY WorkerConstants
  <2>2. C <= CursorSpan
    BY <2>1, SMTT(60)
  <2>3. \A n \in Channels : (k + n) % CursorSpan = IF k + n < CursorSpan THEN k + n
                                                  ELSE k + n - CursorSpan
    BY <2>1, <2>2, SMTT(60) DEF Channels
  <2>4. CASE C = 1
    BY <2>1, <2>3, <2>4, SMTT(60) DEF Channels
  <2>5. CASE C = 2
    BY <2>1, <2>3, <2>5, SMTT(60) DEF Channels
  <2>6. CASE C = 3
    BY <2>1, <2>3, <2>6, SMTT(60) DEF Channels
  <2>7. CASE C = 4
    BY <2>1, <2>3, <2>7, SMTT(60) DEF Channels
  <2> QED BY <2>1, <2>4, <2>5, <2>6, <2>7, SMTT(60)
<1>ScanFindsAll. ASSUME CursorSpan % C = 0, Typed, NEW i \in Threads, hits(i) = {}, NEW c \in mine(i)
    PROVE mailbox[c] # "QUEUED"
  <2> USE <1>ScanFindsAll
  <2>1. worker[i] \in WorkerRecord
    BY DEF Typed
  <2>2. worker[i].cursor \in 0 .. CursorSpan - 1 /\ c \in Channels
    BY <2>1 DEF WorkerRecord, mine
  <2>3. PICK n \in Channels : ((worker[i].cursor + n) % CursorSpan) % C = c
    BY <2>2, <1>Covers
  <2> QED BY <2>3 DEF hits, hit, visit
\* Who rests was resting and nothing new came, or was woken.
<1>RestKept. ASSUME Rested, set' = set,
           \A j \in Threads : Resting(j)' =>
             /\ Resting(j) /\ worker'[j].stop = worker[j].stop
             /\ worker'[j].startup_error = worker[j].startup_error,
           \A c \in Channels : mailbox'[c] = "QUEUED" => mailbox[c] = "QUEUED"
    PROVE Rested'
  <2> USE <1>RestKept
  <2> SUFFICES ASSUME NEW j \in Threads, Resting(j)' PROVE NothingToDo(j)'
    BY Fixed DEF Rested, RestOK
  <2>1. NothingToDo(j)
    BY DEF Rested, RestOK
  <2>2. mine(j)' = mine(j)
    BY DEF mine, owner
  <2>3. mine(j) \subseteq Channels
    BY DEF mine
  <2> QED BY <2>1, <2>2, <2>3 DEF NothingToDo
<1>WorkerRests. ASSUME CursorSpan % C = 0, PoolInv, Rested, NEW i \in Threads, NEW to, Own(i, to)
    PROVE Rested'
  <2> USE <1>WorkerRests
  <2>1. Typed /\ Threaded /\ set' = set
    BY DEF PoolInv, Own
  <2>2. \A c \in Channels : mailbox'[c] = "QUEUED" => mailbox[c] = "QUEUED"
    BY DEF Own, BoxStep
  <2>3. CASE to = "empty"
    <3>1. worker[i].pc = "loop"
      BY <2>3, SMTT(60) DEF Own, Turns
    <3>2. /\ ~worker[i].stop /\ (worker[i].startup_error \/ hits(i) = {})
          /\ worker'[i].stop = worker[i].stop
          /\ worker'[i].startup_error = worker[i].startup_error
      BY <2>3, <3>1 DEF Own, Advance
    <3>3. worker[i].startup_error \/ \A c \in mine(i) : mailbox[c] # "QUEUED"
      BY <2>1, <3>2, <1>ScanFindsAll
    <3>4. mine(i)' = mine(i) /\ mine(i) \subseteq Channels
      BY <2>1 DEF mine, owner
    <3>5. NothingToDo(i)'
      BY <2>2, <3>2, <3>3, <3>4 DEF NothingToDo
    <3>6. ASSUME NEW j \in Threads \ {i}, Resting(j)' PROVE NothingToDo(j)'
      <4>1. worker'[j] = worker[j] /\ waiters'[j] = waiters[j]
        BY DEF Own, Advance, WaitStep
      <4>2. NothingToDo(j)
        BY <3>6, <4>1 DEF Rested, RestOK, Resting
      <4>3. mine(j)' = mine(j) /\ mine(j) \subseteq Channels
        BY <2>1 DEF mine, owner
      <4> QED BY <2>2, <4>1, <4>2, <4>3 DEF NothingToDo
    <3> QED BY <2>1, <3>5, <3>6, Fixed DEF Rested, RestOK
  <2>4. CASE to # "empty"
    <3> SUFFICES ASSUME NEW j \in Threads, Resting(j)'
                 PROVE /\ Resting(j) /\ worker'[j].stop = worker[j].stop
                       /\ worker'[j].startup_error = worker[j].startup_error
      BY <2>1, <2>2, <1>RestKept
    <3>1. CASE j # i
      BY <3>1 DEF Resting, Own, Advance, WaitStep
    <3>2. CASE j = i
      <4>1. "worker" \in waiters'[i]
        BY <2>4, <3>2 DEF Resting, Own, Advance
      <4>2. to = "wait"
        BY <2>1, <4>1, Awake DEF Own, WaitStep
      <4>3. worker[i].pc = "empty"
        BY <4>2, SMTT(60) DEF Own, Turns
      <4> QED BY <3>2, <4>3 DEF Resting, Own, Advance
    <3> QED BY <3>1, <3>2
  <2> QED BY <2>3, <2>4
\* submit_post and shutdown_stop hold the mutex and signal: the thread they
\* have something for does not rest.
<1>PostRests. ASSUME PoolInv, Rested, set' = set, submit_post
    PROVE Rested'
  <2> USE <1>PostRests
  <2>1. Typed /\ Threaded /\ CallOK /\ co.pc = "submit" /\ UNCHANGED <<worker, mutex>>
    BY DEF PoolInv, submit_post, Call
  <2>2. PICK c \in Channels : c = co.arg
    BY <2>1 DEF CallOK
  <2>3. owner(c) \in Threads
    BY <2>1, WorkerConstants, SMTT(60) DEF Typed, owner, Threads, Channels
  <2>4. waiters[owner(c)] \subseteq {"worker"}
    <3>1. "coord" \notin waiters[owner(c)]
      BY <2>1, <2>3, NoCoord
    <3>2. waiters[owner(c)] \subseteq {"worker", "coord"}
      BY <2>1, <2>3 DEF Typed
    <3> QED BY <3>1, <3>2
  <2>5. waiters'[owner(c)] = {} /\ \A j \in Threads \ {owner(c)} : waiters'[j] = waiters[j]
    BY <2>1, <2>2, <2>3, <2>4, SignalWakes DEF submit_post
  <2>6. worker[owner(c)].pc # "empty"
    <3>1. mutex[owner(c)] = "free"
      BY <2>2 DEF submit_post
    <3> QED BY <2>1, <2>3, <3>1 DEF Threaded, LockOK
  <2> SUFFICES ASSUME NEW j \in Threads, Resting(j)' PROVE NothingToDo(j)'
    BY Fixed DEF Rested, RestOK
  <2>7. j # owner(c)
    BY <2>1, <2>5, <2>6 DEF Resting
  <2>8. NothingToDo(j)
    BY <2>1, <2>5, <2>7 DEF Rested, RestOK, Resting
  <2>9. mine(j)' = mine(j) /\ mine(j) \subseteq Channels \ {c}
    BY <2>7 DEF mine, owner
  <2>10. \A d \in Channels \ {c} : mailbox'[d] = mailbox[d]
    BY <2>1, <2>2 DEF submit_post, Typed
  <2> QED BY <2>1, <2>8, <2>9, <2>10 DEF NothingToDo
<1>StopRests. ASSUME PoolInv, Rested, set' = set, shutdown_stop
    PROVE Rested'
  <2> USE <1>StopRests
  <2>1. Typed /\ Threaded /\ PoolOK /\ co.pc = "stop" /\ UNCHANGED <<mailbox, mutex>>
    BY DEF PoolInv, shutdown_stop, Call
  <2>2. CASE UNCHANGED <<worker, waiters>>
    BY <2>1, <2>2, <1>RestKept DEF Resting
  <2>3. CASE /\ co.arg < rt.created /\ mutex[co.arg] = "free" /\ Signal(co.arg)
             /\ worker' = [worker EXCEPT ![co.arg].stop = TRUE]
    <3>1. PICK i \in Threads : i = co.arg
      <4>1. co.arg \in Nat
        BY <2>1, SMTT(60) DEF Typed
      <4> QED BY <2>1, <2>3, <4>1, RuntimeTyped, SMTT(60) DEF Threads, PoolOK
    <3>2. waiters[i] \subseteq {"worker"}
      <4>1. "coord" \notin waiters[i]
        BY <2>1, NoCoord
      <4>2. waiters[i] \subseteq {"worker", "coord"}
        BY <2>1 DEF Typed
      <4> QED BY <4>1, <4>2
    <3>3. waiters'[i] = {} /\ \A j \in Threads \ {i} : waiters'[j] = waiters[j]
      BY <2>1, <2>3, <3>1, <3>2, SignalWakes
    <3>4. \A j \in Threads \ {i} : worker'[j] = worker[j]
      BY <2>1, <2>3, <3>1 DEF Typed
    <3>5. worker'[i].pc = worker[i].pc
      <4>1. worker[i] \in WorkerRecord /\ worker'[i] = [worker[i] EXCEPT !.stop = TRUE]
        BY <2>1, <2>3, <3>1 DEF Typed
      <4> QED BY <4>1, SMTT(60) DEF WorkerRecord
    <3>6. worker[i].pc # "empty"
      BY <2>1, <2>3, <3>1 DEF Threaded, LockOK
    <3>7. \A j \in Threads : Resting(j)' => Resting(j) /\ worker'[j] = worker[j]
      BY <3>3, <3>4, <3>5, <3>6 DEF Resting
    <3> QED BY <2>1, <3>7, <1>RestKept
  <2> QED BY <2>2, <2>3 DEF shutdown_stop
\* The other steps of the coordinator give a thread nothing to do.
<1>CoordRests. ASSUME PoolInv, Rested, set' = set, Coordinator \/ wait_timeout
    PROVE Rested'
  <2> USE <1>CoordRests
  <2>1. Typed /\ Threaded /\ CallOK /\ PoolOK
    BY DEF PoolInv
  <2>2. ASSUME UNCHANGED <<mailbox, worker, waiters>> PROVE Rested'
    BY <2>2, <1>RestKept DEF Resting
  <2>3. ASSUME create_look PROVE Rested'
    <3>1. UNCHANGED <<mailbox, worker>> /\ co.arg \in Threads
      BY <2>1, <2>3 DEF create_look, Call, CallOK
    <3>2. \A j \in Threads : "worker" \in waiters'[j] => "worker" \in waiters[j]
      <4>1. CASE UNCHANGED waiters
        BY <4>1
      <4>2. CASE waiters' = [waiters EXCEPT ![co.arg] = waiters[co.arg] \cup {"coord"}]
        BY <2>1, <3>1, <4>2 DEF Typed
      <4> QED BY <2>3, <4>1, <4>2 DEF create_look
    <3> QED BY <3>1, <3>2, <1>RestKept DEF Resting
  <2>4. ASSUME NEW c \in Channels, poll_job(c) PROVE Rested'
    <3>1. UNCHANGED <<worker, waiters>>
      BY <2>4 DEF poll_job
    <3>2. \A d \in Channels : mailbox'[d] = "QUEUED" => mailbox[d] = "QUEUED"
      BY <2>1, <2>4 DEF poll_job, Typed
    <3> QED BY <3>1, <3>2, <1>RestKept DEF Resting
  <2>5. ASSUME start_create PROVE Rested'
    <3>1. UNCHANGED <<mailbox, waiters>>
      BY <2>5 DEF start_create
    <3>2. CASE UNCHANGED worker
      BY <2>2, <3>1, <3>2
    <3>3. CASE Go(rt.created, "start") /\ rt.created < set.workers
      <4>1. PICK i \in Threads : i = rt.created
        BY <2>1, <3>3, RuntimeTyped, SMTT(60) DEF Threads
      <4>2. worker[i].pc = "none"
        <5>1. ~(i < rt.created)
          BY <2>1, <4>1, RuntimeTyped, SMTT(60)
        <5> QED BY <2>1, <5>1 DEF Threaded, LifeOK
      <4>3. Advance(i, "start")
        BY <2>1, <3>3, <4>1, <4>2, GoAdvance DEF ThreadPcs
      <4>4. "worker" \notin waiters[i]
        BY <2>1, <4>2, Awake
      <4>5. \A j \in Threads : Resting(j)' => j # i
        BY <3>1, <4>3, <4>4 DEF Resting, Advance
      <4> QED BY <3>1, <4>3, <4>5, <1>RestKept DEF Resting, Advance
    <3> QED BY <2>5, <3>2, <3>3 DEF start_create
  <2>6. ASSUME NEW i \in Threads, start_collect(i) PROVE Rested'
    <3>1. UNCHANGED <<mailbox, waiters>>
      BY <2>6 DEF start_collect
    <3>2. worker[i] \in WorkerRecord /\ worker'[i] = [worker[i] EXCEPT !.collected = TRUE]
      BY <2>1, <2>6 DEF Typed, start_collect
    <3>3. /\ worker'[i].pc = worker[i].pc /\ worker'[i].stop = worker[i].stop
          /\ worker'[i].startup_error = worker[i].startup_error
      BY <3>2, SMTT(60) DEF WorkerRecord
    <3>4. \A j \in Threads \ {i} : worker'[j] = worker[j]
      BY <2>1, <2>6 DEF Typed, start_collect
    <3> QED BY <3>1, <3>3, <3>4, <1>RestKept DEF Resting
  <2>7. ASSUME shutdown_join PROVE Rested'
    <3>1. UNCHANGED <<mailbox, waiters>>
      BY <2>7 DEF shutdown_join
    <3>2. CASE UNCHANGED worker
      BY <2>2, <3>1, <3>2
    <3>3. CASE \E i \in Threads : worker' = [worker EXCEPT ![i].joined = TRUE]
      <4>1. PICK i \in Threads : worker' = [worker EXCEPT ![i].joined = TRUE]
        BY <3>3
      <4>2. /\ worker[i] \in WorkerRecord /\ worker'[i] = [worker[i] EXCEPT !.joined = TRUE]
            /\ \A j \in Threads \ {i} : worker'[j] = worker[j]
        BY <2>1, <4>1 DEF Typed
      <4>3. /\ worker'[i].pc = worker[i].pc /\ worker'[i].stop = worker[i].stop
            /\ worker'[i].startup_error = worker[i].startup_error
        BY <4>2, SMTT(60) DEF WorkerRecord
      <4> QED BY <3>1, <4>2, <4>3, <1>RestKept DEF Resting
    <3> QED BY <2>7, <3>2, <3>3 DEF shutdown_join, unjoined, Created
  <2>8. ASSUME \/ create_await \/ (\E c \in Channels : submit_check(c)) \/ shutdown_call \/ destroy
               \/ wait_call \/ wait_drain \/ wait_look \/ wait_poll \/ wait_timeout
               \/ lifecycle_call \/ lifecycle_read \/ lifecycle_poll
               \/ lifecycle_scan("scan", "read") \/ lifecycle_scan("rescan", "doze")
        PROVE Rested'
    <3>1. UNCHANGED <<mailbox, worker, waiters>>
      BY <2>8 DEF create_await, submit_check, shutdown_call, destroy, wait_call,
         wait_drain, wait_look, wait_poll, wait_timeout, lifecycle_call, lifecycle_read,
         lifecycle_poll, lifecycle_scan
    <3> QED BY <2>2, <3>1
  <2> QED BY <2>3, <2>4, <2>5, <2>6, <2>7, <2>8, <1>PostRests, <1>StopRests DEF Coordinator
<1>1. CASE UNCHANGED vars
  BY <1>1, <1>RestKept DEF vars, Resting
<1>2. CASE Next
  <2>1. set' = set
    BY <1>2 DEF Next
  <2>2. ASSUME NEW i \in Threads, Worker(i) PROVE Rested'
    BY <2>1, <2>2, WorkerOwn, <1>WorkerRests DEF PoolInv
  <2>3. ASSUME NEW i \in Threads, Spurious(i) PROVE Rested'
    <3>1. UNCHANGED <<mailbox, worker>>
      BY <2>3 DEF Spurious
    <3>2. \A j \in Threads : waiters'[j] \subseteq waiters[j]
      BY <2>3 DEF Spurious, PoolInv, Typed
    <3> QED BY <2>1, <3>1, <3>2, <1>RestKept DEF Resting
  <2>4. CASE Ended
    BY <2>1, <2>4, <1>RestKept DEF vars, Resting, Ended
  <2> QED BY <1>2, <2>1, <2>2, <2>3, <2>4, <1>CoordRests DEF Next
<1> QED BY <1>1, <1>2

\* No wakeup is lost, neither of a worker nor of the coordinator, and a signal
\* has one receiver (worker_main, submit, shutdown_common, workers_wait,
\* lifecycle_wait).  The condition on the range of the 32-bit cursor is what
\* finding SleepsOnlyWhenIdle is about: with three channels it does not hold.
THEOREM WakeupsKept ==
  ASSUME CursorSpan % C = 0
  PROVE Spec => []NoLostWakeup
<1>1. Init => Rested
  <2> SUFFICES ASSUME Init, NEW i \in Threads PROVE ~Resting(i)
    BY DEF Rested, RestOK
  <2>1. worker[i].pc = "none" /\ waiters[i] = {}
    BY SMTT(60) DEF Init, NewWorker
  <2> QED BY <2>1 DEF Resting
<1>2. PoolInv /\ Rested /\ [Next]_vars => Rested'
  BY NextRests
<1>3. Spec => []Rested
  BY <1>1, <1>2, Inductive, PTL DEF Spec
<1>4. ASSUME PoolInv, Rested PROVE NoLostWakeup
  <2>1. Typed /\ Threaded /\ PoolOK /\ CallOK
    BY <1>4 DEF PoolInv
  <2>2. SleepsOnlyWhenIdle
    BY <1>4 DEF SleepsOnlyWhenIdle, Rested, RestOK, Resting, NothingToDo
  <2>3. NoMissedReply
    BY <2>1 DEF NoMissedReply, CallOK, Rung
  <2>4. NoMissedStartup
    BY <2>1 DEF NoMissedStartup, CallOK, Told, uncollected
  <2>5. OneWaiter
    <3> SUFFICES ASSUME NEW i \in Threads PROVE Cardinality(waiters[i]) <= 1
      BY DEF OneWaiter
    <3>1. ~("worker" \in waiters[i] /\ "coord" \in waiters[i])
      BY <2>1 DEF Threaded, WaitOK, LifeOK
    <3>2. waiters[i] \subseteq {"worker", "coord"}
      BY <2>1 DEF Typed
    <3>3. waiters[i] \in SUBSET {"worker"} \/ waiters[i] \in SUBSET {"coord"}
      BY <3>1, <3>2
    <3>4. ASSUME NEW t, waiters[i] \in SUBSET {t} PROVE Cardinality(waiters[i]) <= 1
      <4>1. IsFiniteSet({t}) /\ Cardinality({t}) = 1
        BY FS_Singleton
      <4> QED BY <3>4, <4>1, FS_Subset
    <3> QED BY <3>3, <3>4
  <2> QED BY <2>2, <2>3, <2>4, <2>5 DEF NoLostWakeup
<1> QED BY <1>3, <1>4, Inductive, PTL

-----------------------------------------------------------------------------
(* The threads implement JobExecutor                                       *)

\* shutdown_common has joined every thread.
Over == rt.stopping /\ rt.created = rt.joined

\* The worker pool implements the executor contract the channel hub relies on:
\* a job is posted once, finishes or breaks once, is handed back once, and
\* shutdown completes only when no job is held (submit, execute, poll_job,
\* shutdown_common).
THEOREM ExecutorImplemented == Spec => ImplementsExecutor
\* A mailbox as the hub sees it.
<1>ShownIs. /\ Shown("EMPTY") = "EMPTY" /\ Shown("QUEUED") = "POSTED" /\ Shown("RUNNING") = "POSTED"
    /\ Shown("REPLIED") = "DONE" /\ Shown("BROKEN") = "BROKEN"
  BY SMTT(60) DEF Shown
\* Rewriting one mailbox moves that channel's box.
<1>BoxMoves. ASSUME Typed, NEW c \in Channels, NEW v, mailbox' = [mailbox EXCEPT ![c] = v], Over' = Over
    PROVE Contract!Move(c, Shown(mailbox[c]), Shown(v))
  <2> USE <1>BoxMoves
  <2> DEFINE b == [d \in Channels |-> Shown(mailbox[d])]
             e == [d \in Channels |-> Shown(mailbox'[d])]
  <2>1. e = [b EXCEPT ![c] = Shown(v)]
    BY DEF Typed
  <2> QED BY <2>1 DEF Contract!Move, Over
<1>WorkerImplements. ASSUME Typed, Threaded, NEW i \in Threads, NEW to, Own(i, to)
    PROVE [Contract!Next]_(Contract!vars)
  <2> USE <1>WorkerImplements
  <2>1. Over' = Over
    BY DEF Own, Over
  <2> DEFINE c == worker[i].chan
  <2>2. c \in Channels
    BY SMTT(60) DEF Typed, WorkerRecord
  <2>3. CASE worker[i].pc = "running"
    <3>1. PICK v \in {"REPLIED", "BROKEN"} : mailbox' = [mailbox EXCEPT ![c] = v]
      <4>1. /\ mailbox' \in [Channels -> States] /\ mailbox'[c] \in {"REPLIED", "BROKEN"}
            /\ \A d \in Channels \ {c} : mailbox'[d] = mailbox[d]
        BY <2>2, <2>3 DEF Own, BoxStep
      <4>2. mailbox' = [mailbox EXCEPT ![c] = mailbox'[c]]
        BY <2>2, <4>1 DEF Typed
      <4> QED BY <4>1, <4>2
    <3>2. Shown(mailbox[c]) = "POSTED"
      BY <2>3, <1>ShownIs DEF Threaded, JobOK
    <3>3. Contract!Move(c, "POSTED", Shown(v))
      BY <2>1, <2>2, <3>1, <3>2, <1>BoxMoves
    <3>4. Contract!Finish(c) \/ Contract!Break(c)
      BY <3>1, <3>3, <1>ShownIs DEF Contract!Finish, Contract!Break
    <3> QED BY <2>2, <3>4 DEF Contract!Next
  <2>4. CASE worker[i].pc # "running"
    <3>1. ASSUME NEW d \in Channels PROVE Shown(mailbox'[d]) = Shown(mailbox[d])
      <4>1. worker[i].pc = "execute" => mailbox[worker[i].chan] = "QUEUED"
        BY DEF Threaded, JobOK
      <4> QED BY <2>4, <4>1, <1>ShownIs DEF Own, BoxStep
    <3>2. [d \in Channels |-> Shown(mailbox'[d])] = [d \in Channels |-> Shown(mailbox[d])]
      BY <3>1
    <3> QED BY <2>1, <3>2 DEF Contract!vars, Over
  <2> QED BY <2>3, <2>4
\* A step that leaves the mailboxes and the shutdown alone is not seen.
<1>Unseen. ASSUME UNCHANGED mailbox, Over' = Over
    PROVE [Contract!Next]_(Contract!vars)
  BY <1>Unseen DEF Contract!vars, Over
\* The shutdown ends while no mailbox is in use.
<1>Ends. ASSUME Typed, UNCHANGED mailbox, ~occupied, Over => Over', Over \in BOOLEAN, Over' \in BOOLEAN
    PROVE [Contract!Next]_(Contract!vars)
  <2> USE <1>Ends
  <2>1. CASE Over' = Over
    BY <2>1, <1>Unseen
  <2>2. CASE ~Over /\ Over'
    <3>1. \A c \in Channels : Shown(mailbox[c]) = "EMPTY"
      BY <1>ShownIs DEF occupied
    <3>2. \A c \in Channels : [d \in Channels |-> Shown(mailbox[d])][c] = "EMPTY"
      BY <3>1
    <3>3. Contract!Shutdown
      BY <2>2, <3>2 DEF Contract!Shutdown, Over
    <3> QED BY <3>3 DEF Contract!Next
  <2> QED BY <2>1, <2>2
<1>CoordImplements. ASSUME PoolInv, Coordinator \/ wait_timeout
    PROVE [Contract!Next]_(Contract!vars)
  <2> USE <1>CoordImplements
  <2>1. Typed /\ PoolOK /\ CallOK /\ rt \in RuntimeRecord
    BY DEF PoolInv, Typed
  <2>2. ASSUME UNCHANGED <<mailbox, rt>> PROVE [Contract!Next]_(Contract!vars)
    BY <2>2, <1>Unseen DEF Over
  <2>3. ASSUME submit_post PROVE [Contract!Next]_(Contract!vars)
    <3>1. PICK c \in Channels : c = co.arg /\ mailbox[c] = "EMPTY" /\ ~rt.stopping
      BY <2>1, <2>3 DEF CallOK, submit_post, Call
    <3>2. mailbox' = [mailbox EXCEPT ![c] = "QUEUED"]
      BY <2>3, <3>1 DEF submit_post
    <3>3. rt'.stopping = rt.stopping
      BY <2>1, <2>3, SMTT(60) DEF submit_post, RuntimeRecord
    <3>4. Over' = Over /\ ~Over
      BY <3>1, <3>3 DEF Over
    <3>5. Contract!Move(c, "EMPTY", "POSTED")
      BY <2>1, <3>1, <3>2, <3>4, <1>BoxMoves, <1>ShownIs
    <3>6. Contract!Submit(c)
      BY <3>4, <3>5 DEF Contract!Submit, Over
    <3> QED BY <3>6 DEF Contract!Next
  <2>4. ASSUME NEW c \in Channels, poll_job(c) PROVE [Contract!Next]_(Contract!vars)
    <3>1. mailbox[c] = "REPLIED" /\ mailbox' = [mailbox EXCEPT ![c] = "EMPTY"] /\ Over' = Over
      BY <2>4 DEF poll_job, Over
    <3>2. Contract!Move(c, "DONE", "EMPTY")
      BY <2>1, <3>1, <1>BoxMoves, <1>ShownIs
    <3>3. Contract!Poll(c)
      BY <3>2 DEF Contract!Poll
    <3> QED BY <3>3 DEF Contract!Next
  <2>5. ASSUME shutdown_call PROVE [Contract!Next]_(Contract!vars)
    <3>1. ~occupied /\ UNCHANGED mailbox
      BY <2>5 DEF shutdown_call
    <3>2. rt'.created = rt.created /\ rt'.joined = rt.joined /\ rt'.stopping
      BY <2>1, <2>5, SMTT(60) DEF shutdown_call, RuntimeRecord
    <3>3. (Over => Over') /\ Over \in BOOLEAN /\ Over' \in BOOLEAN
      BY <3>2 DEF Over
    <3> QED BY <2>1, <3>1, <3>3, <1>Ends
  <2>6. ASSUME shutdown_join PROVE [Contract!Next]_(Contract!vars)
    <3>1. UNCHANGED mailbox
      BY <2>6 DEF shutdown_join
    <3>2. \/ UNCHANGED <<rt.stopping, rt.created, rt.joined>>
          \/ /\ unjoined # {} /\ rt' = [rt EXCEPT !.joined = @ + 1, !.join_wait = FALSE]
      <4>1. \/ \E b \in BOOLEAN : rt' = [rt EXCEPT !.join_wait = b]
            \/ rt' = [rt EXCEPT !.failed = TRUE, !.join_failed = TRUE, !.join_wait = FALSE]
            \/ unjoined # {} /\ rt' = [rt EXCEPT !.joined = @ + 1, !.join_wait = FALSE]
        BY <2>6 DEF shutdown_join
      <4>2. ASSUME NEW b \in BOOLEAN, rt' = [rt EXCEPT !.join_wait = b]
            PROVE UNCHANGED <<rt.stopping, rt.created, rt.joined>>
        BY <2>1, <4>2, SMTT(60) DEF RuntimeRecord
      <4>3. ASSUME rt' = [rt EXCEPT !.failed = TRUE, !.join_failed = TRUE, !.join_wait = FALSE]
            PROVE UNCHANGED <<rt.stopping, rt.created, rt.joined>>
        BY <2>1, <4>3, SMTT(60) DEF RuntimeRecord
      <4> QED BY <4>1, <4>2, <4>3
    <3>3. CASE UNCHANGED <<rt.stopping, rt.created, rt.joined>>
      BY <3>1, <3>3, <1>Unseen DEF Over
    <3>4. CASE unjoined # {} /\ rt' = [rt EXCEPT !.joined = @ + 1, !.join_wait = FALSE]
      <4>1. PICK i \in Threads : i < rt.created /\ ~worker[i].joined
        BY <3>4 DEF unjoined, Created
      <4>2. ~(i < rt.joined)
        BY <4>1 DEF PoolInv, Threaded, LifeOK
      <4>3. rt.created # rt.joined
        BY <2>1, <4>1, <4>2, RuntimeTyped, SMTT(60) DEF Threads
      <4>4. rt'.stopping = rt.stopping
        BY <2>1, <3>4, SMTT(60) DEF RuntimeRecord
      <4>5. CASE rt.stopping
        <5>1. ~occupied
          BY <2>1, <4>5 DEF PoolOK
        <5>2. (Over => Over') /\ Over \in BOOLEAN /\ Over' \in BOOLEAN
          BY <4>3 DEF Over
        <5> QED BY <2>1, <3>1, <5>1, <5>2, <1>Ends
      <4>6. CASE ~rt.stopping
        <5>1. Over' = Over
          BY <4>4, <4>6 DEF Over
        <5> QED BY <3>1, <5>1, <1>Unseen
      <4> QED BY <4>5, <4>6
    <3> QED BY <3>2, <3>3, <3>4
  <2>7. ASSUME start_create \/ \E i \in Threads : start_collect(i)
        PROVE [Contract!Next]_(Contract!vars)
    <3>1. UNCHANGED mailbox /\ ~rt.stopping
      BY <2>7 DEF start_create, start_collect, starting
    <3>2. rt'.stopping = rt.stopping
      <4>1. ASSUME start_create PROVE rt'.stopping = rt.stopping
        BY <2>1, <4>1, SMTT(60) DEF start_create, RuntimeRecord
      <4>2. ASSUME NEW i \in Threads, start_collect(i) PROVE rt'.stopping = rt.stopping
        <5>1. PICK a, b, p : rt' = [rt EXCEPT !.acks = a, !.start_ok = b, !.published = p]
          BY <4>2 DEF start_collect
        <5> QED BY <2>1, <5>1, SMTT(60) DEF RuntimeRecord
      <4> QED BY <2>7, <4>1, <4>2
    <3>3. Over' = Over
      BY <3>1, <3>2 DEF Over
    <3> QED BY <3>1, <3>3, <1>Unseen
  <2>8. ASSUME destroy PROVE [Contract!Next]_(Contract!vars)
    <3>1. UNCHANGED <<mailbox, rt.stopping, rt.created, rt.joined>>
      BY <2>1, <2>8, SMTT(60) DEF destroy, RuntimeRecord
    <3> QED BY <3>1, <1>Unseen DEF Over
  <2>9. ASSUME \/ create_await \/ create_look \/ (\E c \in Channels : submit_check(c))
               \/ shutdown_stop \/ wait_call \/ wait_drain \/ wait_look \/ wait_poll
               \/ wait_timeout \/ lifecycle_call \/ lifecycle_read \/ lifecycle_poll
               \/ lifecycle_scan("scan", "read") \/ lifecycle_scan("rescan", "doze")
        PROVE [Contract!Next]_(Contract!vars)
    <3>1. UNCHANGED <<mailbox, rt>>
      BY <2>9 DEF create_await, create_look, submit_check, shutdown_stop, wait_call,
         wait_drain, wait_look, wait_poll, wait_timeout, lifecycle_call, lifecycle_read,
         lifecycle_poll, lifecycle_scan
    <3> QED BY <2>2, <3>1
  <2> HIDE DEF Contract!Next, Contract!vars
  <2> QED BY <2>3, <2>4, <2>5, <2>6, <2>7, <2>8, <2>9 DEF Coordinator
<1>1. Init => Contract!Init
  <2> SUFFICES ASSUME Init PROVE Contract!Init
    OBVIOUS
  <2>1. \A c \in Channels : Shown(mailbox[c]) = "EMPTY"
    BY <1>ShownIs DEF Init
  <2>2. [c \in Channels |-> Shown(mailbox[c])] = [c \in Channels |-> "EMPTY"]
    BY <2>1
  <2>3. ~rt.stopping
    BY SMTT(60) DEF Init
  <2> QED BY <2>2, <2>3 DEF Contract!Init
<1>2. PoolInv /\ [Next]_vars => [Contract!Next]_(Contract!vars)
  <2> SUFFICES ASSUME PoolInv, [Next]_vars PROVE [Contract!Next]_(Contract!vars)
    OBVIOUS
  <2>1. CASE UNCHANGED vars \/ Ended
    BY <2>1, <1>Unseen DEF vars, Over, Ended
  <2>2. CASE Next /\ ~Ended
    <3>1. set' = set
      BY <2>2 DEF Next
    <3>2. ASSUME NEW i \in Threads, Worker(i) PROVE [Contract!Next]_(Contract!vars)
      BY <3>1, <3>2, WorkerOwn, <1>WorkerImplements DEF PoolInv
    <3>3. ASSUME NEW i \in Threads, Spurious(i) PROVE [Contract!Next]_(Contract!vars)
      BY <3>3, <1>Unseen DEF Spurious, Over
    <3> QED BY <2>2, <3>2, <3>3, <1>CoordImplements DEF Next
  <2> QED BY <2>1, <2>2
<1> QED BY <1>1, <1>2, Inductive, PTL DEF Spec, ImplementsExecutor, Contract!Spec
=============================================================================
