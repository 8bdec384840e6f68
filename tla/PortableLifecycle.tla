------------------------- MODULE PortableLifecycle -------------------------
(* The C3.1 portable command lifecycle (core/c31.c) with the three provider *)
(* fixtures of core/fakes.  A host submits commands, the single executor    *)
(* (fwlab_c31_step, one unit of its budget per step) polls the two          *)
(* providers in turn and moves one command; completions are leased, aborts  *)
(* ticketed, and reset and teardown drain what the providers own.           *)
EXTENDS Naturals, FiniteSets, FiniteSetsExt

CONSTANT Settings
VARIABLES set, dev, env
vars == <<set, dev, env>>

Slots == 0 .. set.commands - 1
Tickets == 0 .. set.tickets - 1
Actives == 0 .. set.active - 1      \* C31_FAKE_*_MAX_ACTIVE
Providers == {"DMA", "NFC"}
DmaBytes == 3                        \* C31_FAKE_DMA_BYTES

NoFault == [domain |-> "NONE", reason |-> "NONE", effect |-> "NONE", prefix |-> 0]
Fault(domain, reason) == [NoFault EXCEPT !.domain = domain, !.reason = reason]
\* the uid stands for slot generation, operation generation and cookie too
NoHandle == [uid |-> 0, epoch |-> 0, slot |-> 0]

\* struct fwlab_c31_command_descriptor, with the scenario its request token
\* selects in the provider
Command == [prov |-> "NONE", dir |-> "NONE", origin |-> 0, cap |-> 0, off |-> 0, coff |-> 0,
            len |-> 0, known |-> TRUE, bp |-> 0, delay |-> 0, reject |-> FALSE,
            refusal |-> NoFault, terminal |-> "SUCCESS", wins |-> FALSE, fault |-> NoFault,
            effect |-> "NONE", actual |-> 0, reported |-> 0, dup |-> FALSE]
NoCompletion == [result |-> "NONE", fault |-> NoFault]
FreeSlot == [h |-> NoHandle, work |-> Command, comp |-> NoCompletion, state |-> "FREE", sgen |-> 0,
             ogen |-> 0, lgen |-> 0, used |-> FALSE, owned |-> FALSE, sent |-> FALSE,
             valid |-> FALSE, leased |-> FALSE, last |-> FALSE]
FreeTicket == [h |-> NoHandle, gen |-> 0, outcome |-> "PENDING", used |-> FALSE]
NoActive == [h |-> NoHandle, work |-> Command, used |-> FALSE, cancel |-> FALSE, delay |-> 0,
             emitted |-> FALSE, dup |-> FALSE, event |-> <<>>]

\* the member of a singleton: names a value so that it is computed once
The(S) == CHOOSE x \in S : TRUE

NextFrom(cur, n, S) == (cur + Min({k \in 0 .. n - 1 : (cur + k) % n \in S})) % n
LastFrom(cur, n, S) == (cur + Max({k \in 0 .. n - 1 : (cur + k) % n \in S})) % n

----------------------------------------------------------------------------
(* The fixtures: each answers with a disposition and the device it leaves.  *)

Answer(d, disposition, fault) == [d |-> d, disposition |-> disposition, fault |-> fault]
HoldBack(d, i) == Answer([d EXCEPT !.slot[i].work.bp = @ - 1], "BACKPRESSURE", NoFault)
Accept(d, k, i) ==
  LET s == d.slot[i]
      free == {a \in Actives : ~d.prov[k].act[a].used}
  IN IF free = {} THEN Answer(d, "BACKPRESSURE", NoFault)
     ELSE Answer([d EXCEPT !.prov[k].act[Min(free)] =
                    [NoActive EXCEPT !.h = s.h, !.work = s.work, !.used = TRUE,
                                     !.delay = s.work.delay]], "ACCEPTED", NoFault)

fake_try_submit(d, k, i) ==
  LET w == d.slot[i].work
  IN IF ~w.known THEN Answer(d, "REJECTED", Fault("PROVIDER", "PROVIDER_REJECTED"))
     ELSE IF w.bp > 0 THEN HoldBack(d, i)
     ELSE IF w.reject THEN Answer(d, "REJECTED", w.refusal)
     ELSE Accept(d, k, i)

nfc_submit(d, i) ==
  LET w == d.slot[i].work
  IN IF w.dir # "NONE" \/ w.len # 0 \/ ~w.known
     THEN Answer(d, "REJECTED", Fault("MEDIA", "PROVIDER_REJECTED"))
     ELSE IF w.bp > 0 THEN HoldBack(d, i)
     ELSE Accept(d, "NFC", i)

range_valid(offset, length, capacity) == offset <= capacity /\ length <= capacity - offset

\* a capability is a registration, the command it is bound to and how many of
\* its bytes (from) or of the controller's (to) have been overwritten
dma_try_submit(d, i) ==
  LET s == d.slot[i]
      w == s.work
      c == set.caps[w.cap]
      refuse(reason) == Answer(d, "REJECTED", Fault("DMA", reason))
  IN IF ~w.known THEN refuse("PROVIDER_REJECTED")
     ELSE IF w.bp > 0 THEN HoldBack(d, i)
     ELSE IF w.cap \notin DOMAIN set.caps THEN refuse("CAPABILITY")
     ELSE IF c.epoch # s.h.epoch \/ c.origin # w.origin \/ c.dir # w.dir THEN refuse("CAPABILITY")
     ELSE IF ~range_valid(w.off, w.len, c.len) \/ ~range_valid(w.coff, w.len, DmaBytes)
     THEN refuse("RANGE")
     ELSE IF d.bound[w.cap] \notin {0, s.h.uid} THEN refuse("CAPABILITY")
     ELSE LET a == Accept(d, "DMA", i)
          IN IF a.disposition = "ACCEPTED" THEN [a EXCEPT !.d.bound[w.cap] = s.h.uid] ELSE a

try_submit(d, k, i) ==
  CASE set.fake[k] = "scripted" -> fake_try_submit(d, k, i)
    [] set.fake[k] = "nfc" -> nfc_submit(d, i)
    [] set.fake[k] = "dma" -> dma_try_submit(d, i)

\* an entry's operation is known by its command's handle
WithCancel(act, S) ==
  [a \in Actives |-> IF act[a].used /\ a \in S THEN [act[a] EXCEPT !.cancel = TRUE] ELSE act[a]]
fake_cancel(act, h) == WithCancel(act, {a \in Actives : act[a].h = h})
nfc_cancel(act, h) == WithCancel(act, {a \in Actives : act[a].h = h})
dma_cancel(act, h) == WithCancel(act, {a \in Actives : act[a].h = h})
cancel(d, k, h) ==
  [d EXCEPT !.prov[k].act = CASE set.fake[k] = "scripted" -> fake_cancel(@, h)
                              [] set.fake[k] = "nfc" -> nfc_cancel(@, h)
                              [] set.fake[k] = "dma" -> dma_cancel(@, h)]

Event(a, terminal, fault) == [h |-> a.h, terminal |-> terminal, fault |-> fault]
Cancelled(a) == a.cancel /\ a.work.wins

build_event(a) ==
  IF Cancelled(a)
  THEN Event(a, "CANCELLED", [a.work.fault EXCEPT !.domain = "PROVIDER", !.reason = "CANCELLED"])
  ELSE Event(a, a.work.terminal, a.work.fault)

nfc_event(a) ==
  IF Cancelled(a) THEN Event(a, "CANCELLED", Fault("MEDIA", "CANCELLED"))
  ELSE Event(a, a.work.terminal, a.work.fault)

\* the event, and how many bytes the transfer overwrites
apply_and_build_event(a) ==
  LET w == a.work
      terminal == IF Cancelled(a) THEN "CANCELLED" ELSE w.terminal
      claimed == IF terminal = "SUCCESS" THEN "FULL" ELSE w.effect
      effect == IF w.dir = "TO" /\ terminal # "SUCCESS" THEN "NONE" ELSE claimed
      actual == CASE effect = "FULL" -> w.len
                  [] effect = "NONE" -> 0
                  [] OTHER -> Min({w.actual, w.len})
      reported == CASE w.dir = "TO" \/ effect \in {"NONE", "FULL"} -> 0
                    [] effect = "EXACT" -> actual
                    [] OTHER -> Min({Max({w.reported, actual}), w.len})
      fault == IF terminal = "SUCCESS" THEN NoFault
               ELSE Fault("DMA", IF terminal = "CANCELLED" THEN "CANCELLED" ELSE "PROVIDER_FAILED")
  IN [event |-> Event(a, terminal, [fault EXCEPT !.effect = effect, !.prefix = reported]),
      bytes |-> actual]

\* poll(budget 1): the device after it, and the event or <<>>
fake_poll(d, k, i) ==
  LET a == d.prov[k].act[i]
      e == IF a.emitted THEN a.event[1] ELSE build_event(a)
      again == ~a.emitted /\ a.work.dup
  IN [d |-> [d EXCEPT !.prov[k].act[i] =
              IF again THEN [a EXCEPT !.emitted = TRUE, !.event = <<e>>] ELSE NoActive],
      event |-> <<e>>]

nfc_poll(d, i) ==
  [d |-> [d EXCEPT !.prov["NFC"].act[i] = NoActive], event |-> <<nfc_event(d.prov["NFC"].act[i])>>]

dma_poll(d, i) ==
  LET a == d.prov["DMA"].act[i]
      done == apply_and_build_event(a)
  IN [d |-> [d EXCEPT !.prov["DMA"].act[i] = NoActive, !.bytes[a.work.cap] = Max({@, done.bytes})],
      event |-> <<done.event>>]

polled(d, k, i) ==
  IF d.prov[k].act[i].delay > 0
  THEN [d |-> [d EXCEPT !.prov[k].act[i].delay = @ - 1], event |-> <<>>]
  ELSE CASE set.fake[k] = "scripted" -> fake_poll(d, k, i)
         [] set.fake[k] = "nfc" -> nfc_poll(d, i)
         [] set.fake[k] = "dma" -> dma_poll(d, i)
poll(d, k) ==
  LET busy == {a \in Actives : d.prov[k].act[a].used}
  IN IF busy = {} THEN [d |-> d, event |-> <<>>]
     ELSE The({polled([d EXCEPT !.prov[k].cursor = (i + 1) % set.active], k, i)
               : i \in {NextFrom(d.prov[k].cursor, set.active, busy)}})

fake_reset_begin(act, epoch) == WithCancel(act, {a \in Actives : act[a].h.epoch = epoch})
nfc_reset_begin(act, epoch) == WithCancel(act, {a \in Actives : act[a].h.epoch = epoch})
dma_reset_begin(act, epoch) == WithCancel(act, {a \in Actives : act[a].h.epoch = epoch})
fake_quiescent(act, epoch) == \A a \in Actives : act[a].used => act[a].h.epoch # epoch
nfc_quiescent(act, epoch) == \A a \in Actives : act[a].used => act[a].h.epoch # epoch
dma_quiescent(act, epoch) == \A a \in Actives : act[a].used => act[a].h.epoch # epoch

----------------------------------------------------------------------------
(* The core.                                                                *)

instance_fault(d) == [d EXCEPT !.phase = "FAULTED"]

validate_descriptor(w) ==
  CASE w.prov = "NONE" -> w.dir = "NONE" /\ w.cap = 0 /\ w.off = 0 /\ w.coff = 0 /\ w.len = 0
    [] w.prov = "DMA" -> w.dir # "NONE" /\ w.cap # 0 /\ w.len # 0
    [] w.prov = "NFC" -> w.dir = "NONE" /\ w.cap = 0 /\ w.off = 0 /\ w.coff = 0 /\ w.len = 0

fault_valid(f, length) ==
  /\ f.effect \in {"EXACT", "UNKNOWN"} => f.prefix <= length
  /\ f.effect \in {"NONE", "FULL"} => f.prefix = 0
  /\ f.domain = "NONE" => f.reason = "NONE"

find_command(d, h) == d.slot[h.slot].used /\ d.slot[h.slot].h = h

abort_for_command(d, h) == {t \in Tickets : d.abort[t].used /\ d.abort[t].h = h}
update_abort(d, h, outcome) ==
  [d EXCEPT !.abort = [t \in Tickets |->
     IF t \in abort_for_command(d, h) /\ @[t].outcome = "PENDING"
     THEN [@[t] EXCEPT !.outcome = outcome] ELSE @[t]]]

\* a free slot keeps its handle and last terminal, and nothing else is read
retire_command(s) ==
  [s EXCEPT !.work = Command, !.comp = NoCompletion, !.state = "FREE", !.owned = FALSE, !.sent = FALSE, !.valid = FALSE,
            !.leased = FALSE, !.used = FALSE]

make_completion(s, result, fault) ==
  [s EXCEPT !.comp = [result |-> result, fault |-> fault], !.valid = TRUE, !.leased = FALSE,
            !.state = "COMPLETION_READY"]

provider_failure_result(k) == IF k = "DMA" THEN "TRANSFER_FAILURE" ELSE "MEDIA_FAILURE"

submitted(d, i, r) ==
  LET s == d.slot[i]
      k == s.work.prov
      broken == \/ ~fault_valid(r.fault, s.work.len)
                \/ r.disposition # "REJECTED" /\ r.fault # NoFault
                \/ r.disposition = "REJECTED" /\ (r.fault.domain = "NONE" \/ r.fault.reason = "NONE")
  IN IF broken THEN instance_fault(r.d)
     ELSE CASE r.disposition = "ACCEPTED" ->
                 [r.d EXCEPT !.slot[i].owned = TRUE, !.slot[i].state = "RUNNING"]
            [] r.disposition = "BACKPRESSURE" -> [r.d EXCEPT !.slot[i].state = "HELD"]
            [] r.disposition = "REJECTED" ->
                 [r.d EXCEPT !.slot[i] = make_completion(@, provider_failure_result(k), r.fault)]
submit_provider_operation(d, i) ==
  IF set.fake[d.slot[i].work.prov] = "none"
  THEN [d EXCEPT !.slot[i] = make_completion(@, "UNSUPPORTED_COMMAND", NoFault)]
  ELSE The({submitted(d, i, r) : r \in {try_submit(d, d.slot[i].work.prov, i)}})

Draining == {"RESET_DRAIN", "TEARDOWN_DRAIN"}

process_provider_event(d, k, e) ==
  LET i == e.h.slot
      s == d.slot[i]
      broken == \/ s.work.prov # k \/ ~s.owned
                \/ s.state \notin {"RUNNING", "CANCEL_PENDING", "RESET_DRAIN"}
                \/ ~fault_valid(e.fault, s.work.len)
                \/ e.terminal = "SUCCESS" /\ e.fault.domain # "NONE"
                \/ e.terminal # "SUCCESS" /\ (e.fault.domain = "NONE" \/ e.fault.reason = "NONE")
      ended == [s EXCEPT !.owned = FALSE, !.last = TRUE]
      result == CASE e.terminal = "SUCCESS" -> "SUCCESS"
                  [] e.terminal = "CANCELLED" -> "ABORTED"
                  [] OTHER -> provider_failure_result(k)
  IN IF ~fault_valid(e.fault, e.fault.prefix) THEN instance_fault(d)
     ELSE IF s.last /\ s.h = e.h THEN instance_fault(d)  \* last_terminal: a duplicate
     ELSE IF s.h # e.h THEN d                            \* stale
     ELSE IF broken THEN instance_fault(d)
     ELSE IF d.phase \in Draining \/ s.state = "RESET_DRAIN"
     THEN [d EXCEPT !.slot[i] = retire_command(ended)]
     ELSE [update_abort(d, s.h, IF e.terminal = "SUCCESS" THEN "TOO_LATE" ELSE "TERMINAL")
             EXCEPT !.slot[i] = make_completion(ended, result, e.fault)]

poll_provider(d, k) ==
  IF set.fake[k] = "none" THEN [d |-> d, event |-> <<>>]
  ELSE The({IF p.event = <<>> THEN p ELSE [p EXCEPT !.d = process_provider_event(p.d, k, p.event[1])]
            : p \in {poll(d, k)}})

\* slots that the scan of progress_command stops at
Movable(s) ==
  \/ s.state \in {"ACCEPTED", "DISPATCHED", "HELD"}
  \/ s.state = "RESET_DRAIN" /\ ~s.owned
  \/ s.state \in {"CANCEL_PENDING", "RESET_DRAIN"} /\ s.owned /\ ~s.sent

move_command(d, i) ==
  LET s == d.slot[i]
  IN CASE ~Movable(s) -> d
       [] s.state = "ACCEPTED" ->
            [d EXCEPT !.slot[i] = IF s.work.prov = "NONE" THEN make_completion(s, "SUCCESS", NoFault)
                                  ELSE [s EXCEPT !.state = "DISPATCHED"]]
       [] s.state \in {"DISPATCHED", "HELD"} -> submit_provider_operation(d, i)
       [] s.state = "RESET_DRAIN" /\ ~s.owned -> [d EXCEPT !.slot[i] = retire_command(s)]
       [] s.state \in {"CANCEL_PENDING", "RESET_DRAIN"} /\ s.owned /\ ~s.sent ->
            [cancel(d, s.work.prov, s.h) EXCEPT !.slot[i].sent = TRUE]

\* the cursor passes every live slot the scan has looked at
progress_command(d) ==
  LET live == {i \in Slots : d.slot[i].used}
      move == {i \in live : Movable(d.slot[i])}
  IN IF live = {} THEN d
     ELSE The({move_command(e[1], e[2]) : e \in {<<[d EXCEPT !.ccur = (i + 1) % set.commands], i>> :
            i \in {IF move = {} THEN LastFrom(d.ccur, set.commands, live)
                   ELSE NextFrom(d.ccur, set.commands, move)}}})

provider_reset_begin(d, epoch) ==
  [d EXCEPT !.prov = [k \in Providers |-> [@[k] EXCEPT !.act =
     CASE set.fake[k] = "scripted" -> fake_reset_begin(@, epoch)
       [] set.fake[k] = "nfc" -> nfc_reset_begin(@, epoch)
       [] set.fake[k] = "dma" -> dma_reset_begin(@, epoch)
       [] set.fake[k] = "none" -> @]]]
providers_quiescent(d) ==
  \A k \in Providers : LET act == d.prov[k].act
    IN CASE set.fake[k] = "scripted" -> fake_quiescent(act, d.drain)
         [] set.fake[k] = "nfc" -> nfc_quiescent(act, d.drain)
         [] set.fake[k] = "dma" -> dma_quiescent(act, d.drain)
         [] set.fake[k] = "none" -> TRUE

any_commands(d) == \E i \in Slots : d.slot[i].used
any_abort_tickets(d) == \E t \in Tickets : d.abort[t].used

check_drain_complete(d) ==
  IF d.phase \in Draining /\ ~any_commands(d) /\ ~any_abort_tickets(d) /\ providers_quiescent(d)
  THEN [d EXCEPT !.phase = IF @ = "RESET_DRAIN" THEN "RESET_ACK" ELSE "TEARDOWN_ACK"]
  ELSE d

\* one unit of fwlab_c31_step
step(d0) ==
  LET k == IF d0.pcur = 0 THEN "DMA" ELSE "NFC"
      heard == {poll_provider(d, k) : d \in {[d0 EXCEPT !.pcur = 1 - @]}}
      moved == {IF p.event = <<>> THEN progress_command(p.d) ELSE p.d : p \in heard}
  IN The({IF d.phase = "FAULTED" THEN d ELSE check_drain_complete(d) : d \in moved})

submit(d, w) ==
  LET free == {i \in Slots : ~d.slot[i].used}
      worn(i) == d.slot[i].sgen >= set.slotLimit \/ (w.prov # "NONE" /\ d.slot[i].ogen >= set.opLimit)
      fit == {i \in free : ~worn(i)}
      i == Min(fit)
      uid == d.uid + 1
  IN IF d.uid >= set.uidLimit \/ (fit = {} /\ free # {}) THEN instance_fault(d)
     ELSE IF fit = {} THEN d
     ELSE [d EXCEPT !.uid = uid,
             !.slot[i] = [FreeSlot EXCEPT !.h = [uid |-> uid, epoch |-> d.epoch, slot |-> i],
               !.work = w, !.state = "ACCEPTED", !.used = TRUE, !.sgen = d.slot[i].sgen + 1,
               !.ogen = d.slot[i].ogen + (IF w.prov = "NONE" THEN 0 ELSE 1), !.lgen = d.slot[i].lgen]]

\* the lease handed out, or none
completion_acquire(d, h) ==
  LET s == d.slot[h.slot]
  IN IF ~find_command(d, h) \/ s.state # "COMPLETION_READY" \/ ~s.valid \/ s.leased
     THEN [d |-> d, lease |-> {}]
     ELSE IF s.lgen >= set.leaseLimit THEN [d |-> instance_fault(d), lease |-> {}]
     ELSE [d |-> [d EXCEPT !.slot[h.slot].lgen = @ + 1, !.slot[h.slot].leased = TRUE,
                           !.slot[h.slot].state = "COMPLETION_LEASED"],
           lease |-> {[h |-> h, gen |-> s.lgen + 1]}]

validate_lease(d, l) ==
  LET s == d.slot[l.h.slot]
  IN /\ find_command(d, l.h)
     /\ s.h.epoch = d.epoch
     /\ s.state = "COMPLETION_LEASED" /\ s.leased /\ l.gen = s.lgen

completion_release(d, l) ==
  IF validate_lease(d, l)
  THEN [d EXCEPT !.slot[l.h.slot].leased = FALSE, !.slot[l.h.slot].state = "COMPLETION_READY"]
  ELSE d

completion_consume(d, l) ==
  IF validate_lease(d, l) THEN [d EXCEPT !.slot[l.h.slot] = retire_command(@)] ELSE d

allocate_abort(d, h) ==
  LET free == {t \in Tickets : ~d.abort[t].used}
      fit == {t \in free : d.abort[t].gen < set.ticketLimit}
      t == Min(fit)
  IN [t |-> IF fit = {} THEN {} ELSE {t}, worn |-> fit = {} /\ free # {},
      d |-> IF fit = {} THEN d
            ELSE [d EXCEPT !.abort[t] = [FreeTicket EXCEPT !.h = h, !.gen = d.abort[t].gen + 1, !.used = TRUE]]]

\* the ticket handed out, or none
abort_request(d, h) ==
  LET s == d.slot[h.slot]
      had == abort_for_command(d, h)
      a == allocate_abort(d, h)
      t == Min(a.t)
      done == IF s.state \in {"ACCEPTED", "DISPATCHED", "HELD"}
              THEN [a.d EXCEPT !.abort[t].outcome = "TERMINAL",
                      !.slot[h.slot] = make_completion(s, "ABORTED", Fault("CORE", "CANCELLED"))]
              ELSE IF s.state = "RUNNING" THEN [a.d EXCEPT !.slot[h.slot].state = "CANCEL_PENDING"]
              ELSE IF s.state \in {"COMPLETION_READY", "COMPLETION_LEASED"}
              THEN [a.d EXCEPT !.abort[t].outcome = "TOO_LATE"]
              ELSE [a.d EXCEPT !.abort[t].used = FALSE]
      kept == done.abort[t].used
  IN IF ~find_command(d, h) THEN [d |-> d, ticket |-> {}]
     ELSE IF had # {} THEN [d |-> d, ticket |-> {[h |-> h, gen |-> d.abort[t1].gen] : t1 \in had}]
     ELSE IF a.t = {} THEN [d |-> IF a.worn THEN instance_fault(d) ELSE d, ticket |-> {}]
     ELSE [d |-> done, ticket |-> IF kept THEN {[h |-> h, gen |-> done.abort[t].gen]} ELSE {}]

find_abort(d, k) == {t \in Tickets : d.abort[t].used /\ d.abort[t].gen = k.gen /\ d.abort[t].h = k.h}

abort_ack(d, k) ==
  [d EXCEPT !.abort = [t \in Tickets |->
     IF t \in find_abort(d, k) /\ @[t].outcome # "PENDING" THEN [@[t] EXCEPT !.used = FALSE] ELSE @[t]]]

begin_drain_forget(d0, teardown) ==
  LET d == [provider_reset_begin(d0, d0.epoch) EXCEPT !.epoch = IF teardown THEN @ ELSE @ + 1, !.drain = d0.epoch,
              !.phase = IF teardown THEN "TEARDOWN_DRAIN" ELSE "RESET_DRAIN",
              !.abort = [t \in Tickets |-> IF @[t].used /\ @[t].outcome = "PENDING"
                                           THEN [@[t] EXCEPT !.outcome = "RESET_SUPERSEDED"] ELSE @[t]],
              !.slot = [i \in Slots |->
                 IF ~@[i].used THEN @[i]
                 ELSE IF FALSE
                 THEN [@[i] EXCEPT !.leased = FALSE, !.valid = FALSE, !.sent = FALSE, !.state = "RESET_DRAIN"]
                 ELSE retire_command(@[i])]]
  IN IF ~teardown /\ d0.epoch >= set.epochLimit THEN instance_fault(d0) ELSE check_drain_complete(d)
begin_drain(d0, teardown) ==
  LET d == [provider_reset_begin(d0, d0.epoch) EXCEPT !.epoch = IF teardown THEN @ ELSE @ + 1, !.drain = d0.epoch,
              !.phase = IF teardown THEN "TEARDOWN_DRAIN" ELSE "RESET_DRAIN",
              !.abort = [t \in Tickets |-> IF @[t].used /\ @[t].outcome = "PENDING"
                                           THEN [@[t] EXCEPT !.outcome = "RESET_SUPERSEDED"] ELSE @[t]],
              !.slot = [i \in Slots |->
                 IF ~@[i].used THEN @[i]
                 ELSE IF @[i].owned
                 THEN [@[i] EXCEPT !.leased = FALSE, !.valid = FALSE, !.sent = FALSE, !.state = "RESET_DRAIN"]
                 ELSE retire_command(@[i])]]
  IN IF ~teardown /\ d0.epoch >= set.epochLimit THEN instance_fault(d0) ELSE check_drain_complete(d)

----------------------------------------------------------------------------
(* The instance, its executor and the host.  env holds every token handed   *)
(* out, the completions consumed, and how often the instance has faulted    *)
(* in a drain.                                                              *)

Init ==
  /\ set \in Settings
  /\ dev = [phase |-> "READY", epoch |-> 1, drain |-> 0, uid |-> 0, ccur |-> 0, pcur |-> 0,
            slot |-> [i \in Slots |-> FreeSlot], abort |-> [t \in Tickets |-> FreeTicket],
            prov |-> [k \in Providers |-> [cursor |-> 0, act |-> [a \in Actives |-> NoActive]]],
            bound |-> [c \in DOMAIN set.caps |-> 0], bytes |-> [c \in DOMAIN set.caps |-> 0]]
  /\ env = [leases |-> {}, tickets |-> {}, consumed |-> {}, torn |-> FALSE, calls |-> 0]

Step ==
  /\ dev.phase \notin {"DEAD", "RESET_ACK", "TEARDOWN_ACK", "FAULTED"}
  /\ dev' = step(dev)
  /\ env' = [env EXCEPT !.torn = @ \/ (dev.phase \in Draining /\ dev'.phase = "FAULTED")]
  /\ UNCHANGED set

Handles == {dev.slot[i].h : i \in {j \in Slots : dev.slot[j].used}}

Submit ==
  /\ dev.phase = "READY" /\ dev.uid < set.uids
  /\ \E w \in set.work[dev.uid + 1] : validate_descriptor(w) /\ dev' = submit(dev, w)
  /\ UNCHANGED <<set, env>>
Acquire ==
  /\ dev.phase = "READY"
  /\ \E h \in Handles : LET r == completion_acquire(dev, h)
                        IN dev' = r.d /\ env' = [env EXCEPT !.leases = @ \cup r.lease]
  /\ UNCHANGED set
\* any lease ever handed out, its command long gone or not
Release ==
  /\ dev.phase = "READY" /\ Cardinality(env.leases) < set.takes
  /\ \E l \in env.leases : dev' = completion_release(dev, l)
  /\ UNCHANGED <<set, env>>
Consume ==
  /\ dev.phase = "READY"
  /\ \E l \in env.leases :
       /\ dev' = completion_consume(dev, l)
       /\ env' = IF dev' = dev THEN env
                 ELSE [env EXCEPT !.consumed = @ \cup {[lease |-> l, epoch |-> dev.epoch,
                         work |-> dev.slot[l.h.slot].work, comp |-> dev.slot[l.h.slot].comp]}]
  /\ UNCHANGED set
Abort ==
  /\ dev.phase = "READY" /\ Cardinality(env.tickets) < set.asks
  /\ \E h \in Handles : LET r == abort_request(dev, h)
                        IN dev' = r.d /\ env' = [env EXCEPT !.tickets = @ \cup r.ticket]
  /\ UNCHANGED set
AbortAck ==
  /\ dev.phase # "DEAD"
  /\ \E k \in env.tickets : dev' = abort_ack(dev, k)
  /\ UNCHANGED <<set, env>>
Drain ==
  /\ dev.phase \in {"READY", "FAULTED"} /\ env.calls < set.calls
  /\ \E teardown \in BOOLEAN : dev' = begin_drain(dev, teardown)
  /\ env' = [env EXCEPT !.calls = @ + 1]
  /\ UNCHANGED set
DrainAck ==
  /\ dev.phase \in {"RESET_ACK", "TEARDOWN_ACK"}
  /\ dev' = [dev EXCEPT !.phase = IF @ = "RESET_ACK" THEN "READY" ELSE "DEAD"]
  /\ UNCHANGED <<set, env>>

\* the host consumes what it leased, acknowledges tickets and drains
HostDuty ==
  \/ DrainAck
  \/ AbortAck
  \/ Acquire
  \/ Consume
Next == Step \/ HostDuty \/ Submit \/ Release \/ Abort \/ Drain
Spec == Init /\ [][Next]_vars /\ WF_vars(Step) /\ WF_vars(HostDuty)

----------------------------------------------------------------------------
(* Properties.                                                              *)

Pending == {k \in Providers \X Actives : LET a == dev.prov[k[1]].act[k[2]] IN a.used /\ ~a.emitted}
Worn ==
  \/ dev.uid >= set.uidLimit \/ dev.epoch >= set.epochLimit
  \/ \E i \in Slots : LET s == dev.slot[i]
                      IN s.sgen >= set.slotLimit \/ s.ogen >= set.opLimit \/ s.lgen >= set.leaseLimit
  \/ \E t \in Tickets : dev.abort[t].gen >= set.ticketLimit

\* core/c31.c: what the core calls provider_owned is exactly what a provider
\* holds, so a slot is never freed under a running operation; a ticket is
\* pending exactly while its command waits for a cancelled operation; a drain
\* is acknowledged only when no command, ticket or operation is left (unless
\* a provider broke the contract during an earlier drain); and the instance
\* faults only when a counter is exhausted or a provider breaks the contract.
LifecycleSound ==
  /\ set.honest =>
       /\ \A i \in Slots : dev.slot[i].owned <=>
            Cardinality({k \in Pending : dev.prov[k[1]].act[k[2]].h = dev.slot[i].h
                                         /\ k[1] = dev.slot[i].work.prov}) = 1
       /\ \A k \in Pending : \E i \in Slots :
            dev.slot[i].used /\ dev.slot[i].owned /\ dev.slot[i].h = dev.prov[k[1]].act[k[2]].h
       /\ dev.phase = "FAULTED" => Worn
  /\ \A i \in Slots : LET s == dev.slot[i]
       IN /\ s.valid <=> s.state \in {"COMPLETION_READY", "COMPLETION_LEASED"}
          /\ s.leased <=> s.state = "COMPLETION_LEASED"
          /\ s.owned <=> s.state \in {"RUNNING", "CANCEL_PENDING", "RESET_DRAIN"}
          /\ s.state = "CANCEL_PENDING" <=>
               \E t \in abort_for_command(dev, s.h) : s.used /\ dev.abort[t].outcome = "PENDING"
  /\ \A t, u \in Tickets : dev.abort[t].used /\ dev.abort[u].used /\ dev.abort[t].h = dev.abort[u].h => t = u
  /\ \A t \in Tickets : dev.abort[t].used /\ dev.abort[t].outcome = "PENDING" => find_command(dev, dev.abort[t].h)
  /\ dev.phase \in {"RESET_ACK", "TEARDOWN_ACK", "DEAD"} =>
       /\ \A i \in Slots : ~dev.slot[i].used
       /\ \A t \in Tickets : ~dev.abort[t].used
       /\ env.torn \/ \A k \in Providers, a \in Actives : ~dev.prov[k].act[a].used

\* core/c31.c, core/fakes/c31_fake_dma.c: what completion c says of command h
Truthful(h, w, c) ==
  /\ c.result = "SUCCESS" => w.prov = "NONE" \/ (w.known /\ ~w.reject /\ w.terminal = "SUCCESS")
  /\ c.result = "ABORTED" => w.terminal = "CANCELLED" \/ \E k \in env.tickets : k.h = h
  /\ w.prov = "DMA" /\ set.fake["DMA"] = "dma" /\ w.cap \in DOMAIN set.caps =>
       LET n == IF dev.bound[w.cap] = h.uid THEN dev.bytes[w.cap] ELSE 0
       IN CASE c.fault.effect = "FULL" -> n = w.len
            [] c.fault.effect = "NONE" -> n = 0
            [] c.fault.effect = "EXACT" -> n = c.fault.prefix
            [] OTHER -> n <= c.fault.prefix

\* core/c31.c:1068: a completion, waiting or consumed, tells what the provider
\* did, and the bytes of a consumed transfer never change afterwards; it is
\* consumed in the epoch of its command and once; a ticket that says the abort
\* took effect never stands beside a success, and one that reset superseded
\* never beside any consumed completion.
CompletionsTrue ==
  /\ \A i \in Slots : dev.slot[i].valid => Truthful(dev.slot[i].h, dev.slot[i].work, dev.slot[i].comp)
  /\ \A c \in env.consumed : /\ Truthful(c.lease.h, c.work, c.comp)
                             /\ c.epoch = c.lease.h.epoch
                             /\ \A b \in env.consumed : b.lease.h = c.lease.h => b = c
  /\ \A t \in Tickets : LET a == dev.abort[t]
       IN a.used =>
            /\ a.outcome = "TERMINAL" =>
                 /\ find_command(dev, a.h) => dev.slot[a.h.slot].valid /\ dev.slot[a.h.slot].comp.result # "SUCCESS"
                 /\ \A c \in env.consumed : c.lease.h = a.h => c.comp.result # "SUCCESS"
            /\ a.outcome = "RESET_SUPERSEDED" => \A c \in env.consumed : c.lease.h # a.h

\* core/c31.c:1017: an intent, once made, stands until its command is
\* retired, and only its newest lease or a drain retires it, whatever older
\* leases the host still presents.
IntentsStand ==
  \A i \in Slots : LET s == dev.slot[i] t == dev'.slot[i]
    IN s.valid =>
         /\ t.h = s.h
         /\ \/ t.used /\ t.comp = s.comp
            \/ dev'.drain # dev.drain \/ dev'.phase \in Draining \cup {"RESET_ACK", "TEARDOWN_ACK"}
            \/ \E c \in env'.consumed : c.lease = [h |-> s.h, gen |-> s.lgen]

\* core/c31.c:894: with providers that keep the contract, every command,
\* ticket and drain comes to an end.
Waiting ==
  /\ set.honest /\ dev.phase \notin {"FAULTED", "DEAD"}
  /\ dev.phase # "READY" \/ (\E i \in Slots : dev.slot[i].used) \/ \E t \in Tickets : dev.abort[t].used
\* Whatever the core holds ends: commands, leases, tickets and drains
\* (c31_step, completion_release, reset and teardown).
Progress == Waiting ~> ~Waiting
====
