------------------------------ MODULE NativeHif ------------------------------
(***************************************************************************)
(* The native NVMe function of kernel/m4-native together with the process  *)
(* that serves it (frontends/linux-m4) and the host driver that uses it.    *)
(*                                                                         *)
(* `k` is the kernel side: PCI command register, MSI-X routes, IOMMU        *)
(* attachment, NVMe registers, queues, captured requests, reset and owner   *)
(* state.  `host` is the driver: ring memory, doorbells, outstanding        *)
(* commands and what it has lent to the device.  `wrk` is the worker: one   *)
(* slot per command it was given.  `call` is the worker's ioctl that is     *)
(* between two copies to host memory; it holds the HIF mutex, so no other   *)
(* ioctl or service pass runs, but registers, config space, page tables and *)
(* interrupts go on.  `set` is the profile and the scenario, chosen once.   *)
(***************************************************************************)
EXTENDS Naturals, FiniteSets, Sequences, FiniteSetsExt, Functions

CONSTANTS Settings,   \* scenarios: [profile, script, ios, lives, menu, faults]
          Depth       \* slots of every ring and number of request records, at least 2

VARIABLES set, k, host, wrk, call

vars == <<set, k, host, wrk, call>>

Mq2 == set.profile = "MQ2"
Large == set.profile \in {"LARGE", "MQ2"}
Queues == IF Mq2 THEN 0..2 ELSE 0..1
Vectors == IF Mq2 THEN 0..2 ELSE {0}
Slots == 0..(Depth - 1)
DataOps == {"IO", "ID"}
QueueOps == {"NUMQ", "CCQ", "CSQ", "DSQ", "DCQ"}
Pages(op) == IF op = "IO" THEN 2 ELSE 1

NoCmd == [tag |-> 0, op |-> "ID", qid |-> 0]
NoTicket == [v |-> 0, oepoch |-> 0, bgen |-> 0, egen |-> 0, rgen |-> 0, bar |-> 0]
NoRoute == [gen |-> 1, pend |-> FALSE, queued |-> FALSE, tkt |-> NoTicket]
NoQueue == [valid |-> FALSE, map |-> [nonce |-> 0, gen |-> 0, tag |-> 0], inc |-> 0,
            holders |-> 0, vector |-> 0, head |-> 0, tail |-> 0, cqid |-> 0,
            pending |-> 0, phase |-> 1, closing |-> FALSE]
NoFrame == [held |-> FALSE, uid |-> 0, epoch |-> 0]
NoCall == [kind |-> "NONE", uid |-> 0, at |-> 0, tkt |-> NoTicket, lost |-> FALSE]

(***************************************************************************)
(* Kernel: gates                                                           *)
(***************************************************************************)
\* Mutant: an access that outlives a toggle of bus mastering.
native_access_stale(s, g) ==
    /\ s.open /\ s.ready /\ ~s.rp
    /\ s.phase = "OWNED" /\ g.oepoch = s.oepoch
    /\ ~s.quar
    /\ g.epoch = s.epoch
    /\ s.bar = s.seen
    /\ s.bus.on /\ s.cc.en /\ ~s.cc.shn

\* native_access_locked: the one test every effect on host memory passes.
native_access(s, g) ==
    /\ s.open /\ s.ready /\ ~s.rp
    /\ s.phase = "OWNED" /\ g.oepoch = s.oepoch
    /\ ~s.quar
    /\ g.epoch = s.epoch /\ g.bgen = s.bus.gen
    /\ s.bar = s.seen
    /\ s.bus.on /\ s.cc.en /\ ~s.cc.shn

\* native_copy over fwlab_m4_mapping_copy: the captured mapping is still the
\* attached domain's and the pages were not unmapped since.
native_copy(s, m, g) ==
    /\ m.nonce = s.dom.nonce /\ m.gen = s.dom.gen
    /\ s.att.nonce = m.nonce /\ s.att.gen = m.gen
    /\ m.tag = 0 \/ m.tag \in s.mapped
    /\ native_access(s, g)

\* fwlab_m4_irq_valid_locked
irq_valid(s, t) ==
    /\ t # NoTicket /\ s.open /\ s.phase = "OWNED"
    /\ t.oepoch = s.oepoch /\ t.bgen = s.bus.gen /\ t.egen = s.egen
    /\ t.rgen = s.route[t.v].gen /\ t.bar = s.bar /\ s.bus.on

\* Mutant: a notification that comes while its vector is masked is dropped.
flush_msix_masked(s) ==
    [s EXCEPT !.route = [v \in DOMAIN @ |->
        IF ~irq_valid(s, @[v].tkt) THEN [@[v] EXCEPT !.pend = FALSE, !.queued = FALSE]
        ELSE IF @[v].pend THEN [@[v] EXCEPT !.pend = FALSE, !.queued = @ \/ ~s.mask[v]]
        ELSE @[v]]]

\* fwlab_m4_update_msix without a ticket: an invalid route forgets, an
\* unmasked pending one is queued.
flush_msix(s) ==
    [s EXCEPT !.route = [v \in DOMAIN @ |->
        IF ~irq_valid(s, @[v].tkt) THEN [@[v] EXCEPT !.pend = FALSE, !.queued = FALSE]
        ELSE IF @[v].pend /\ ~s.mask[v] THEN [@[v] EXCEPT !.pend = FALSE, !.queued = TRUE]
        ELSE @[v]]]

raise_msix(s, t) ==
    IF irq_valid(s, t)
    THEN flush_msix([s EXCEPT !.route[t.v].pend = TRUE, !.route[t.v].tkt = t])
    ELSE s

clear_msix(s) ==
    [s EXCEPT !.route = [v \in DOMAIN @ |->
        [@[v] EXCEPT !.pend = FALSE, !.queued = FALSE, !.tkt = NoTicket]]]

retire_msix_route(s, v) ==
    [s EXCEPT !.route[v] = [gen |-> @.gen + 1, pend |-> FALSE, queued |-> FALSE, tkt |-> NoTicket]]

close_effects(s) ==
    IF s.open THEN clear_msix([s EXCEPT !.open = FALSE, !.egen = @ + 1]) ELSE clear_msix(s)

\* fwlab_m4_cfg_write of PCI_COMMAND, and of the FLR bit of Device Control.
command_write(s, on) == [s EXCEPT !.bus = [on |-> on, gen |-> IF @.on = on THEN @.gen ELSE @.gen + 1]]
bar_reset(s) == [s EXCEPT !.bar = @ + 1]

\* The IOMMU driver's page tables and attachment, and the MSI-X mask bit.
map_pages(s, tag) == [s EXCEPT !.mapped = @ \cup {tag}]
unmap_pages(s, tags) == [s EXCEPT !.mapped = @ \ tags]
attach_common(s, kind, nonce, gen) == [s EXCEPT !.att = [kind |-> kind, nonce |-> nonce, gen |-> gen]]
irq_set_mask(s, v, masked) == [s EXCEPT !.mask[v] = masked]

(***************************************************************************)
(* Kernel: reset                                                           *)
(***************************************************************************)
\* The value of a one-element set: what it holds is computed once.
Only(S) == CHOOSE x \in S : TRUE

Zeroed(f) == [q \in DOMAIN f |-> 0]
Status(r, f, h) == [rdy |-> r, fatal |-> f, shst |-> h]

native_registers_init(s) ==
    [s EXCEPT !.cc = [en |-> FALSE, shn |-> FALSE], !.csts = Status(FALSE, FALSE, FALSE),
              !.sqdb = Zeroed(@), !.cqdb = Zeroed(@), !.mask = [v \in DOMAIN @ |-> FALSE]]

native_cancel_transport(s) ==
    LET c == close_effects(s)
        Shut(qs) == [q \in DOMAIN qs |-> IF Mq2 THEN [qs[q] EXCEPT !.closing = TRUE] ELSE NoQueue]
    IN [c EXCEPT !.ready = FALSE, !.drained = FALSE, !.delivery = 0,
                 !.req = [u \in DOMAIN @ |->
                     [@[u] EXCEPT !.dma = IF @ = "RESERVED" THEN "CANCELLED" ELSE @,
                                  !.pub = IF @ = "UNPUBLISHED" THEN "DISCARDED" ELSE @]],
                 !.sq = Shut(@), !.cq = Shut(@),
                 !.sqdb = Zeroed(@), !.cqdb = Zeroed(@)]

native_begin_reset(s, shutdown, flr) ==
    IF s.rp \/ s.phase # "OWNED" THEN s
    ELSE LET c == [native_cancel_transport(s) EXCEPT !.epoch = @ + 1, !.rp = TRUE,
                                                     !.shutdown = shutdown]
         IN IF flr THEN native_registers_init(c) ELSE c

FaultStatus(s) == Status(s.cc.en, TRUE, FALSE)

native_fault(s) ==
    LET r == native_begin_reset([s EXCEPT !.faulted = TRUE], FALSE, FALSE)
    IN [r EXCEPT !.csts = FaultStatus(r)]

native_queue_origin_valid(s, r) ==
    ~Mq2 \/ LET sq == s.sq[r.sqid]
                cq == s.cq[r.cqid]
            IN /\ sq.valid /\ cq.valid /\ sq.holders > 0 /\ cq.holders > 0
               /\ sq.inc = r.sinc /\ cq.inc = r.cinc /\ sq.cqid = r.cqid

Held(r) == \/ r.pub = "UNPUBLISHED"
           \/ Mq2 /\ r.qstarted /\ ~r.qdone
           \/ r.shaped /\ ~(r.released /\ r.retired)

FrameClass(r) == IF r.sqid = 0 THEN 1 ELSE 0
FrameOwned(s, r) == s.frame[FrameClass(r)] = [held |-> TRUE, uid |-> r.uid, epoch |-> r.epoch]

\* native_request_clear may fail with EIO only when the bookkeeping is broken.
ClearFails(s, r) ==
    \/ Mq2 /\ (~native_queue_origin_valid(s, r) \/ (r.pub = "DISCARDED" /\ s.cq[r.cqid].pending = 0))
    \/ Large /\ ~FrameOwned(s, r)

\* Mutant: the ingress frame stays with the record that is gone.
native_request_clear_frame(s, u) ==
    LET r == s.req[u]
        q == IF Mq2
             THEN [s EXCEPT !.sq[r.sqid].holders = @ - 1,
                            !.cq[r.cqid].holders = @ - 1,
                            !.cq[r.cqid].pending = IF r.pub = "DISCARDED" THEN @ - 1 ELSE @]
             ELSE s
    IN [q EXCEPT !.req = Restrict(@, DOMAIN @ \ {u})]

native_request_clear(s, u) ==
    LET r == s.req[u]
        q == IF Mq2
             THEN [s EXCEPT !.sq[r.sqid].holders = @ - 1,
                            !.cq[r.cqid].holders = @ - 1,
                            !.cq[r.cqid].pending = IF r.pub = "DISCARDED" THEN @ - 1 ELSE @]
             ELSE s
        f == IF Large THEN [q EXCEPT !.frame[FrameClass(r)] = NoFrame] ELSE q
    IN [f EXCEPT !.req = Restrict(@, DOMAIN @ \ {u})]

\* native_requests_clear goes over every record; a failure leaves the rest.
native_requests_clear(s) ==
    LET all == FoldSet(LAMBDA u, a : IF a.bad \/ ClearFails(a.s, a.s.req[u])
                                     THEN [a EXCEPT !.bad = TRUE]
                                     ELSE [a EXCEPT !.s = native_request_clear(a.s, u)],
                       [s |-> s, bad |-> FALSE], DOMAIN s.req)
    IN [all EXCEPT !.bad = @ \/ \E f \in {0, 1} : all.s.frame[f].held]

native_queues_clear(s) ==
    [s EXCEPT !.sq = [q \in DOMAIN @ |-> NoQueue], !.cq = [q \in DOMAIN @ |-> NoQueue],
              !.pairs = 0, !.iocur = 1, !.qcur = 0]

\* native_reset_cleanup: [ok, s]; the caller has drained everything or gets EBUSY.
native_reset_cleanup(s) ==
    LET busy == Large /\ \E u \in DOMAIN s.req : Held(s.req[u])
        c == native_requests_clear(s)
        holders == Mq2 /\ \E q \in Queues : c.s.sq[q].holders > 0 \/ c.s.cq[q].holders > 0
        d == IF Mq2 THEN native_queues_clear(c.s) ELSE c.s
    IN IF busy THEN [ok |-> FALSE, s |-> s]
       ELSE IF c.bad \/ holders THEN [ok |-> FALSE, s |-> [c.s EXCEPT !.eio = TRUE]]
       ELSE [ok |-> TRUE, s |-> [d EXCEPT !.delivery = 0]]

native_drained_status(s) ==
    IF ~s.cc.en
    THEN [s EXCEPT !.faulted = FALSE, !.shutdown = FALSE, !.csts = Status(FALSE, FALSE, FALSE)]
    ELSE IF s.faulted THEN [s EXCEPT !.csts = FaultStatus(s)]
    ELSE IF s.shutdown THEN [s EXCEPT !.csts = Status(TRUE, FALSE, TRUE)]
    ELSE s

(***************************************************************************)
(* Kernel: the service pass                                                *)
(***************************************************************************)
RingMap(s) == [nonce |-> s.att.nonce, gen |-> s.att.gen, tag |-> 0]
NewQueue(s) == [NoQueue EXCEPT !.valid = TRUE, !.map = RingMap(s)]

\* native_enable: [ok, s]; what it adopted before failing stays.
native_enable(s) ==
    LET first == s.dom.nonce = 0 /\ s.oepoch = 1 /\ s.kind = 1
        a == IF first THEN [s EXCEPT !.dom = [nonce |-> s.att.nonce, gen |-> s.att.gen]] ELSE s
        moved == s.att.gen # a.dom.gen
        b == [a EXCEPT !.dom.gen = s.att.gen, !.bgen = s.bus.gen]
        qs == [b EXCEPT !.sq[0] = NewQueue(s), !.cq[0] = NewQueue(s)]
        inc == IF Mq2 THEN [qs EXCEPT !.sq[0].inc = qs.inc + 1, !.cq[0].inc = qs.inc + 2,
                                      !.inc = @ + 2, !.iocur = 1]
               ELSE qs
    IN IF s.faulted \/ s.att.kind # s.kind THEN [ok |-> FALSE, s |-> s]
       ELSE IF s.att.nonce # a.dom.nonce \/ (moved /\ a.epoch <= a.act) THEN [ok |-> FALSE, s |-> a]
       ELSE IF ~s.bus.on THEN [ok |-> FALSE, s |-> b]
       ELSE [ok |-> TRUE,
             s |-> [inc EXCEPT !.sqdb = Zeroed(@), !.cqdb = Zeroed(@), !.open = TRUE,
                               !.act = s.epoch, !.csts = Status(TRUE, FALSE, FALSE)]]

Guard(s) == [bgen |-> s.bgen, epoch |-> s.epoch, oepoch |-> s.oepoch]

NewRequest(s, q, cmd) ==
    [uid |-> s.uid, epoch |-> s.epoch, oepoch |-> s.oepoch, bgen |-> s.bgen,
     sqid |-> q, cqid |-> IF Mq2 THEN s.sq[q].cqid ELSE 0,
     sinc |-> s.sq[q].inc, cinc |-> s.cq[s.sq[q].cqid].inc, tinc |-> 0, cmd |-> cmd,
     sqh |-> (s.sq[q].head + 1) % Depth, delivered |-> FALSE, shaped |-> FALSE,
     released |-> FALSE, retired |-> FALSE, map |-> s.sq[0].map, dma |-> "NONE", done |-> 0,
     pub |-> "UNPUBLISHED", comp |-> FALSE, qstarted |-> FALSE, qdone |-> FALSE, qok |-> FALSE]

\* native_capture(qid): [ret, got, s].  mem is the host's submission rings.
native_capture(s, mem, q) ==
    LET sq == s.sq[q]
        cq == s.cq[sq.cqid]
        frame == IF q = 0 THEN 1 ELSE 0
        used == (cq.tail + Depth - s.cqdb[sq.cqid]) % Depth
        r == NewRequest(s, q, mem[q][sq.head])
        a == [s EXCEPT !.uid = @ + 1, !.req = [u \in DOMAIN @ \cup {s.uid} |-> IF u = s.uid THEN r ELSE @[u]],
                       !.sq[q].head = r.sqh, !.cq[sq.cqid].pending = @ + 1]
        b == IF Mq2 THEN [a EXCEPT !.sq[q].holders = @ + 1, !.cq[sq.cqid].holders = @ + 1] ELSE a
        c == IF Large THEN [b EXCEPT !.frame[frame] = [held |-> TRUE, uid |-> r.uid, epoch |-> r.epoch]] ELSE b
        Nothing == [ret |-> TRUE, got |-> FALSE, s |-> s]
    IN IF \/ Mq2 /\ sq.closing
          \/ Large /\ s.frame[frame].held
          \/ ~sq.valid
          \/ Mq2 /\ cq.closing THEN Nothing
       ELSE IF ~cq.valid THEN [Nothing EXCEPT !.ret = FALSE]
       ELSE IF \/ s.sqdb[q] = sq.head
               \/ used + cq.pending >= Depth - 1
               \/ Cardinality(DOMAIN s.req) = Depth THEN Nothing
       ELSE IF ~native_copy(s, sq.map, Guard(s)) THEN [Nothing EXCEPT !.ret = FALSE]
       ELSE [ret |-> TRUE, got |-> TRUE, s |-> c]

\* One turn of the visit loop: the cursor moves whatever the queue gave.
Visit(a, mem) ==
    LET q == IF Mq2 /\ a.s.qcur # 0 THEN IF a.s.qcur = 1 THEN a.s.iocur ELSE 3 - a.s.iocur
             ELSE a.s.qcur
        Moved(c) == IF ~Mq2 \/ ~c.got THEN [c EXCEPT !.s.qcur = (@ + 1) % Cardinality(Queues)]
                    ELSE IF q # 0 THEN [c EXCEPT !.s.iocur = 3 - q, !.s.qcur = 0]
                    ELSE [c EXCEPT !.s.qcur = 1]
    IN IF a.got \/ ~a.ret THEN a
       ELSE Only({Moved(c) : c \in {native_capture(a.s, mem, q)}})

Visits(s, mem, n) ==
    LET More(S) == {Visit(x, mem) : x \in S}
        one == More({[ret |-> TRUE, got |-> FALSE, s |-> s]})
    IN Only(IF n = 1 THEN one ELSE IF n = 2 THEN More(one) ELSE More(More(one)))

ServeFlr(s) ==
    LET t == [s EXCEPT !.seen = s.bar]
    IN IF s.bar = s.seen THEN s
       ELSE IF s.phase # "OWNED" THEN native_registers_init(t)
       ELSE IF s.rp /\ s.drained
            THEN [native_registers_init(t) EXCEPT !.shutdown = FALSE, !.faulted = FALSE]
       ELSE native_begin_reset(t, FALSE, TRUE)

\* CC as the pass has read it: only the coalesced FLR reads it again.
ServeCc(s) == IF s.bar # s.seen /\ s.phase = "OWNED" /\ s.rp /\ s.drained
              THEN [en |-> FALSE, shn |-> FALSE] ELSE s.cc

ServeDisable(s, cc) ==
    LET r == IF s.open /\ (~cc.en \/ cc.shn) THEN native_begin_reset(s, cc.shn, FALSE) ELSE s
        z == [r EXCEPT !.faulted = FALSE]
    IN IF cc.en THEN r
       ELSE IF r.rp /\ r.drained
            THEN [z EXCEPT !.shutdown = FALSE, !.csts = Status(FALSE, FALSE, FALSE)]
       ELSE IF ~r.rp /\ ~r.open THEN [z EXCEPT !.csts = Status(FALSE, FALSE, FALSE)]
       ELSE z

\* The queue visits once the controller is open, and the fault of a failed one.
ServeOpen(s, mem, n) ==
    IF ~s.open THEN s
    ELSE IF ~native_access(s, Guard(s)) THEN native_fault(s)
    ELSE Only({IF v.ret THEN flush_msix(v.s) ELSE native_fault(flush_msix(v.s)) : v \in {Visits(s, mem, n)}})

ServeQueues(s, mem, cc, n) ==
    IF ~s.open /\ cc.en
    THEN Only({IF e.ok THEN ServeOpen(e.s, mem, n) ELSE native_fault(e.s) : e \in {native_enable(s)}})
    ELSE ServeOpen(s, mem, n)

\* The part of the pass after reset and disable were looked at.
ServeRest(d, mem, cc, n) ==
    IF d.rp \/ ~d.ready \/ d.faulted \/ (d.shutdown /\ cc.en) THEN d
    ELSE ServeQueues(IF d.shutdown THEN [d EXCEPT !.shutdown = FALSE, !.csts = Status(FALSE, FALSE, FALSE)]
                     ELSE d, mem, cc, n)

\* native_service_locked with `n` queue visits: fwlab_m4_hif_step gives one,
\* the PUMP ioctl as many as there are queues.
native_service(s, mem, n) ==
    LET cc == ServeCc(s)
    IN IF s.quar THEN s
       ELSE IF s.phase # "OWNED" THEN ServeFlr(s)
       ELSE Only({ServeRest(d, mem, cc, n) : d \in {ServeDisable(f, cc) : f \in {ServeFlr(s)}}})

(***************************************************************************)
(* Kernel: the worker's ioctls on one request                              *)
(***************************************************************************)
native_find(s, u, epoch) == u \in DOMAIN s.req /\ s.req[u].epoch = epoch

\* Every ioctl that finds its request ends the redelivery of that request.
Found(s, u) == IF s.delivery = u THEN [s EXCEPT !.delivery = 0] ELSE s

\* native_shape: [ok, s].  The PRP walk is one capture of the tag's pages.
native_shape(s, u) ==
    LET r == s.req[u]
        m == [nonce |-> s.att.nonce, gen |-> s.att.gen, tag |-> r.cmd.tag]
    IN IF r.shaped THEN [ok |-> ~r.released, s |-> s]
       ELSE IF ~native_access(s, r) \/ ~native_copy(s, m, r) THEN [ok |-> FALSE, s |-> s]
       ELSE [ok |-> TRUE, s |-> [s EXCEPT !.req[u].shaped = TRUE, !.req[u].dma = "RESERVED",
                                          !.req[u].map = m]]

\* AUTHORITY_RELEASE: [ok, s]
AuthorityRelease(s, u) ==
    LET r == s.req[u]
        idle == r.dma \in {"RESERVED", "CANCELLED"}
    IN IF ~r.shaped \/ ~(idle \/ r.retired) THEN [ok |-> FALSE, s |-> s]
       ELSE [ok |-> TRUE,
             s |-> [s EXCEPT !.req[u].released = TRUE, !.req[u].retired = TRUE,
                             !.req[u].dma = IF idle THEN "CANCELLED" ELSE @]]

DmaRetire(s, u) ==
    IF ~s.req[u].shaped \/ s.req[u].dma = "RESERVED" THEN [ok |-> FALSE, s |-> s]
    ELSE [ok |-> TRUE, s |-> [s EXCEPT !.req[u].retired = TRUE]]

\* native_queue_effect_mq2: [ret, s] with ret "OK", "BAD" or "BUSY" (EINPROGRESS).
QueueEffectMq2(s, u) ==
    LET r == s.req[u]
        c == r.cmd
        q == c.qid
        deleting == c.op \in {"DSQ", "DCQ"} /\ r.tinc # 0
        t == [s EXCEPT !.req[u].qstarted = TRUE]
        Done(ret, x) == [ret |-> ret, s |-> [x EXCEPT !.req[u].qdone = TRUE, !.req[u].qok = (ret = "OK")]]
        Fresh == [NewQueue(s) EXCEPT !.inc = s.inc + 1]
        Close(x) == [x EXCEPT !.req[u].tinc = IF @ # 0 THEN @ ELSE IF c.op = "DSQ" THEN s.sq[q].inc ELSE s.cq[q].inc]
    IN IF r.qdone THEN [ret |-> IF r.qok THEN "OK" ELSE "BAD", s |-> s]
       ELSE IF ~native_access(s, r) /\ ~deleting THEN Done("BAD", t)
       ELSE CASE c.op = "NUMQ" ->
                   IF \E i \in Queues \ {0} : s.sq[i].valid \/ s.cq[i].valid THEN Done("BAD", t)
                   ELSE Done("OK", [t EXCEPT !.pairs = IF q < 2 THEN q ELSE 2])
              [] c.op # "NUMQ" /\ q > s.pairs -> Done("BAD", t)
              [] c.op = "CCQ" /\ q <= s.pairs ->
                   IF s.cq[q].valid \/ s.cq[q].holders > 0 \/ ~native_copy(s, RingMap(s), r) THEN Done("BAD", t)
                   ELSE Done("OK", [t EXCEPT !.cq[q] = [Fresh EXCEPT !.vector = q], !.cqdb[q] = 0, !.inc = @ + 1])
              [] c.op = "CSQ" /\ q <= s.pairs ->
                   IF \/ s.sq[q].valid \/ s.sq[q].holders > 0 \/ ~s.cq[q].valid \/ s.cq[q].closing
                      \/ ~native_copy(s, RingMap(s), r) THEN Done("BAD", t)
                   ELSE Done("OK", [t EXCEPT !.sq[q] = [Fresh EXCEPT !.cqid = q], !.sqdb[q] = 0, !.inc = @ + 1])
              [] c.op = "DSQ" /\ q <= s.pairs ->
                   IF \/ ~s.sq[q].valid \/ (r.tinc # 0 /\ r.tinc # s.sq[q].inc)
                      \/ (r.tinc = 0 /\ s.sq[q].closing) THEN Done("BAD", t)
                   ELSE IF s.sq[q].holders > 0 THEN [ret |-> "BUSY", s |-> Close([t EXCEPT !.sq[q].closing = TRUE])]
                   ELSE Done("OK", Close([t EXCEPT !.sq[q] = NoQueue]))
              [] c.op = "DCQ" /\ q <= s.pairs ->
                   IF \/ ~s.cq[q].valid \/ (r.tinc # 0 /\ r.tinc # s.cq[q].inc)
                      \/ \E i \in Queues \ {0} : s.sq[i].valid /\ s.sq[i].cqid = q
                      \/ (r.tinc = 0 /\ s.cq[q].closing) THEN Done("BAD", t)
                   ELSE IF s.cq[q].holders > 0 \/ s.cq[q].pending > 0
                        THEN [ret |-> "BUSY", s |-> Close([t EXCEPT !.cq[q].closing = TRUE])]
                   ELSE Done("OK", Close([retire_msix_route(t, s.cq[q].vector) EXCEPT !.cq[q] = NoQueue]))

\* native_queue_effect of the one-pair profiles: a refused effect is not retained
\* until the gate was passed.
QueueEffectOne(s, u) ==
    LET r == s.req[u]
        c == r.cmd
        Done(ok, x) == [ret |-> IF ok THEN "OK" ELSE "BAD",
                        s |-> IF ok THEN [x EXCEPT !.req[u].qdone = TRUE, !.req[u].qok = TRUE]
                              ELSE [s EXCEPT !.req[u].qdone = TRUE]]
    IN IF r.qdone THEN [ret |-> IF r.qok THEN "OK" ELSE "BAD", s |-> s]
       ELSE IF \/ ~native_access(s, r) \/ (c.op # "NUMQ" /\ c.qid # 1)
               \/ c.op \in {"CCQ", "CSQ"} /\ ~native_copy(s, RingMap(s), r) THEN [ret |-> "BAD", s |-> s]
       ELSE CASE c.op = "NUMQ" -> Done(TRUE, s)
              [] c.op = "CCQ" -> Done(~s.cq[1].valid, [s EXCEPT !.cq[1] = NewQueue(s), !.cqdb[1] = 0])
              [] c.op = "CSQ" -> Done(~s.sq[1].valid /\ s.cq[1].valid,
                                      [s EXCEPT !.sq[1] = [NewQueue(s) EXCEPT !.cqid = 1], !.sqdb[1] = 0])
              [] c.op = "DSQ" -> Done(s.sq[1].valid /\ s.cq[1].pending = 0, [s EXCEPT !.sq[1] = NoQueue])
              [] c.op = "DCQ" -> Done(s.cq[1].valid /\ ~s.sq[1].valid, [s EXCEPT !.cq[1] = NoQueue])

native_queue_effect(s, u) == IF Mq2 THEN QueueEffectMq2(s, u) ELSE QueueEffectOne(s, u)

PublishCq(s, r) == IF Mq2 THEN r.cqid ELSE s.sq[r.sqid].cqid

Ticket(s, r, v) == [v |-> v, oepoch |-> r.oepoch, bgen |-> r.bgen, egen |-> s.egen,
                    rgen |-> s.route[v].gen, bar |-> s.seen]

\* The first test of native_publish: nothing is retained for the request and its
\* access is open; otherwise the retained publication is the answer.
PublishGate(s, r) == ~r.comp /\ native_access(s, r)

\* fwlab_m4_prepare_msix_vector after the queue checks, under a second hold of
\* config_lock: the driver may have written PCI_COMMAND or reset the function since.
PublishPrepared(s, r) ==
    LET cq == s.cq[PublishCq(s, r)]
    IN /\ native_queue_origin_valid(s, r) /\ cq.valid /\ cq.pending > 0
       /\ irq_valid(s, Ticket(s, r, cq.vector))

\* The tail of native_publish once the phase bit is in host memory.
PublishCommit(s, u, t) ==
    LET q == PublishCq(s, s.req[u])
        wrap == s.cq[q].tail + 1 = Depth
    IN raise_msix([s EXCEPT !.req[u].pub = "COMMITTED",
                            !.cq[q].pending = @ - 1,
                            !.cq[q].tail = IF wrap THEN 0 ELSE @ + 1,
                            !.cq[q].phase = IF wrap THEN 1 - @ ELSE @], t)

\* RETIRE: [ok, s]
native_retire(s, u) ==
    LET r == s.req[u]
    IN IF \/ r.pub = "UNPUBLISHED"
          \/ Large /\ r.shaped /\ ~(r.released /\ r.retired)
          \/ Mq2 /\ r.qstarted /\ ~r.qdone THEN [ok |-> FALSE, s |-> s]
       ELSE IF ClearFails(s, r) THEN [ok |-> FALSE, s |-> [s EXCEPT !.eio = TRUE]]
       ELSE [ok |-> TRUE, s |-> native_request_clear(s, u)]

(***************************************************************************)
(* Kernel: acknowledgements, owner transitions, loss of the worker         *)
(***************************************************************************)
DrainAck(s, epoch) ==
    LET c == native_reset_cleanup(s)
    IN IF epoch # s.epoch \/ s.phase # "OWNED" \/ ~s.rp \/ s.ready \/ s.open THEN [ok |-> FALSE, s |-> s]
       ELSE IF s.drained THEN [ok |-> TRUE, s |-> s]
       ELSE IF ~c.ok THEN c
       ELSE [ok |-> TRUE, s |-> native_drained_status([c.s EXCEPT !.drained = TRUE])]

ResetAck(s, epoch) ==
    LET c == native_reset_cleanup(s)
    IN IF epoch # s.epoch \/ s.phase # "OWNED" THEN [ok |-> FALSE, s |-> s]
       ELSE IF ~s.rp /\ s.ready THEN [ok |-> TRUE, s |-> s]
       ELSE IF ~c.ok THEN c
       ELSE [ok |-> TRUE,
             s |-> [c.s EXCEPT !.rp = FALSE, !.drained = FALSE, !.ready = TRUE,
                               !.csts = IF s.faulted THEN FaultStatus(s)
                                        ELSE Status(s.shutdown, FALSE, s.shutdown)]]

OwnerRevokable(s) == s.phase = "OWNED" /\ s.ready /\ ~s.rp

native_owner_revoke(s) ==
    [native_cancel_transport(s) EXCEPT !.oepoch = @ + 1, !.kind = 0, !.phase = "DRAINING",
                                       !.old = s.epoch]

native_owner_certify(s) ==
    LET busy == s.open \/ \E u \in DOMAIN s.req : Held(s.req[u])
        c == native_requests_clear(native_registers_init(close_effects(s)))
        holders == Mq2 /\ \E q \in Queues : c.s.sq[q].holders > 0 \/ c.s.cq[q].holders > 0
        d == IF Mq2 THEN native_queues_clear(c.s) ELSE c.s
    IN IF s.phase # "DRAINING" \/ busy THEN [ok |-> FALSE, s |-> s]
       ELSE IF c.bad \/ holders THEN [ok |-> FALSE, s |-> [c.s EXCEPT !.eio = TRUE]]
       ELSE [ok |-> TRUE, s |-> [d EXCEPT !.epoch = 0, !.faulted = FALSE, !.shutdown = FALSE,
                                          !.drained = FALSE, !.phase = "NONE"]]

native_owner_grant(s, target) ==
    [native_registers_init(s) EXCEPT !.dom = [nonce |-> s.att.nonce, gen |-> s.att.gen],
        !.epoch = s.old + 1, !.ready = TRUE, !.rp = FALSE, !.drained = FALSE,
        !.kind = target, !.phase = "OWNED"]

\* native_release: the descriptor is gone, nothing is served any more.
native_release(s) ==
    [close_effects(s) EXCEPT !.quar = TRUE, !.ready = FALSE, !.csts = Status(FALSE, TRUE, FALSE)]

\* FWLAB_M4_NATIVE_REVOKE
native_revoke(s) ==
    [native_begin_reset([s EXCEPT !.faulted = TRUE], FALSE, FALSE)
        EXCEPT !.csts = Status(FALSE, TRUE, FALSE)]

(***************************************************************************)
(* Worker: one slot per delivered command                                  *)
(***************************************************************************)
NewSlot(cmd, epoch) ==
    [cmd |-> cmd, epoch |-> epoch, adm |-> FALSE, auth |-> "NO", dma |-> "NO", ret |-> FALSE,
     qs |-> "NO", ok |-> TRUE, acq |-> FALSE, started |-> FALSE, pub |-> "UNKNOWN", fin |-> FALSE]

Serving == call.kind = "NONE" /\ wrk.st \notin {"FAIL", "EXIT"}
Running == Serving /\ wrk.st = "RUN"
Closing == Serving /\ wrk.st \in {"CLOSE", "ODRAIN"}
Slot(u) == wrk.slot[u]
SetSlot(u, r) == wrk' = [wrk EXCEPT !.slot[u] = r]

\* A step of the worker that returns an error: firmware_loop ends with it.
Fail(step) == wrk' = [wrk EXCEPT !.st = "FAIL", !.why = step]
Reachable(u) == native_find(k, u, Slot(u).epoch) /\ native_queue_origin_valid(k, k.req[u])

\* A reply that is lost after the kernel acted, from the scenario's budget.
Fault(kind) == kind \in set.menu /\ host.faults > 0
Spend == [host EXCEPT !.faults = @ - 1]

\* The BAR thread (SMALL) or the worker's PUMP ioctl; the pump also runs while
\* the worker drains, recovers or waits for an owner.
Service ==
    /\ call.kind = "NONE" /\ (Large => wrk.st \notin {"FAIL", "EXIT"})
    /\ \E s \in {native_service(k, host.sqm, IF Large THEN Cardinality(Queues) ELSE 1)} : k' = s
    /\ UNCHANGED <<host, wrk, call>>

\* NEXT and receive_command
Receive ==
    /\ Running /\ ~k.rp
    /\ LET c == {u \in DOMAIN k.req : u = k.delivery \/ ~k.req[u].delivered}
           u == Min(c)
       IN /\ c # {}
          /\ k' = [k EXCEPT !.req[u].delivered = TRUE, !.delivery = u]
          /\ IF u \in DOMAIN wrk.slot THEN UNCHANGED wrk
             ELSE wrk' = [wrk EXCEPT !.slot = [v \in DOMAIN @ \cup {u} |->
                      IF v = u THEN NewSlot(k.req[u].cmd, k.req[u].epoch) ELSE @[v]]]
    /\ UNCHANGED <<host, call>>

\* authority_mint -> SHAPE
authority_mint(u) == IF Reachable(u) THEN native_shape(Found(k, u), u) ELSE [ok |-> FALSE, s |-> k]

\* admit_commands -> authority_mint.  A refused shape is admitted again
\* as a transport fault.  LARGE repeats a lost SHAPE at once and gives the
\* worker up when the repetition does not succeed; SMALL takes it for a refusal.
Admit(u) ==
    /\ Running /\ ~Slot(u).adm
    /\ IF Slot(u).cmd.op \in QueueOps
       THEN SetSlot(u, [Slot(u) EXCEPT !.adm = TRUE]) /\ UNCHANGED <<k, host>>
       ELSE LET x == authority_mint(u)
            IN /\ k' = x.s
               /\ \/ /\ SetSlot(u, [Slot(u) EXCEPT !.adm = TRUE, !.ok = x.ok, !.auth = IF x.ok THEN "LIVE" ELSE @])
                     /\ UNCHANGED host
                  \/ /\ Fault("lost") /\ host' = Spend
                     /\ IF Large
                        THEN IF x.ok THEN SetSlot(u, [Slot(u) EXCEPT !.adm = TRUE, !.auth = "LIVE"])
                             ELSE Fail("SHAPE")
                        ELSE SetSlot(u, [Slot(u) EXCEPT !.adm = TRUE, !.ok = FALSE])
    /\ UNCHANGED call

\* dma_submit -> DMA: refused, answered from the retained state, or begun.
DmaSubmit(u) ==
    /\ Running /\ Slot(u).auth = "LIVE" /\ Slot(u).dma = "NO" /\ Reachable(u)
    /\ LET r == k.req[u]
       IN IF r.dma = "RESERVED" /\ native_access(k, r)
          THEN /\ call' = [NoCall EXCEPT !.kind = "DMA", !.uid = u, !.at = 1]
               /\ k' = Found(k, u) /\ UNCHANGED <<host, wrk>>
          ELSE /\ k' = [Found(k, u) EXCEPT !.req[u].dma = IF @ = "RESERVED" THEN "CANCELLED" ELSE @]
               /\ SetSlot(u, [Slot(u) EXCEPT !.dma = k'.req[u].dma, !.ok = FALSE])
               /\ UNCHANGED <<host, call>>

\* Mutant: the transfer is reported whole after its first mapping.
FirstMapping(op, at) == TRUE

\* native_dma's loop ends with the last mapping of the graph.
LastMapping(op, at) == at = Pages(op)

\* One mapping of native_dma's copy loop; the last one, or a failure, answers.
DmaCopy ==
    /\ call.kind = "DMA"
    /\ LET u == call.uid
           r == k.req[u]
           ok == native_copy(k, r.map, r)
           last == ~ok \/ LastMapping(r.cmd.op, call.at)
           st == IF ok THEN "DONE" ELSE "FAILED"
           h == IF ok THEN [host EXCEPT !.got = @ \cup {<<r.cmd.tag, call.at>>}] ELSE host
       IN /\ k' = [k EXCEPT !.req[u].done = IF ok THEN @ + 1 ELSE @,
                            !.req[u].dma = IF last THEN st ELSE @]
          /\ IF ~last
             THEN call' = [call EXCEPT !.at = @ + 1] /\ host' = h /\ UNCHANGED wrk
             ELSE /\ call' = NoCall
                  /\ \/ host' = h /\ SetSlot(u, [Slot(u) EXCEPT !.dma = st, !.ok = ok])
                     \/ /\ Fault("lost") /\ host' = [h EXCEPT !.faults = @ - 1]
                        /\ SetSlot(u, [Slot(u) EXCEPT !.dma = "LOST"])

\* dma_query after a lost answer
DmaQuery(u) ==
    /\ (Running \/ Closing) /\ Slot(u).dma = "LOST" /\ Reachable(u)
    /\ k' = Found(k, u)
    /\ SetSlot(u, [Slot(u) EXCEPT !.dma = k.req[u].dma, !.ok = (k.req[u].dma = "DONE")])
    /\ UNCHANGED <<host, call>>

DmaRetireStep(u) ==
    /\ (Running \/ Closing) /\ Slot(u).dma \in {"DONE", "FAILED", "CANCELLED"} /\ ~Slot(u).ret
    /\ Reachable(u)
    /\ LET x == DmaRetire(Found(k, u), u)
       IN k' = x.s /\ SetSlot(u, [Slot(u) EXCEPT !.ret = x.ok])
    /\ UNCHANGED <<host, call>>

\* queue_submit and queue_query; while closing only what was submitted goes on.
QueueStep(u) ==
    /\ Slot(u).cmd.op \in QueueOps /\ Reachable(u)
    /\ \/ Running /\ Slot(u).adm /\ Slot(u).qs \in {"NO", "ACC"}
       \/ Closing /\ Slot(u).qs = "ACC"
    /\ LET x == native_queue_effect(Found(k, u), u)
       IN /\ k' = x.s
          /\ \/ /\ SetSlot(u, [Slot(u) EXCEPT !.qs = IF x.ret = "BUSY" THEN "ACC" ELSE x.ret,
                                             !.ok = (x.ret # "BAD")])
                /\ UNCHANGED host
             \/ /\ ~Mq2 /\ Fault("lost") /\ host' = Spend
                /\ SetSlot(u, [Slot(u) EXCEPT !.qs = "ACC"])
    /\ UNCHANGED call

\* The command program is over; the media may have failed before any transfer.
Finished(r) == IF r.cmd.op \in QueueOps THEN r.qs \in {"OK", "BAD"}
               ELSE r.auth = "NO" \/ r.dma = "NO" \/ r.ret

\* publication_acquire: intent_read releases the authority first.
Acquire(u) ==
    /\ Running /\ Slot(u).adm /\ ~Slot(u).acq /\ Finished(Slot(u))
    /\ IF Slot(u).auth = "LIVE"
       THEN LET x == IF Reachable(u) THEN AuthorityRelease(Found(k, u), u) ELSE [ok |-> FALSE, s |-> k]
            IN /\ k' = x.s
               /\ IF x.ok THEN SetSlot(u, [Slot(u) EXCEPT !.acq = TRUE, !.auth = "REL", !.ok = @ /\ Slot(u).ret])
                  ELSE Fail("RELEASE")
       ELSE SetSlot(u, [Slot(u) EXCEPT !.acq = TRUE]) /\ UNCHANGED k
    /\ UNCHANGED <<host, call>>

\* publication_observe -> PUBLISH up to the access test: the call goes on, or the
\* function is reset and the retained publication answered.
PublishStart(u) ==
    /\ Running /\ Slot(u).acq /\ Slot(u).pub = "UNKNOWN" /\ ~Slot(u).started
    /\ IF ~Reachable(u) THEN Fail("PUBLISH") /\ UNCHANGED <<k, call>>
       ELSE IF PublishGate(k, k.req[u])
       THEN /\ call' = [NoCall EXCEPT !.kind = "PUB", !.uid = u]
            /\ k' = Found(k, u) /\ SetSlot(u, [Slot(u) EXCEPT !.started = TRUE])
       ELSE LET s == IF k.req[u].comp THEN Found(k, u) ELSE native_begin_reset(Found(k, u), k.cc.shn, FALSE)
            IN /\ k' = s /\ UNCHANGED call
               /\ SetSlot(u, IF s.req[u].pub = "UNPUBLISHED" THEN Slot(u)
                             ELSE [Slot(u) EXCEPT !.started = TRUE, !.pub = s.req[u].pub])
    /\ UNCHANGED host

\* The rest of PUBLISH before the first copy.  The error of a ticket that is
\* refused ends the worker, unless its reply is lost too.
PublishPrepare ==
    /\ call.kind = "PUB" /\ call.at = 0
    /\ LET u == call.uid
           r == k.req[u]
       IN IF PublishPrepared(k, r)
          THEN /\ call' = [call EXCEPT !.at = 1, !.tkt = Ticket(k, r, k.cq[PublishCq(k, r)].vector)]
               /\ k' = [k EXCEPT !.req[u].comp = TRUE] /\ UNCHANGED <<host, wrk>>
          ELSE /\ call' = NoCall /\ UNCHANGED k
               /\ \/ Fail("PUBLISH") /\ UNCHANGED host
                  \/ Fault("lost") /\ host' = Spend /\ UNCHANGED wrk

\* The two copies of a completion entry: the body, then the phase bit.
PublishCopy ==
    /\ call.kind = "PUB" /\ call.at > 0
    /\ LET u == call.uid
           r == k.req[u]
           q == PublishCq(k, r)
           cq == k.cq[q]
           f == native_fault(k)
       IN IF ~native_copy(k, cq.map, r)
          THEN /\ k' = f /\ call' = NoCall
               /\ \/ SetSlot(u, [Slot(u) EXCEPT !.pub = f.req[u].pub]) /\ UNCHANGED host
                  \/ Fault("lost") /\ host' = Spend /\ UNCHANGED wrk
          ELSE IF call.at = 1
          THEN /\ host' = [host EXCEPT !.cqm[q][cq.tail] =
                      [tag |-> r.cmd.tag, ok |-> Slot(u).ok, sqh |-> r.sqh, sq |-> r.sqid, ph |-> @.ph]]
               /\ call' = [call EXCEPT !.at = 2] /\ UNCHANGED <<k, wrk>>
          ELSE /\ k' = PublishCommit(k, u, call.tkt) /\ call' = NoCall
               /\ \/ /\ host' = [host EXCEPT !.cqm[q][cq.tail].ph = cq.phase]
                     /\ SetSlot(u, [Slot(u) EXCEPT !.pub = "COMMITTED"])
                  \/ /\ Fault("lost") /\ UNCHANGED wrk
                     /\ host' = [host EXCEPT !.cqm[q][cq.tail].ph = cq.phase, !.faults = @ - 1]

PublishQuery(u) ==
    /\ Slot(u).acq /\ Slot(u).pub = "UNKNOWN" /\ Reachable(u)
    /\ (Running /\ Slot(u).started) \/ Closing
    /\ k' = Found(k, u)
    /\ SetSlot(u, IF k.req[u].pub = "UNPUBLISHED" THEN [Slot(u) EXCEPT !.started = FALSE]
                  ELSE [Slot(u) EXCEPT !.started = TRUE, !.pub = k.req[u].pub])
    /\ UNCHANGED <<host, call>>

\* publication_finish and RETIRE; a discarded completion waits for the close.
\* When the answer to RETIRE is lost the slot stays until the close.
Retire(u) ==
    /\ Slot(u).acq /\ ~Slot(u).fin /\ Reachable(u)
    /\ \/ Slot(u).pub = "COMMITTED" /\ (Running \/ Closing)
       \/ Slot(u).pub = "DISCARDED" /\ Closing
    /\ LET x == native_retire(Found(k, u), u)
       IN /\ k' = x.s
          /\ \/ /\ wrk' = IF x.ok THEN [wrk EXCEPT !.slot = Restrict(@, DOMAIN @ \ {u})] ELSE wrk
                /\ UNCHANGED host
             \/ /\ x.ok /\ Fault("lost") /\ host' = Spend
                /\ SetSlot(u, [Slot(u) EXCEPT !.fin = TRUE])
    /\ UNCHANGED call

\* firmware_loop sees RESET and closes the runtime.
CloseStart ==
    /\ Running /\ k.rp
    /\ wrk' = [wrk EXCEPT !.st = "CLOSE", !.epoch = k.epoch]
    /\ UNCHANGED <<k, host, call>>

\* close_reap_one releases what a command without a completion still holds.
CloseRelease(u) ==
    /\ Closing /\ Slot(u).auth = "LIVE" /\ (Slot(u).dma = "NO" \/ Slot(u).ret) /\ Reachable(u)
    /\ LET x == AuthorityRelease(Found(k, u), u)
       IN /\ k' = x.s
          /\ IF x.ok THEN SetSlot(u, [Slot(u) EXCEPT !.auth = "REL"]) ELSE Fail("RELEASE")
    /\ UNCHANGED <<host, call>>

\* The lanes of native_host.c are quiescent and every completion lease is back.
Drained(u) ==
    /\ Slot(u).auth # "LIVE" /\ (Slot(u).dma = "NO" \/ Slot(u).ret)
    /\ Slot(u).qs # "ACC" /\ (Slot(u).acq => Slot(u).fin)

Quiescent == \A u \in DOMAIN wrk.slot : Drained(u)

\* runtime_close ends: the slots are cleared.  An owner drain certifies next.
CloseDone ==
    /\ Closing /\ Quiescent
    /\ wrk' = [wrk EXCEPT !.slot = <<>>, !.st = IF @ = "CLOSE" THEN "DRAIN" ELSE "CERTIFY"]
    /\ UNCHANGED <<k, host, call>>

\* runtime_close runs out of iterations: all that is left are accepted queue
\* deletions whose holders never go, and the worker gives up.
CloseExhausted ==
    /\ Serving /\ wrk.st = "CLOSE" /\ ~Quiescent
    /\ \A u \in DOMAIN wrk.slot :
         \/ Drained(u)
         \/ Slot(u).qs = "ACC" /\ Reachable(u) /\ native_queue_effect(k, u).ret = "BUSY"
    /\ Fail("CLOSE")
    /\ UNCHANGED <<k, host, call>>

DrainAckStep ==
    /\ Serving /\ wrk.st = "DRAIN"
    /\ IF Large
       THEN LET x == DrainAck(k, wrk.epoch) IN k' = x.s /\ IF x.ok THEN wrk' = [wrk EXCEPT !.st = "MAKE"] ELSE Fail("ACK")
       ELSE UNCHANGED k /\ wrk' = [wrk EXCEPT !.st = "MAKE"]
    /\ UNCHANGED <<host, call>>

\* native_runtime_create succeeded; RESET_ACK publishes the new epoch.
ResetAckStep ==
    /\ Serving /\ wrk.st = "MAKE"
    /\ LET x == ResetAck(k, wrk.epoch) IN k' = x.s /\ IF x.ok THEN wrk' = [wrk EXCEPT !.st = "RUN"] ELSE Fail("ACK")
    /\ UNCHANGED <<host, call>>

\* owner_revoke_start -> REVOKE.  A lost answer is settled by REVOKE_QUERY.
OwnerRevoke ==
    /\ Running /\ "revoke" \in set.menu /\ k.oepoch = 1 /\ OwnerRevokable(k)
    /\ k' = native_owner_revoke(k) /\ wrk' = [wrk EXCEPT !.st = "ODRAIN"]
    /\ UNCHANGED <<host, call>>

\* owner_drain_step -> CERTIFY; EBUSY is tried again.
OwnerCertify ==
    /\ Serving /\ wrk.st = "CERTIFY"
    /\ LET x == native_owner_certify(k)
       IN k' = x.s /\ wrk' = IF x.ok THEN [wrk EXCEPT !.st = "NONE"] ELSE wrk
    /\ UNCHANGED <<host, call>>

\* owner_grant_start once the successor's driver owns the device's domain.
OwnerGrant ==
    /\ Serving /\ wrk.st = "NONE" /\ k.att.kind = 2
    /\ k' = native_owner_grant(k, 2) /\ wrk' = [wrk EXCEPT !.st = "RUN", !.epoch = k.old + 1]
    /\ UNCHANGED <<host, call>>

\* A failed step revokes the controller and closes the descriptor; a killed
\* process only closes it.
WorkerFail ==
    /\ wrk.st = "FAIL"
    /\ k' = native_release(native_revoke(k)) /\ wrk' = [wrk EXCEPT !.st = "EXIT", !.why = "NONE", !.slot = <<>>]
    /\ UNCHANGED <<host, call>>

Crash ==
    /\ Serving /\ Fault("crash")
    /\ host' = Spend
    /\ k' = native_release(k) /\ wrk' = [wrk EXCEPT !.st = "EXIT", !.slot = <<>>]
    /\ UNCHANGED call

(***************************************************************************)
(* Host driver                                                             *)
(***************************************************************************)
NoCqe == [tag |-> 0, ok |-> FALSE, sqh |-> 0, sq |-> 0, ph |-> 0]
AllQueues == 0..2

\* Memory the driver takes back: no mapping and no outstanding command is left.
Reclaim(h) == [h EXCEPT !.out = {}, !.got = {}, !.lent = FALSE, !.live = {}]

\* A fresh enable: rings restart, completion memory is zeroed, SQ memory is not.
HostEnable ==
    /\ host.st = "DOWN" /\ host.life < set.lives /\ k.bus.on
    /\ k' = [k EXCEPT !.cc = [en |-> TRUE, shn |-> FALSE]]
    /\ host' = [host EXCEPT !.st = "WAIT", !.life = @ + 1, !.lent = TRUE, !.pos = 1, !.io = 0,
                            !.sqt = Zeroed(@), !.sqh = Zeroed(@), !.cqh = Zeroed(@),
                            !.cqp = [q \in AllQueues |-> 1],
                            !.cqm = [q \in AllQueues |-> [i \in Slots |-> NoCqe]]]
    /\ UNCHANGED <<wrk, call>>

HostReady ==
    /\ host.st = "WAIT" /\ k.csts.rdy /\ ~k.csts.fatal
    /\ host' = [host EXCEPT !.st = "UP"]
    /\ UNCHANGED <<k, wrk, call>>

Submit(q, op, qid) ==
    LET c == [tag |-> host.tag, op |-> op, qid |-> qid]
        t == (host.sqt[q] + 1) % Depth
    IN /\ t # host.sqh[q]
       /\ k' = [map_pages(k, c.tag) EXCEPT !.sqdb[q] = t]
       /\ host' = [host EXCEPT !.sqm[q][host.sqt[q]] = c, !.sqt[q] = t, !.tag = @ + 1,
                               !.out = @ \cup {[cmd |-> c, sq |-> q]},
                               !.io = IF op = "IO" THEN @ + 1 ELSE @]
       /\ UNCHANGED <<wrk, call>>

\* Admin commands follow the script one at a time; a queue is deleted once its
\* commands are back, unless the scenario forces it.
HostAdmin ==
    /\ host.st = "UP" /\ ~k.csts.fatal /\ host.pos <= Len(set.script)
    /\ \A o \in host.out : o.sq # 0
    /\ LET c == set.script[host.pos]
       IN /\ c[1] = "DSQ" /\ "force" \notin set.menu => \A o \in host.out : o.sq # c[2]
          /\ Submit(0, c[1], c[2])

\* No command goes to a queue whose deletion was asked for.
HostIo(q) ==
    /\ host.st = "UP" /\ q \in host.live /\ host.io < set.ios
    /\ \A o \in host.out : o.cmd.op # "DSQ" \/ o.cmd.qid # q
    /\ Submit(q, "IO", q)

Expected(q, i) == IF host.cqh[q] + i < Depth THEN host.cqp[q] ELSE 1 - host.cqp[q]
CqeAt(q, i) == host.cqm[q][(host.cqh[q] + i) % Depth]
Visible(q) == {i \in Slots : \A j \in 0..i : CqeAt(q, j).ph = Expected(q, j)}
Seen(q) == {CqeAt(q, i) : i \in Visible(q)}

CqOf(v) == IF Mq2 THEN {v} ELSE {0, 1}

\* The interrupt handler takes every new entry of its queues and moves on the
\* head doorbells.
Reap(h, v) ==
    LET es == UNION {Seen(q) : q \in CqOf(v)}
        tags == {e.tag : e \in es}
        mine == {o \in h.out : o.cmd.tag \in tags}
        Good(op) == {o.cmd.qid : o \in {p \in mine : p.cmd.op = op /\ \E e \in es : e.tag = p.cmd.tag /\ e.ok}}
        n == [q \in AllQueues |-> IF q \in CqOf(v) THEN Cardinality(Visible(q)) ELSE 0]
    IN [h EXCEPT !.out = @ \ mine,
                 !.got = {g \in @ : g[1] \notin tags},
                 !.live = (@ \cup Good("CSQ")) \ Good("DSQ"),
                 !.pos = IF \E o \in mine : o.sq = 0 THEN @ + 1 ELSE @,
                 !.sqh = [q \in AllQueues |-> LET f == {e \in es : e.sq = q}
                                              IN IF f = {} THEN @[q]
                                                 ELSE (CHOOSE e \in f : \A g \in f : g.tag <= e.tag).sqh],
                 !.cqh = [q \in AllQueues |-> (@[q] + n[q]) % Depth],
                 !.cqp = [q \in AllQueues |-> IF h.cqh[q] + n[q] >= Depth THEN 1 - @[q] ELSE @[q]]]

\* fwlab_m4_irq_work, and the driver's handler when the route is still valid.
IrqWork(v) ==
    /\ k.route[v].queued
    /\ LET deliver == irq_valid(k, k.route[v].tkt) /\ host.st = "UP"
           h == Reap(host, v)
           tags == UNION {{e.tag : e \in Seen(q)} : q \in CqOf(v)}
       IN /\ host' = IF deliver THEN h ELSE host
          /\ k' = [unmap_pages(k, IF deliver THEN tags ELSE {}) EXCEPT !.route[v].queued = FALSE,
                            !.cqdb = IF deliver THEN [q \in DOMAIN @ |-> IF q \in CqOf(v) THEN h.cqh[q] ELSE @[q]] ELSE @]
    /\ UNCHANGED <<wrk, call>>

HostDisable ==
    /\ host.st \in {"UP", "SHUT", "BACK"} \/ (host.st = "WAIT" /\ k.csts.fatal)
    /\ host.st = "UP" => host.life < set.lives \/ k.csts.fatal
    /\ k' = [k EXCEPT !.cc = [en |-> FALSE, shn |-> FALSE]]
    /\ host' = [host EXCEPT !.st = "DIS"]
    /\ UNCHANGED <<wrk, call>>

HostDown ==
    /\ host.st = "DIS" /\ ~k.csts.rdy
    /\ k' = unmap_pages(k, k.mapped)
    /\ host' = [Reclaim(host) EXCEPT !.st = "DOWN"]
    /\ UNCHANGED <<wrk, call>>

HostShutdown ==
    /\ host.st = "UP" /\ "shn" \in set.menu /\ host.life < set.lives
    /\ k' = [k EXCEPT !.cc.shn = TRUE]
    /\ host' = [host EXCEPT !.st = "SHN"]
    /\ UNCHANGED <<wrk, call>>

HostShut ==
    /\ host.st = "SHN" /\ (k.csts.shst \/ k.csts.fatal)
    /\ k' = unmap_pages(k, k.mapped)
    /\ host' = [Reclaim(host) EXCEPT !.st = "SHUT"]
    /\ UNCHANGED <<wrk, call>>

\* The driver goes away without waiting: bus mastering off, memory taken back.
BusOff ==
    /\ Fault("bus") /\ host.st \in {"WAIT", "UP", "DIS"}
    /\ k' = unmap_pages(command_write(k, FALSE), k.mapped)
    /\ host' = [Reclaim(Spend) EXCEPT !.st = "OFF"]
    /\ UNCHANGED <<wrk, call>>

BusOn ==
    /\ host.st = "OFF"
    /\ k' = command_write(k, TRUE)
    /\ host' = [host EXCEPT !.st = "BACK"]
    /\ UNCHANGED <<wrk, call>>

\* Function-level reset: the IOMMU core parks and restores the attachment.  The
\* driver waits long enough for the function to have seen it.
Flr ==
    /\ Fault("flr") /\ host.st \in {"WAIT", "UP", "DIS", "DOWN"}
    /\ k' = unmap_pages(attach_common(bar_reset(k), k.att.kind, k.att.nonce, k.att.gen + 1), k.mapped)
    /\ host' = [Reclaim(Spend) EXCEPT !.st = "FLR"]
    /\ UNCHANGED <<wrk, call>>

FlrSettled ==
    /\ host.st = "FLR" /\ (k.bar = k.seen \/ k.quar)
    /\ host' = [host EXCEPT !.st = "BACK"]
    /\ UNCHANGED <<k, wrk, call>>

\* Old software rings a doorbell of the life that ended.
LateDoorbell ==
    /\ Fault("late") /\ host.st \in {"DIS", "DOWN"} /\ host.life > 0
    /\ \E q \in Queues : host.sqt[q] # 0 /\ k' = [k EXCEPT !.sqdb[q] = host.sqt[q]]
    /\ host' = Spend
    /\ UNCHANGED <<wrk, call>>

Mask(v) ==
    /\ Fault("mask") /\ host.st = "UP" /\ ~k.mask[v]
    /\ k' = irq_set_mask(k, v, TRUE) /\ host' = Spend
    /\ UNCHANGED <<wrk, call>>

Unmask(v) ==
    /\ k.mask[v]
    /\ k' = irq_set_mask(k, v, FALSE)
    /\ UNCHANGED <<host, wrk, call>>

\* With the certificate out the old driver is unbound and the device moves to
\* the successor's domain; a dead function is given up.
HostGone ==
    /\ \/ k.phase = "NONE" /\ k.att.kind = 1 /\ ~k.quar
       \/ k.quar /\ host.st # "GONE"
    /\ k' = unmap_pages(IF k.quar THEN command_write(k, FALSE) ELSE attach_common(k, 2, 2, 1), k.mapped)
    /\ host' = [Reclaim(host) EXCEPT !.st = IF k.quar THEN "GONE" ELSE "OWNED"]
    /\ UNCHANGED <<wrk, call>>

\* The new owner's driver starts after the grant.
HostOwned ==
    /\ host.st = "OWNED" /\ k.phase = "OWNED"
    /\ host' = [host EXCEPT !.st = "BACK"]
    /\ UNCHANGED <<k, wrk, call>>

(***************************************************************************)
(* Specification                                                           *)
(***************************************************************************)
\* The function after attach: the first runtime exists and RESET_ACK is due.
Init ==
    /\ set \in Settings
    /\ k = [bus |-> [on |-> TRUE, gen |-> 1], bar |-> 1, seen |-> 1, open |-> FALSE, egen |-> 1,
            phase |-> "OWNED", oepoch |-> 1, kind |-> 1, old |-> 0,
            route |-> [v \in Vectors |-> NoRoute], mask |-> [v \in Vectors |-> FALSE],
            att |-> [kind |-> 1, nonce |-> 1, gen |-> 1], dom |-> [nonce |-> 0, gen |-> 0], mapped |-> {},
            cc |-> [en |-> FALSE, shn |-> FALSE], csts |-> Status(FALSE, FALSE, FALSE),
            sqdb |-> [q \in Queues |-> 0], cqdb |-> [q \in Queues |-> 0],
            sq |-> [q \in Queues |-> NoQueue], cq |-> [q \in Queues |-> NoQueue],
            req |-> <<>>, frame |-> [f \in {0, 1} |-> NoFrame], uid |-> 1, inc |-> 0, delivery |-> 0,
            bgen |-> 0, epoch |-> 1, act |-> 0, qcur |-> 0, iocur |-> 1, pairs |-> 0,
            ready |-> FALSE, rp |-> FALSE, drained |-> FALSE, shutdown |-> FALSE, faulted |-> FALSE,
            quar |-> FALSE, eio |-> FALSE]
    /\ host = [st |-> "DOWN", life |-> 0, lent |-> FALSE, pos |-> 1, io |-> 0, tag |-> 1,
               sqt |-> [q \in AllQueues |-> 0], sqh |-> [q \in AllQueues |-> 0],
               cqh |-> [q \in AllQueues |-> 0], cqp |-> [q \in AllQueues |-> 1],
               sqm |-> [q \in AllQueues |-> [i \in Slots |-> NoCmd]],
               cqm |-> [q \in AllQueues |-> [i \in Slots |-> NoCqe]],
               out |-> {}, got |-> {}, live |-> {}, faults |-> set.faults]
    /\ wrk = [st |-> "MAKE", why |-> "NONE", epoch |-> 1, slot |-> <<>>]
    /\ call = NoCall

SlotStep(u) == \/ Admit(u) \/ DmaSubmit(u) \/ DmaQuery(u) \/ DmaRetireStep(u) \/ QueueStep(u)
               \/ Acquire(u) \/ PublishStart(u) \/ PublishQuery(u) \/ Retire(u) \/ CloseRelease(u)

Worker == \/ Receive \/ (\E u \in DOMAIN wrk.slot : SlotStep(u)) \/ DmaCopy \/ PublishPrepare \/ PublishCopy
          \/ CloseStart \/ CloseDone \/ CloseExhausted \/ DrainAckStep \/ ResetAckStep
          \/ OwnerCertify \/ OwnerGrant \/ WorkerFail

Interrupt == \E v \in Vectors : IrqWork(v) \/ Unmask(v)

\* What the driver does because it waits for it.
HostWaits == HostReady \/ HostDown \/ HostShut \/ BusOn \/ FlrSettled \/ HostGone \/ HostOwned
             \/ (host.st # "UP" /\ HostDisable) \/ (k.csts.fatal /\ HostDisable)

\* What it may do.
HostActs == \/ HostEnable \/ HostAdmin \/ (\E q \in {1, 2} : HostIo(q)) \/ HostDisable \/ HostShutdown
            \/ BusOff \/ Flr \/ LateDoorbell \/ (\E v \in Vectors : Mask(v)) \/ OwnerRevoke \/ Crash

Next == UNCHANGED set /\ (Service \/ Worker \/ Interrupt \/ HostWaits \/ HostActs)

\* The BAR thread and the worker loop for ever, interrupt work that is queued
\* runs, and a driver that polls a register reads it again.  One condition for
\* the last three is enough: they cannot change the state for ever by themselves.
Spec ==
    /\ Init /\ [][Next]_vars
    /\ WF_vars(UNCHANGED set /\ Service)
    /\ WF_vars(UNCHANGED set /\ (HostWaits \/ Interrupt \/ Worker))

(***************************************************************************)
(* Properties                                                              *)
(***************************************************************************)
\* Why the worker may give up: the reply to a refused SHAPE was lost; bus
\* mastering was toggled or the function reset after a publication had passed its
\* access test and before it had its interrupt ticket; the function was reset
\* before the first acknowledgement; or the driver deleted a queue with
\* commands on it, and the close was left with that deletion and a command that
\* holds the queue and has no published completion.
EndOfWorker ==
    \/ wrk.why = "SHAPE" /\ Large /\ "lost" \in set.menu /\ host.faults < set.faults
    \/ /\ wrk.why = "PUBLISH"
       /\ \E u \in DOMAIN wrk.slot \cap DOMAIN k.req :
            /\ Slot(u).started /\ Slot(u).pub = "UNKNOWN" /\ ~k.req[u].comp
            /\ k.req[u].bgen # k.bus.gen \/ k.bar # k.seen \/ k.req[u].epoch # k.epoch
    \/ wrk.why = "ACK" /\ wrk.epoch = 1 /\ k.epoch # 1
    \/ /\ wrk.why = "CLOSE" /\ "force" \in set.menu
       /\ \E u \in DOMAIN wrk.slot, v \in DOMAIN k.req :
            /\ Slot(u).qs = "ACC" /\ Slot(u).cmd.op = "DSQ"
            /\ k.req[v].sqid = Slot(u).cmd.qid /\ k.req[v].pub # "COMMITTED"

\* Reference counts, frames and interrupt state agree with the captured
\* requests: a queue's holders and pending entries are exactly the requests
\* that came from it and are not retired or published, each LARGE frame is
\* held by exactly one of them, no cleanup path ever meets broken books
\* (EIO), nothing can touch the host while a reset or an owner change is in
\* progress, a request record is never lost under a live worker slot, and the
\* worker ends only for a reason of EndOfWorker.
HifSound ==
    LET From(q) == {u \in DOMAIN k.req : k.req[u].sqid = q}
        Due(q) == {u \in DOMAIN k.req : k.req[u].pub # "COMMITTED" /\ PublishCq(k, k.req[u]) = q}
    IN /\ ~k.eio
       /\ Cardinality(DOMAIN k.req) <= Depth
       /\ k.open => k.ready /\ ~k.rp /\ k.phase = "OWNED" /\ k.act = k.epoch
       /\ k.phase = "NONE" => k.req = <<>> /\ wrk.slot = <<>>
       /\ \A q \in Queues :
            /\ k.cq[q].valid /\ k.open => k.cq[q].pending = Cardinality(Due(q))
            /\ Mq2 /\ (k.sq[q].valid \/ From(q) # {}) => k.sq[q].holders = Cardinality(From(q))
       /\ Large => \A f \in {0, 1} :
            k.frame[f].held <=> \E u \in DOMAIN k.req : FrameClass(k.req[u]) = f /\ u = k.frame[f].uid
       /\ \A u \in DOMAIN wrk.slot : u \in DOMAIN k.req \/ Slot(u).fin
       /\ wrk.st = "FAIL" => EndOfWorker

\* What the driver finds in a completion queue: every entry it has not taken
\* belongs to a command it still waits for, on the queue that command went to,
\* and to no other entry; a successful read has its whole buffer by then; and
\* an entry is never overwritten before its doorbell came back.
HostSeesTruth ==
    host.lent /\ host.st \in {"UP", "DIS", "SHN"} =>
        \A q \in Queues :
            /\ \A i \in Visible(q) :
                LET e == CqeAt(q, i)
                IN \E o \in host.out :
                     /\ o.cmd.tag = e.tag /\ o.sq = e.sq /\ e.sq = q
                     /\ e.ok /\ o.cmd.op \in DataOps =>
                          \A p \in 1..Pages(o.cmd.op) : <<e.tag, p>> \in host.got
            /\ Cardinality({e.tag : e \in Seen(q)}) = Cardinality(Visible(q))

\* The device writes only into memory the driver has lent it at that moment,
\* fetches only commands the driver still waits for and none twice, and starts
\* every enabled life in a controller epoch above all earlier ones.
DeviceTouches ==
    /\ host'.cqm # host.cqm /\ host'.st = host.st => host.lent
    /\ \A g \in host'.got \ host.got : \E o \in host.out : o.cmd.tag = g[1]
    /\ \A u \in DOMAIN k'.req \ DOMAIN k.req :
         /\ [cmd |-> k'.req[u].cmd, sq |-> k'.req[u].sqid] \in host.out
         /\ \A v \in DOMAIN k.req : k.req[v].cmd.tag # k'.req[u].cmd.tag
    /\ k'.open /\ ~k.open => k'.epoch > k.act

TouchesOnlyLent == [][DeviceTouches]_vars

\* A driver that waits is served: it does not stay for ever in a state that
\* waits for ready, disabled, shutdown complete, reset or grant, nor with a
\* command that neither completes nor is given up with the life it belongs to.
Waiting == host.st \in {"WAIT", "DIS", "SHN", "FLR", "OWNED"} \/ host.out # {}

Progress == Waiting ~> ~Waiting
=============================================================================
