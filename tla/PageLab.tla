------------------------------ MODULE PageLab ------------------------------
(***************************************************************************)
(* The resource-timed PAGE2 provider, core/nfc-page-v2/nfc_page_v2_lab.c:  *)
(* a discrete-event engine in modelled time over channels, LUNs and plane  *)
(* registers.  Before its timed phase the read laboratory (PREP) runs the  *)
(* functional provider R0 of PageModel.                                    *)
(*                                                                         *)
(* slot   the lab_slot array          lab    phase, clock, flags, last_uid *)
(* bus, lun, reg   channel_owner, lun_owner, plane_owner (0 is no owner)   *)
(* pm     the embedded R0 model       nand, led   the media and the ledger *)
(*                                                                         *)
(* Trace and statistics are left out, and so are the payload windows.      *)
(***************************************************************************)
EXTENDS PageMedia, FiniteSetsExt

CONSTANTS NSlots,        \* SLOTS
          Time,          \* durations of the stages
          Limit          \* virtual_ns_limit

(* The configuration in set.  planes: read policy INDEPENDENT_PLANE;       *)
(* parallel: plane_parallelism_per_lun; readonly: the read laboratory,     *)
(* which starts in PREP; floors: the admission floors callers ask for.     *)
VARIABLES slot, lab, bus, lun, reg, pm, nand, led
own == <<bus, lun, reg>>
vars == <<set, slot, lab, bus, lun, reg, pm, nand, led>>

R0 == INSTANCE PageModel

Slots == 1 .. NSlots
LunOf(t) == <<t.chan, t.lun>>
Channels == {t.chan : t \in Targets}
Luns == {LunOf(t) : t \in Targets}

Empty == [state |-> "EMPTY", uid |-> 0, req |-> NoRequest, page |-> 0, due |-> 0, charge |-> 0,
          gen |-> 0, known |-> FALSE, cancelled |-> FALSE, committed |-> FALSE, hard |-> FALSE,
          reason |-> FALSE, eff |-> <<>>, res |-> NoResult]

Init ==
  /\ R0!Init
  /\ slot = [i \in Slots |-> Empty]
  /\ lab = [phase |-> IF set.readonly THEN "PREP" ELSE "TIMED_RW", now |-> 0, last |-> 0,
            closed |-> FALSE, quar |-> FALSE]
  /\ bus = [c \in Channels |-> 0] /\ lun = [l \in Luns |-> 0] /\ reg = [t \in Targets |-> 0]

Active == {i \in Slots : slot[i].state # "EMPTY"}
Timed == lab.phase # "PREP"
Quiet == UNCHANGED <<pm, nand>>

----------------------------------------------------------------------------
(* Admission *)

transfer == Time.transfer
page_ns == Time.command + Time.array + transfer
program_page_ns == Time.command + transfer + Time.confirm + Time.program + Time.status
erase_ns == Time.erase_command + Time.erase + Time.status

charge(r) ==
  r.count * (IF r.kind = "READ" THEN page_ns ELSE IF r.kind = "PROGRAM" THEN program_page_ns ELSE erase_ns)

remaining == Limit - lab.now - FoldSet(LAMBDA i, n : n + slot[i].charge, 0, Slots)

submit(r) ==
  LET u == lab.last + 1
  IN /\ Timed /\ ~page2_shape_reason(r) /\ ~lab.closed /\ ~lab.quar /\ u <= set.many
     /\ mutating(r) => lab.phase = "TIMED_RW"
     /\ charge(r) <= remaining
     /\ \E i \in Slots \ Active :
          /\ \A j \in Slots \ Active : i <= j
          /\ slot' = [slot EXCEPT ![i] =
               [Empty EXCEPT !.state = "WAIT_COMMAND", !.uid = u, !.req = r, !.charge = charge(r),
                             !.eff = [p \in 1 .. r.count |-> "NONE"]]]
     /\ lab' = [lab EXCEPT !.last = u]
     /\ led' = [led EXCEPT ![u].req = r]
     /\ UNCHANGED own /\ Quiet

\* A fixed outcome is not changed by a late cancel.
cancel(i) ==
  /\ Timed /\ i \in Active /\ slot[i].state # "DONE"
  /\ slot' = [slot EXCEPT ![i].cancelled = TRUE]
  /\ led' = [led EXCEPT ![slot[i].uid].cancelled = TRUE]
  /\ UNCHANGED <<lab, own>> /\ Quiet

----------------------------------------------------------------------------
(* Which slot moves next, and when *)

interrupted(s) ==
  \/ lab.quar \/ s.hard
  \/ (s.cancelled \/ lab.closed) /\ (~mutating(s.req) \/ ~s.committed)

registers(l) == {t \in Targets : LunOf(t) = l /\ reg[t] # 0}

command_resources_free_Read(i) ==
  LET t == slot[i].req.t
      l == LunOf(t)
  IN IF set.planes /\ ~mutating(slot[i].req)
     THEN lun[l] = 0 /\ reg[t] = 0 /\ Cardinality(registers(l)) < set.parallel
     ELSE lun[l] \in {0, i}

command_resources_free(i) ==
  LET t == slot[i].req.t
      l == LunOf(t)
  IN IF mutating(slot[i].req) THEN lun[l] \in {0, i} /\ registers(l) = {}
     ELSE IF set.planes THEN lun[l] = 0 /\ reg[t] = 0 /\ Cardinality(registers(l)) < set.parallel
     ELSE lun[l] = 0

Free(i) == bus[slot[i].req.t.chan] = 0

eligible_Done(i) ==
  LET s == slot[i]
  IN CASE s.state = "WAIT_COMMAND" -> interrupted(s) \/ (Free(i) /\ command_resources_free(i))
       [] s.state \in {"WAIT_DATA", "WAIT_STATUS"} -> Free(i)
       [] s.state \in {"WAIT_INPUT", "WAIT_CONFIRM"} -> interrupted(s) \/ Free(i)
       [] OTHER -> s.state # "EMPTY"

eligible(i) ==
  LET s == slot[i]
  IN CASE s.state = "WAIT_COMMAND" -> interrupted(s) \/ (Free(i) /\ command_resources_free(i))
       [] s.state \in {"WAIT_DATA", "WAIT_STATUS"} -> Free(i)
       [] s.state \in {"WAIT_INPUT", "WAIT_CONFIRM"} -> interrupted(s) \/ Free(i)
       [] s.state \in {"EMPTY", "DONE"} -> FALSE
       [] OTHER -> TRUE

Waits == {"WAIT_COMMAND", "WAIT_DATA", "WAIT_STATUS", "WAIT_INPUT", "WAIT_CONFIRM"}
at(i) == IF slot[i].state \in Waits THEN lab.now ELSE slot[i].due

rank(s) ==
  CASE s.state \in {"COMMAND", "LOAD", "INPUT", "CONFIRM", "ERASE_COMMAND"} -> 0
    [] s.state \in {"ARRAY", "PROGRAM_ARRAY", "ERASE_ARRAY"} -> 1
    [] s.state \in {"DATA", "STATUS"} -> 2
    [] s.state \in {"WAIT_DATA", "WAIT_STATUS"} -> 3
    [] OTHER -> 4

before(i, j) ==
  \/ at(i) < at(j)
  \/ at(i) = at(j) /\ rank(slot[i]) < rank(slot[j])
  \/ at(i) = at(j) /\ rank(slot[i]) = rank(slot[j]) /\ slot[i].uid < slot[j].uid

next(i) == eligible(i) /\ \A j \in Slots \ {i} : eligible(j) => before(i, j)

----------------------------------------------------------------------------
(* How an operation ends *)

Done(s, t, e) == [s EXCEPT !.state = "DONE", !.charge = 0, !.res = [terminal |-> t, effect |-> e]]

terminal_Blind(s, q) == Done(s, IF s.reason \/ q THEN "FAILED" ELSE "SUCCESS", "NONE")

terminal(s, q) ==
  Done(s, IF s.cancelled \/ lab.closed THEN "CANCELLED" ELSE IF s.reason \/ q THEN "FAILED" ELSE "SUCCESS",
       "NONE")

Pages(s, e) == \A p \in 1 .. s.req.count : s.eff[p] = e

overall(s) ==
  IF \E p \in 1 .. s.req.count : s.eff[p] = "UNKNOWN" THEN "UNKNOWN"
  ELSE IF Pages(s, "COMPLETE") THEN "COMPLETE"
  ELSE IF Pages(s, "NONE") THEN "NONE" ELSE "NONCOMPLETE"

mutation_terminal_Winner(s, q) ==
  Done(s, IF s.cancelled \/ lab.closed THEN "CANCELLED"
          ELSE IF Pages(s, "COMPLETE") /\ ~s.hard THEN "SUCCESS" ELSE "FAILED",
       overall(s))

mutation_terminal(s, q) ==
  Done(s, IF Pages(s, "COMPLETE") /\ ~s.hard THEN "SUCCESS"
          ELSE IF s.hard \/ q \/ ~Pages(s, "NONE") THEN "FAILED" ELSE "CANCELLED",
       overall(s))

\* The step's update of the clock, the quarantine, one slot and the resources.
Move(i, s, q) == slot' = [slot EXCEPT ![i] = s] /\ lab' = [lab EXCEPT !.now = at(i), !.quar = @ \/ q]
Bus(i, owner) == bus' = [bus EXCEPT ![slot[i].req.t.chan] = owner]
Lun(i, owner) == lun' = [lun EXCEPT ![LunOf(slot[i].req.t)] = owner]

\* mutation_terminal also gives the LUN back, whoever called it.
Ended(i, s, q) ==
  /\ Move(i, mutation_terminal(s, lab.quar \/ q), q)
  /\ IF lun[LunOf(s.req.t)] = i THEN Lun(i, 0) ELSE UNCHANGED lun

----------------------------------------------------------------------------
(* advance: one stage of one slot *)

Keep == UNCHANGED <<pm, led>>

\* Another page of the group follows.
more(s) == s.page + 1 < s.req.count

\* A mutation takes its LUN, looks at the block, and only then the channel.
\* Preflight fails without any mutating callback.
preflight(i) ==
  LET s == slot[i]
      b == nand[s.req.t]
      p == s.req.first + s.page
  IN (IF set.faults \/ (s.known /\ b.gen # s.gen) THEN {"broken"} ELSE {})
     \cup (IF s.known /\ b.gen # s.gen THEN {}
           ELSE IF page2_mutation_reason(s.req, p, b) THEN {"refused"} ELSE {"fine"})

wait_command_mutation(i) ==
  LET s == slot[i]
  IN /\ s.state = "WAIT_COMMAND" /\ mutating(s.req)
     /\ \/ interrupted(s) /\ Ended(i, s, FALSE) /\ UNCHANGED bus
        \/ /\ ~interrupted(s)
           /\ \E v \in preflight(i) :
                IF v = "fine"
                THEN LET erase == s.req.kind = "ERASE"
                         d == IF erase THEN Time.erase_command ELSE Time.command
                     IN /\ Move(i, [s EXCEPT !.state = IF erase THEN "ERASE_COMMAND" ELSE "LOAD",
                                             !.committed = @ \/ erase, !.gen = nand[s.req.t].gen,
                                             !.known = TRUE, !.due = at(i) + d], FALSE)
                        /\ Lun(i, i) /\ Bus(i, i)
                ELSE /\ Move(i, mutation_terminal([s EXCEPT !.hard = TRUE], lab.quar), v = "broken")
                     /\ Lun(i, 0) /\ UNCHANGED bus
     /\ UNCHANGED <<reg, nand>> /\ Keep

wait_command_read(i) ==
  LET s == slot[i]
      t == s.req.t
  IN /\ s.state = "WAIT_COMMAND" /\ ~mutating(s.req)
     /\ IF interrupted(s) THEN Move(i, terminal(s, lab.quar), FALSE) /\ UNCHANGED own
        ELSE /\ Move(i, [s EXCEPT !.state = "COMMAND", !.due = at(i) + Time.command], FALSE)
             /\ Bus(i, i)
             /\ IF set.planes THEN reg' = [reg EXCEPT ![t] = i] /\ UNCHANGED lun
                ELSE Lun(i, i) /\ UNCHANGED reg
     /\ UNCHANGED nand /\ Keep

\* The stages that only hold the channel for a while and give it back:
\* what follows them, and for how long.
Follows ==
  [COMMAND |-> "ARRAY", CONFIRM |-> "PROGRAM_ARRAY", ERASE_COMMAND |-> "ERASE_ARRAY"]
Lasts ==
  [COMMAND |-> Time.array, CONFIRM |-> Time.program, ERASE_COMMAND |-> Time.erase]

command_end(i) ==
  LET s == slot[i]
  IN /\ s.state \in DOMAIN Follows
     /\ Move(i, [s EXCEPT !.state = Follows[s.state], !.due = at(i) + Lasts[s.state]], FALSE)
     /\ Bus(i, 0) /\ UNCHANGED <<lun, reg, nand>> /\ Keep

\* In the timed read/write phase a quarantine stops further media reads.
materialize(i) ==
  LET s == slot[i]
      fact == page2_read_fact(nand[s.req.t], {s.req.first + s.page})
  IN IF lab.phase = "TIMED_RW" /\ lab.quar THEN {[reason |-> TRUE, quar |-> FALSE]}
     ELSE {[reason |-> s.reason \/ ~fact, quar |-> FALSE]}
          \cup (IF set.faults THEN {[reason |-> TRUE, quar |-> TRUE]} ELSE {})

array_read(i) ==
  LET s == slot[i]
  IN /\ s.state = "ARRAY"
     /\ \E m \in materialize(i) : Move(i, [s EXCEPT !.state = "WAIT_DATA", !.reason = m.reason], m.quar)
     /\ UNCHANGED <<own, nand>> /\ Keep

\* The stages that wait for the channel and then take it.
Takes == [WAIT_DATA |-> "DATA", WAIT_STATUS |-> "STATUS"]

wait_bus(i) ==
  LET s == slot[i]
  IN /\ s.state \in DOMAIN Takes
     /\ Move(i, [s EXCEPT !.state = Takes[s.state],
                          !.due = at(i) + (IF s.state = "WAIT_DATA" THEN transfer ELSE Time.status)], FALSE)
     /\ Bus(i, i) /\ UNCHANGED <<lun, reg, nand>> /\ Keep

Register(i) == IF set.planes THEN reg[slot[i].req.t] ELSE lun[LunOf(slot[i].req.t)]

\* A foreign register reservation is left alone and quarantines the model.
data_end(i) ==
  LET s == slot[i]
      t == s.req.t
      mine == Register(i) = i
      r == [s EXCEPT !.reason = @ \/ ~mine]
  IN /\ s.state = "DATA"
     /\ IF s.cancelled \/ lab.closed \/ lab.quar \/ r.reason \/ ~more(s)
        THEN Move(i, terminal(r, lab.quar \/ ~mine), ~mine)
        ELSE Move(i, [s EXCEPT !.state = "WAIT_COMMAND", !.page = @ + 1], FALSE)
     /\ Bus(i, 0)
     /\ reg' = IF set.planes /\ mine THEN [reg EXCEPT ![t] = 0] ELSE reg
     /\ lun' = IF ~set.planes /\ mine THEN [lun EXCEPT ![LunOf(t)] = 0] ELSE lun
     /\ UNCHANGED nand /\ Keep

\* Loading and data-in end: an interruption is honoured until the confirm.
load_end(i) ==
  LET s == slot[i]
  IN /\ s.state \in {"LOAD", "INPUT"}
     /\ IF interrupted(s) THEN Ended(i, s, FALSE)
        ELSE /\ Move(i, [s EXCEPT !.state = IF s.state = "LOAD" THEN "WAIT_INPUT" ELSE "WAIT_CONFIRM"], FALSE)
             /\ UNCHANGED lun
     /\ Bus(i, 0) /\ UNCHANGED <<reg, nand>> /\ Keep

wait_input(i) ==
  LET s == slot[i]
      confirm == s.state = "WAIT_CONFIRM"
  IN /\ s.state \in {"WAIT_INPUT", "WAIT_CONFIRM"}
     /\ IF interrupted(s) THEN Ended(i, s, FALSE) /\ UNCHANGED bus
        ELSE /\ Move(i, [s EXCEPT !.state = IF confirm THEN "CONFIRM" ELSE "INPUT",
                                  !.committed = @ \/ confirm,
                                  !.due = at(i) + (IF confirm THEN Time.confirm ELSE transfer)], FALSE)
             /\ Bus(i, i) /\ UNCHANGED lun
     /\ UNCHANGED <<reg, nand>> /\ Keep

\* The media call for one page.  A quarantine raised by another slot meanwhile
\* stops it: the page stays at no effect.
mutation_effect(i) ==
  LET s == slot[i]
      t == s.req.t
      p == s.page + 1
  IN /\ s.state \in {"PROGRAM_ARRAY", "ERASE_ARRAY"}
     /\ IF lab.quar
        THEN Move(i, [s EXCEPT !.state = "WAIT_STATUS", !.hard = TRUE], FALSE) /\ UNCHANGED <<nand, led>>
        ELSE \E a \in Answers(1) :
               LET e == R0!Verdict(a, 1)
               IN /\ Move(i, [s EXCEPT !.state = "WAIT_STATUS", !.hard = @ \/ e # "COMPLETE", !.eff[p] = e],
                          e \notin {"COMPLETE", "NONE"})
                  /\ nand' = [nand EXCEPT ![t] = Mutated(@, s.req, a)]
                  /\ led' = [led EXCEPT ![s.uid] = Credited(@, a)]
     /\ UNCHANGED own /\ UNCHANGED pm

status_end(i) ==
  LET s == slot[i]
  IN /\ s.state = "STATUS"
     /\ IF s.hard \/ lab.quar \/ ~more(s) THEN Ended(i, s, FALSE)
        ELSE Move(i, [s EXCEPT !.state = "WAIT_COMMAND", !.page = @ + 1], FALSE) /\ UNCHANGED lun
     /\ Bus(i, 0) /\ UNCHANGED <<reg, nand>> /\ Keep

advance(i) ==
  \/ wait_command_mutation(i) \/ wait_command_read(i) \/ command_end(i) \/ array_read(i)
  \/ wait_bus(i) \/ data_end(i) \/ load_end(i) \/ wait_input(i) \/ mutation_effect(i) \/ status_end(i)

step == Timed /\ \E i \in Slots : next(i) /\ advance(i)

take(i) ==
  /\ Timed /\ slot[i].state = "DONE"
  /\ slot' = [slot EXCEPT ![i] = Empty]
  /\ led' = [led EXCEPT ![slot[i].uid].out = slot[i].res]
  /\ UNCHANGED <<lab, own>> /\ Quiet

Open == {i \in Active : slot[i].state # "DONE"}

reset ==
  /\ Timed
  /\ lab' = [lab EXCEPT !.closed = TRUE]
  /\ slot' = [i \in Slots |-> IF i \in Open THEN [slot[i] EXCEPT !.cancelled = TRUE] ELSE slot[i]]
  /\ led' = [u \in Uids |-> [led[u] EXCEPT !.cancelled = @ \/ \E i \in Open : slot[i].uid = u]]
  /\ UNCHANGED own /\ Quiet

resources_idle ==
  (\A c \in Channels : bus[c] = 0) /\ (\A l \in Luns : lun[l] = 0 /\ registers(l) = {})

quiet == IF Timed THEN lab.closed /\ Active = {} /\ resources_idle ELSE R0!quiescent

live_idle ==
  ~lab.closed /\ ~lab.quar /\ (IF Timed THEN Active = {} /\ resources_idle ELSE R0!live_idle)

admission_floor(t) ==
  /\ Timed /\ live_idle /\ t >= lab.now
  /\ lab' = [lab EXCEPT !.now = t]
  /\ UNCHANGED <<slot, own, led>> /\ Quiet

(* PREP: every call goes to R0, and the laboratory mirrors its admission. *)
Prep == ~Timed /\ UNCHANGED <<slot, own>>

prep_submit(r) == Prep /\ ~lab.closed /\ ~lab.quar /\ R0!try_submit(r) /\ lab' = [lab EXCEPT !.last = pm'.last]
prep_cancel == Prep /\ R0!cancel /\ UNCHANGED lab
prep_step == Prep /\ R0!step /\ UNCHANGED lab
prep_take ==
  Prep /\ R0!take_result /\ lab' = [lab EXCEPT !.quar = @ \/ (~lab.closed /\ ~R0!live_idle')]
prep_reset == Prep /\ R0!reset_begin /\ lab' = [lab EXCEPT !.closed = TRUE]

begin_timed_read ==
  /\ Prep /\ live_idle
  /\ lab' = [lab EXCEPT !.phase = "TIMED_READ"]
  /\ UNCHANGED <<pm, nand, led>>

Next ==
  /\ UNCHANGED set
  /\ \/ \E r \in set.requests : submit(r) \/ prep_submit(r)
     \/ \E i \in Slots : cancel(i) \/ take(i)
     \/ step \/ reset
     \/ \E t \in set.floors : admission_floor(t)
     \/ prep_cancel \/ prep_step \/ prep_take \/ prep_reset \/ begin_timed_read

Spec == Init /\ [][Next]_vars

\* The caller keeps stepping the model while it owns an operation
\* (actor RUN and CLOSE, FTL pool steps).  Checked with two operations.
Stepped(A) == set.many = 2 /\ A /\ UNCHANGED set
FairSpec == Spec /\ WF_vars(Stepped(step)) /\ WF_vars(Stepped(prep_step))

----------------------------------------------------------------------------
(* Properties *)

BusStates == {"COMMAND", "DATA", "LOAD", "INPUT", "CONFIRM", "ERASE_COMMAND", "STATUS"}
ReadStates == {"COMMAND", "ARRAY", "WAIT_DATA", "DATA"}
States == BusStates \cup Waits \cup {"EMPTY", "DONE", "ARRAY", "PROGRAM_ARRAY", "ERASE_ARRAY"}

TypeOK ==
  /\ R0!TypeOK
  /\ \A i \in Slots :
       /\ slot[i].state \in States /\ slot[i].uid \in 0 .. MaxRequests /\ slot[i].res \in R0!Results
       /\ slot[i].state \in States \ {"EMPTY"} => slot[i].page \in 0 .. slot[i].req.count - 1
  /\ lab.now \in Nat /\ lab.phase \in {"PREP", "TIMED_READ", "TIMED_RW"}
  /\ bus \in [Channels -> {0} \cup Slots] /\ lun \in [Luns -> {0} \cup Slots]
  /\ reg \in [Targets -> {0} \cup Slots]

\* Every reservation belongs to an operation in a stage that needs it, so no
\* error path, cancel or reset leaks a channel, a LUN or a plane register.
NothingLeaked ==
  /\ \A c \in Channels : bus[c] # 0 =>
       LET s == slot[bus[c]] IN s.state \in BusStates /\ s.req.t.chan = c
  /\ \A l \in Luns : lun[l] # 0 =>
       LET s == slot[lun[l]]
       IN /\ s.state \notin {"EMPTY", "DONE"} /\ LunOf(s.req.t) = l
          /\ mutating(s.req) \/ s.state \in ReadStates
  /\ \A t \in Targets : reg[t] # 0 =>
       LET s == slot[reg[t]] IN s.state \in ReadStates /\ s.req.t = t

\* While a mutation has the array of a LUN, from its command to its status, no
\* other operation has any stage on that LUN, and reads share a LUN only on
\* different planes and only as many as the wiring allows.
ArrayExclusive ==
  LET on == {i \in Slots : slot[i].state \notin {"EMPTY", "DONE", "WAIT_COMMAND"}}
      same(i) == {j \in on : LunOf(slot[j].req.t) = LunOf(slot[i].req.t)}
  IN \A i \in on :
       /\ mutating(slot[i].req) \/ ~set.planes => same(i) = {i}
       /\ Cardinality(same(i)) <= set.parallel
       /\ \A j \in same(i) \ {i} : slot[j].req.t # slot[i].req.t

\* An owned operation that is not terminal always has a next event: stages
\* never wait for each other in a circle (the actor's RUN relies on it).
NextEventExists == Timed /\ Open # {} => \E i \in Slots : next(i)

\* Modelled time never passes the limit, although the stages of admitted
\* groups are timed long after their admission was checked (submit).
TimeBounded ==
  /\ lab.now <= Limit
  /\ \A i \in Open : slot[i].state \notin Waits => slot[i].due <= Limit

\* Operations that need a whole LUN start in the order of admission: a later
\* program or erase never overtakes an earlier one of its LUN, and under the
\* exclusive read policy no read does either.
AdmissionOrder ==
  \A i, j \in Open :
    /\ slot[i].uid < slot[j].uid /\ LunOf(slot[i].req.t) = LunOf(slot[j].req.t)
    /\ ~set.planes \/ (mutating(slot[i].req) /\ mutating(slot[j].req))
    /\ slot[i].state = "WAIT_COMMAND" /\ slot[i].page = 0
    => slot[j].state = "WAIT_COMMAND" /\ slot[j].page = 0

\* While the media does not fail, nothing is quarantined: no generation
\* changes under a group, no register is foreign (preflight, data_end).
QuarantineNeedsFault == ~set.faults => ~lab.quar

\* Once confirmed, a program group runs to its end whatever cancel and reset
\* do, and while the media does not fail it succeeds (README, LAB-RW-R2).
ConfirmedDrains ==
  \A i \in Slots :
    slot[i].state = "DONE" /\ slot[i].committed =>
      slot[i].res.terminal \in {"SUCCESS"} \cup (IF set.faults THEN {"FAILED"} ELSE {})

\* The operations as the caller knows them.
Operation(u) ==
  LET e == led[u]
      at_u == {i \in Active : slot[i].uid = u}
      s == slot[CHOOSE i \in at_u : TRUE]
      known == u <= lab.last
  IN IF ~Timed THEN R0!Operation(u)
     ELSE [st |-> IF ~known THEN "NEW" ELSE IF at_u = {} THEN "TAKEN"
                  ELSE IF s.state = "DONE" THEN "DONE" ELSE "OPEN",
           write |-> known /\ mutating(e.req), count |-> IF known THEN e.req.count ELSE 0,
           applied |-> e.applied, tainted |-> e.tainted, cancelled |-> e.cancelled,
           res |-> IF at_u = {} THEN e.out ELSE s.res]

Contract == INSTANCE PageProvider WITH op <- [u \in Uids |-> Operation(u)], closed <- lab.closed

\* The timed laboratory keeps the same promise as R0, across its phases: a
\* result is fixed once and is a true account of the media.
ImplementsProvider == Contract!Spec

\* While R0 runs, after an effect nobody can account for no further operation
\* is admitted (quarantine).
UnknownIsLast == ~Timed => R0!UnknownIsLast

\* Every accepted operation gets a result, after cancel, reset and quarantine too.
AcceptedFixed ==
  set.many = 2 => \A u \in Uids : Operation(u).st = "OPEN" ~> Operation(u).st = "DONE"

\* The schedule is sound: exclusive arrays, no leaked reservation, admission
\* order per LUN, no circular wait and no time past the limit (see each part).
Scheduled == TypeOK /\ ArrayExclusive /\ NothingLeaked /\ AdmissionOrder /\ NextEventExists /\ TimeBounded

\* Faults stay where they belong: none without a failing medium, a confirmed
\* program drains, nothing is admitted after an unknown effect.
FaultsContained == QuarantineNeedsFault /\ ConfirmedDrains /\ UnknownIsLast
============================================================================
