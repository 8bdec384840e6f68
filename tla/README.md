# A TLA+ verification of ssd-firmware-lab

This directory holds TLA+ models of the firmware laboratory's C code, the TLC
configurations that check them on small instances, and TLAPS proofs that hold
for every instance. The code under `src/` is the reference. Comments, documents
and tests are consulted only to find out what the code is meant to promise.

`PROJECT.json` lists the components, the runs, the lines each definition
translates (`map`), the hazards the properties are aimed at, one mutant for
each property, the findings and the theorems. This file says how they fit.

## 1. The system and its parts

A command travels down this path, and a completion back up:

    Linux driver / guest
      | registers, rings, MSI-X
    kernel/m4-native (function)  <-ioctl->  frontends/linux-m4 (worker, owner)
      | captured command
    core/command-spine (lifecycle of one command: actions, abort, publication)
      | Block request
    core/ftl-scale (mapping, journal, checkpoint, reclaim, recovery)
      | page groups
    core/nfc-page-v2 (PAGE2 provider R0, timed laboratory, channel hub)
      | jobs, threads (frontends/headless-scale/nfc_channel_workers.c)
    media/file-nand-v2 (physical NAND with an intent/terminal log in a file)

Beside this path the repository keeps the portable cores it grew from: the
lifecycle core C3.1, the executable persistence policy C3.2, the NFC model C3.3,
the crash-consistent mapping C3.4, the headless queue HIF C4.2 and the NVMe
command graph C4.3.

| Part | Source | Module | Run |
|---|---|---|---|
| Native function, worker, owner protocol | `kernel/m4-native`, `frontends/linux-m4` | `NativeHif` | host |
| Queue HIF C4.2 | `frontends/headless-c4/hif` | `QueueHif` | host |
| Command spine lifecycle | `core/command-spine/spine_lifecycle.c` | `SpineLifecycle`; proofs in `Spine*Proofs`, `SpineTheorems` | spine |
| Command graph C4.3 | `core/c4-nvme` | `CommandGraph` | core |
| Scalable FTL, format 2 | `core/ftl-scale` | `FtlMapping`, `FtlScale`, `FtlContract` | ftl |
| Scalable FTL, format 3 pools | `core/ftl-scale` (heads, write, read) | `FtlPools`, `FtlContract` | ftl |
| PAGE2 provider R0, timed laboratory | `core/nfc-page-v2` | `PageModel`, `PageLab`, `PageMedia`, `PageProvider` | lab |
| Channel hub and actors | `core/nfc-page-v2/nfc_channel_v2*.c` | `ChannelHub`, `JobExecutor` | hub |
| Channel workers (threads) | `frontends/headless-scale/nfc_channel_workers.c` | `ChannelWorkers`, `JobExecutor`, `ChannelWorkersProofs` | workers |
| Physical NAND v2 | `media/file-nand-v2` | `PhysicalNand`, `NandContract`, `PhysicalNandProofs` | nand |
| Persistence policy C3.2 | `core/c32` | `Persistence` | core |
| Lifecycle core C3.1 and its fixtures | `core/c31.c`, `core/fakes` | `PortableLifecycle` | core |
| Mapping C3.4 over NFC C3.3 and its media | `core/c34`, `nfc`, `media/c34-file` | `CrashMapping` | core |

What is left out, and why, is in section 9.

## 2. How the models are built

**One action per operation.** An entry point of the API, or one unit of a step
function's budget, is one action that does the whole of what the code does
before it returns: its early returns are guards, its trailing refresh or save is
part of the action. Where the code itself can be interrupted (threads between
two synchronisation points, an ioctl between two copies, a file between two
writes), the action is cut there.

**Settings.** Most modules have a variable `set` which Init picks from the
constant `Settings` and which never changes. It holds the budgets of one
scenario (how many commands, cuts, faults) and which faults may occur. One run
then covers several small scenarios, and a property can say under which of them
it holds: "without faults the hub is never poisoned".

**Selectors.** `MCCore`, `MCHost` and `MCFtl` put several components into one
run. They instantiate the component modules over shared variables; every
behaviour belongs to one component from Init on, told by a field of its
setting. The components do not interact there. The properties guard each part by
that selector.

**Components that interact** meet through contracts. `FtlContract`,
`NandContract`, `PageProvider` and `JobExecutor` state what one layer promises
the next; the detailed module below is shown to implement the contract and the
module above is built on it:

- `ChannelWorkers` implements `JobExecutor`, `ChannelHub` runs on `JobExecutor`;
- `PageLab` and `PageModel` implement `PageProvider`;
- `FtlScale` and `FtlPools` implement `FtlContract` across power cuts;
- `PhysicalNand` implements `NandContract` across crashes in any write.

`NativeHif` composes function, worker, owner and driver in one module, and
`CrashMapping` composes mapping, NFC and media, because their interleaving is
what can go wrong.

**Data** is reduced to what the properties tell apart. A payload is the number
of the write that made it, a checksum is whether the record is whole, a record
is its fields without padding. Identities (uid, generation, epoch, nonce) that
the code always compares together are one number. Every such reduction is
listed with its module below.

## 3. The runs

| Run | Module | States | Time | Result |
|---|---|---|---|---|
| spine | `MCSpineLifecycle` | | 2 min | pass |
| nand | `MCPhysicalNand` | 523 644 | 2.5 min | pass |
| ftl | `MCFtl` | 438 835 | 2.2 min | pass |
| workers | `MCChannelWorkers` | 260 026 | 2 min | pass |
| hub | `MCChannelHub` | 699 784 | 2 min | pass |
| lab | `MCPageLab` | 235 952 | 2.3 min | pass |
| host | `MCHost` | 152 924 | 2.5 min | pass |
| core | `MCCore` | 132 604 | 2.8 min | pass |
| spine_close_abort | `MCSpineLifecycle` | 10 826 | | violation, finding 1 |
| ftl_record_limit | `MCFtlScale` | 139 579 | | violation, finding 2 |
| workers_cursor | `MCChannelWorkers` | 307 | | violation, finding 3 |
| crash_relocation | `MCCrashMapping` | 174 | | violation, finding 4 |

The passing runs fire every action and every disjunct of their next-state
relations. Deadlock is checked in spine, hub, lab and workers; the others have
budgets, and a behaviour that has used its budget up may stop.

Every property has a mutant in `PROJECT.json`: one definition replaced by the
form a plausible bug would give it, under which TLC reports that property.

## 4. The firmware path, module by module

### Command spine lifecycle (`SpineLifecycle`, run spine)

State: the command array `cmd`, the driver-close lanes, the receipt ring with
its cursor, the id counters, the service cursor, three counters and the gates.
`step_one` is one action: it scans for the next slot or lane exactly as the loop
does, cursor movement included, and then runs the branch the served command is
in. The entry points of the host interface are one action each. Drivers, sinks
and the profile are external: `env.slow` enables "in progress" and
"backpressure", `env.lost` a lost submit answer, `env.faults` an error from any
call. `owned` is a history variable with the actions a driver may hold,
`published` the set of finished publications.

- `Accounted`: the three counters are exact, no action a driver holds is
  forgotten through poison, abort, close and slot reuse, and a quiescent epoch
  holds nothing.
- `BoundTargetStays`, `AbortedNeverPublished`, `AbortWonTargetFailed`: an abort
  keeps only the slot index of its target. Until it decides, the slot holds the
  very command it bound; that command is never published; and an abort that won
  had a target that really failed. The last one exempts lost submit answers and
  driver errors: both leave an action in SUBMIT_UNKNOWN, which is not in the
  mask the abort waits for (`spine_lifecycle.c:945`), so it may still succeed.
- `StopHolds`: after poison, close or cancel no driver is handed new work, and a
  command that was active at the poison never becomes an intent.
- `DecisionsStand`: the first terminal fact of an action and a recorded
  publication decision survive repeats, poison and close.
- `Progress`: with drivers that answer, commands finish and close drains.

Instance: two slots, one lane, two actions, four programs (two-action write,
single-action read, a twin that shares the read's handle, an abort). Two slots
are enough for an abort with its target, and for a third ticket in a reused
slot. Fairness: `j0_construction` calls step once per turn for ever and
finishes the leases it takes.

### Physical NAND v2 (`PhysicalNand`, run nand)

The engine over a file with a volatile cache: every write may reach the disk or
not until a sync, in any order, and the write in progress at a crash may be
torn. Format, open with recovery, program, erase, mark-bad and read are
sequences of such writes. `Recoverable`: recovery refuses only a file whose
format did not finish, and damage lies only inside the range of a durable INTENT
without a terminal. `Contract`: the engine implements `NandContract`, a mutation
at a time, found after a crash absent, committed, or aborted with exactly the
reserved range consumed. Two blocks of two pages on sound storage, one on
storage whose transfers and syncs fail; three mutations, so that both log banks
are used and one is overwritten. Checksums and the mirrored superblock's bytes
are abstract; a record is whole, torn or zero.

### Scalable FTL (`FtlMapping`, `FtlScale`, `FtlPools`, run ftl)

`FtlMapping` holds the pure parts: layout, record validation and application,
rebuild of the index, record space. `FtlScale` is format 2 in detail: requests,
windows, read-modify-write, reclaim, journal rails, two checkpoint banks,
recovery, close, with a power cut at every NFC operation. `FtlPools` is format
3: waves of write runs over several heads, ordered submission under
backpressure, stop, abort, map and finish, read runs with ordered delivery.

- `NeverQuarantined` (format 2) and `NeverLost` inside `TablesSound` (format 3):
  without failing children nothing quarantines the FTL; space and journal room
  are always found.
- `TablesSound`: free blocks are erased at the table's generation, the head's
  tail is what the table says, the validity index equals the map, a selectable
  root with checkpoint and rail header is on the medium at every instant; runs
  are accepted in plan order, reservations belong to a run, snapshots are still
  the map when used, Reads deliver what was written last.
- `ContractHolds`: `FtlContract`, an acknowledged Write stays, a cut or failed
  one leaves a prefix.
- `ReportsTrue`: FULL, EXACT_PREFIX and NONE say exactly how many sectors are
  durable; the durable frontier moves only with the last group of a Write.
- `Progress`: recovery reaches a ready volume, every accepted request ends, a
  closed epoch becomes quiescent.

Format 2 runs with two logical pages of two sectors, three data blocks of three
pages and seven journal slots: small enough that seven writes reclaim, switch
rails and checkpoint several times. Format 3 has two domains of two blocks, two
write runs and three read runs. `LayoutLegal` and `PoolsLegal` assert that these
constants are ones the code's own layout checks accept.

Reductions, format 2: a rail and a checkpoint are one block each; the loop of
FORMAT_ERASE is one step, and so are the reads of roots, checkpoint and headers;
a digest is the image itself; the 16-bit erase generation does not run out within
the bounds; every request has a token of its own, so `block_submit` never meets a
token it owns or has retired (`ftl_scale_runtime.c:165-176`); heaps are replaced by their minimum; all blocks are GOOD; the pages a group needs are
bounded by `MaxHostDeltas`. Format 3: a metadata transaction is one step that a
power cut finds done or not, also when it had failed; recovery is one step; the
erase generation identifies a block's life; PREPARED and pending-unaccepted runs
are merged; the NFC may hold back and complete any subset; UID order is offset
order; `SF_MAX_DELTAS`, `sf_child_credit` and the host sequence limits are not
reached; FLUSH is left to `FtlScale`; a domain is a range of blocks. Liveness is
followed in the settings that close or (format 3) fail; the owner steps the FTL
for ever and the client retires what it is given.

### Channel hub (`ChannelHub`, run hub) and workers (`ChannelWorkers`, run workers)

The hub: batch phases, the four job commands, credits from submit to RETIRE_ACK,
validation of replies, faults and poison, reset and shutdown, over `JobExecutor`
and an abstract page model. `HealthyNeverPoisoned`; `OneResultEach` (one credit,
one execution, its own result, phases that do not overlap, time within its
limit); `Certified` (drained siblings after a fault, idleness, a waker for every
external wait); `Progress`. Two channels, three credits. Reductions: the
cooperative executor is the executor whose quanta run inside poll; polling picks
any channel that has answered; a repeated submit of the same key and a cancel
change nothing and are left out; the reserve is credits plus three where the
code has seven; traces, statistics and output spans are left out; `HUB_CHILD` is
never set by the code; what `setup_jobs` or an import did before it poisons is
not kept.

The workers: threads, wake mutexes, conditions with spurious wake-ups,
mailboxes, the completion eventfd, startup, shutdown and both waits, one step
per synchronisation point. `NoLostWakeup` (neither a worker's nor the
coordinator's); `OneOwner` (mailbox and memory have one owner, nothing is freed
under a running thread); `ImplementsExecutor` (`JobExecutor`); `Progress`. One
or two workers for two channels, both lifecycles, every call failing.
Reductions: statistics, affinity and CPU clocks left out; the critical sections
of submit and startup are one step; the 1 ms lifecycle poll may always time
out, the poll of `workers_wait` is not assumed to. Fairness: every runnable
thread runs, and a mutex that is free is taken by one that wants it.

### PAGE2 provider and timed laboratory (`PageModel`, `PageLab`, run lab)

R0 with its one slot, and the event engine with all its stages, both read
policies, time charging, quarantine, cancel, reset and the PREP phase over R0,
on a medium that may fail half way. `Scheduled` (exclusive arrays, nothing
leaked, admission order per LUN, always a next event, time within its limit);
`FaultsContained`; `ImplementsProvider` (`PageProvider`: a result is fixed once
and is a true account of the media); `AcceptedFixed`. Three operations on two
planes, two on two LUNs, PREP into timed reads. Reductions: uids are drawn in
sequence; a repeated submit changes nothing; one block per plane, and no block is
marked bad; span and
alias checks, trace, statistics and the wiring check left out; the ledger `led`
is a ghost; `floors` are the only times the caller may advance to. Fairness:
the owner calls step.

### Native function (`NativeHif`, run host)

Registers, reset, the service pass, capture, the worker's ioctls, publication,
MSI-X routes, the IOMMU gate and owner transitions for the three host profiles,
with the worker's loop and slots, the owner protocol and a Linux-like driver
that enables, uses, resets, shuts down, masks, toggles bus mastering, resets the
function and changes owners. A worker may lose a reply or die.

- `HifSound`: holder counts, pending entries and frames are exactly those of the
  captured requests, no cleanup meets broken books, nothing can touch the host
  during a reset or owner change, and the worker gives up only for one of four
  reasons (`EndOfWorker`), each stated on the state it leaves: the lost reply of a
  refused SHAPE; bus mastering toggled or the function reset between the access
  test of a publication and its interrupt ticket (-ESTALE,
  `native_worker.c:468-469`); a function reset before the first acknowledgement;
  a driver that deletes a queue with commands on it, whose close is left with
  that deletion and a command that holds the queue and has no published
  completion. `wrk.why` names the step that failed.
- `HostSeesTruth`: every completion the driver finds is for a command it waits
  for, once, on the right queue, with its data in place.
- `TouchesOnlyLent`: the device writes only memory lent at that moment and
  fetches no command twice; every enabled life has a higher epoch.
- `Progress`: a driver that waits is served.

Reductions: canary and `native_cut` hooks, PRP arithmetic, attachment identity,
32- and 64-bit limits and BAR sizing left out; every copy is one atomic step,
DMA one step per mapping, PUBLISH four steps that hold the HIF mutex and between
which the driver may write configuration space: the access test (`PublishStart`),
the queue checks and the interrupt ticket (`PublishPrepare`), the entry's body and
its phase bit (`PublishCopy`); `irq_work` and its handler are one step; the service pass is atomic;
requests are keyed by uid; `requested_flr` is `bar_epoch`; after a function
reset the driver waits until the function has seen it; a late doorbell comes
only while disabling or down; lost replies are lost SHAPE, DMA, QUEUE (not MQ2),
PUBLISH and RETIRE replies, and the owner's queries after them are idempotent;
the spine between admission and completion is abstract; rings have three entries
where the code allows 32; the host reaps only when up; a queue is deleted only
once its commands are back, except in the "force" setting. Fairness: the BAR
thread runs for ever (`m4_hif.c`), the worker loops, interrupts are delivered,
the driver handles what it is sent.

### Queue HIF C4.2 (`QueueHif`, run host)

Queue candidates, doorbells, capture, admission, publication, acknowledgement,
deletion, reset, teardown, notifications and target references, with the command
port and Host memory as the fakes implement them: late (IN_PROGRESS, UNKNOWN, a
prefix) or wrong as often as the setting allows. `QueuesAgree`: indices, phases
and reservations of both sides agree and what the Host submitted is in the ring,
in a record or in a completion it has yet to take. `HealthyNeverFaults`: without
a wrong answer nothing faults and no reset or teardown is poisoned. `Progress`.
Depth two and three, one or two queue pairs, up to four candidates. Reductions:
one record per index for the several tables; a ring generation identifies
candidate, mapping and scrub token; one counter for uids; candidate tombstones
left out; one target reference per command; start and query merged where they
are treated alike; stale doorbells not enumerated; a prefix is none, some or all
but the marker; `completion_acquire` answering IN_PROGRESS is a contract fault;
the Host uses the lowest free CID at once and the SQHD of its last completion; a
POISONED reset leaves RESETTING until teardown; a committed `reset_control` is
retired before the next reset. Fairness: the owner steps, the Host reaps and
acknowledges, the layer above takes notifications and releases targets.

## 5. The portable cores (run core)

### Command graph C4.3 (`CommandGraph`)

Reservation, admission, policy, the queue, target and block transactions, the
service cursor, and the graph's own validators, which every call runs first.
`GraphSound`: the validators accept every state a call can leave, a prepared
command stays admissible; the queues the graph shows are the ones the provider
has, success is reported only with the effect, no action is submitted twice.
Reductions: commands are never released; one cursor for the unit counters and
one for action uids (eight per command); observer copies are synchronised as the
code does; the `*_zero` facts are one, `quiet`; identity encodings left out;
malformed fields are merged into `bad`; a provider's effect takes place when
`finish_query` answers; `set.stuck` is a queue provider that is busy for ever; a
FAULT keeps the lane. Settings: every policy decision for one command, the life
of a queue pair with late, odd and wrong answers, aborts naming each other, a
stuck provider beside other work, counters one short of and exactly at their
limit.

### Persistence policy C3.2 (`Persistence`)

Every scenario family, profile and cut of the executable model. The run visits
the 2549 distinct states the repository itself reports
(`docs/results/2026-08-29-c3-2-executable-persistence.md`).
`RecoveryTruthful`: after a cut at any event recovery finds what the facts
allow (the P- properties of ADR-0007), and no step a scenario offers is refused.
Reductions: ids are numbers; predecessor version, source reference, GC
destination, hashes, operation and command ids and covered masks left out;
presence and kind merged; the deliberately broken variants are mutants.

### Lifecycle core C3.1 (`PortableLifecycle`)

Submission, the executor over the scripted, NFC and DMA fixtures, completion
leases, abort tickets, reset and teardown, every counter limit.
`LifecycleSound`: slots and provider entries own each other one to one, tickets
and states agree, drains leave nothing, every completion tells the outcome, and
the transferred bytes of a consumed one never change. Reductions: the uid stands
for slot and operation generation and cookie; the scenario a request token
selects is kept in the command; one step is one unit of budget; trace ring,
arena, wire codec and retry class left out; errors that no provider returns
(from cancel, poll, reset) left out; bytes counted, not stored; capabilities are
registered beforehand; the Host may present any lease or ticket ever issued; two
instances are not composed. A provider that breaks the contract during a drain
is exempt from the drain's promise (`c31.c:641-668`).

### Crash-consistent mapping C3.4 (`CrashMapping`)

Registration, reads, writes, trims and fences, the program and erase graphs,
checkpoint, relocation, cancel, reset drain, power loss in any state and
recovery, over the NFC model and the media. `CutsRecover`: power lost in any
state leaves media from which recovery finds, for each atom, something the Host
may still expect. `TablesAgree`: the running tables are those a recovery would
build, and sound media refuse no program. `SaidStands` says the results are true
when they are given. Reductions: queued and scheduled are one state; a transfer
is one unit; virtual time, trace, cache generation limits left out; the
physical operation and sequence limits (`c34_nfc_graph.c:170-175`), which count a
subset of the inner operations, are merged with the inner limit; with one
operation at a time the NFC accepts every submission, so the BACKPRESSURE and
REJECTED answers of `try_submit` and the abandon after them are left out; receipts transient; mutation ids,
witness masks and scope dropped; the generation seen in a page is the record's;
a record is its payload and CRC; the erase-wear limit is the grown-bad fault;
sequences and tokens are uids; a fence's frontier is its uid; the two-phase file
log commits atomically. Careful callers take a checkpoint before they relocate
(see finding 4). A grown-bad block that holds readable pages (`Worn`) is exempt:
the mapping has no second copy. A cancelled program that leaves the media's
binding behind (`Leaked`) is exempt from `Progress`, see section 8.

`SaidStands` and `Progress` cover the cores together: a publication has its
witness (C3.2), a completion intent is not changed before its newest lease takes
it (C3.1), a result is true when given (C3.4); and everything accepted ends. The
owner calls the core's step for ever, which is the only way the cores run; the
Host returns leases and a draining core's provider is asked for quiescence.

## 6. What is proved

TLAPS checks twelve theorems, each for every value of the constants that the
named assumption of its module admits. TLC evaluates these assumptions in the
runs. Each theorem states a property that a run checks too.

| Theorem | Module | States |
|---|---|---|
| `TypeCorrect` | `SpineLifecycleProofs` | `Spec => []TypeOK` |
| `TargetStays` | `SpineLifecycleProofs` | `Spec => []BoundTargetStays` |
| `TargetNeverPublished` | `SpineLifecycleProofs` | `Spec => []AbortedNeverPublished` |
| `AccountsExact` | `SpineTheorems` | `Spec => []Accounted` |
| `StopStops` | `SpineTheorems` | `Spec => StopHolds` |
| `DecidedStands` | `SpineTheorems` | `Spec => DecisionsStand` |
| `AbortVerdict` | `SpineTheorems` | `Spec => []AbortWonTargetFailed` |
| `OwnersAlone` | `ChannelWorkersProofs` | `Spec => []OneOwner` |
| `WakeupsKept` | `ChannelWorkersProofs` | `Spec => []NoLostWakeup`, if `CursorSpan % C = 0` |
| `ExecutorImplemented` | `ChannelWorkersProofs` | `Spec => ImplementsExecutor` |
| `CrashAccounted` | `PhysicalNandProofs` | `Spec => []Recoverable` |
| `MediumImplemented` | `PhysicalNandProofs` | `Spec => Contract` |

### Command spine

Assumptions (`SpineConstants`): at least one slot, dependencies that point to
earlier actions, ABORT programs of one action. Capacity, programs and bounds are
free, and drivers, sinks and profile answer anything. None of the properties is
inductive alone; `SpineInvariants` defines three layers that are.

- `IInv`: tickets are drawn from a counter and never shared by two slots; a
  published ticket has left its slot and is never drawn again; an occupied slot
  runs a known program; the abort relation is one to one, the bound target names
  its abort back. `SpineLifecycleProofs` shows that a step which keeps the
  identity and abort relation of every command preserves it, and treats
  admission, binding, decision and publication on their own.
- `AInv`: every command is `Sound` (an action has a terminal fact exactly from
  TERMINAL on, and is counted while a driver is known to hold it), the gates
  agree with the commands, the counters are the numbers of such slots, `owned` is
  exactly what the records say the drivers hold. A counter is exact
  only relative to the records, so both must be carried. `SpineDriveProofs` says
  how step_one changes one record, `SpineEntryProofs` how the entry points do,
  `SpineAccountProofs` that such a change moves counters and `owned` in step.
- `BondInv` (`SpineAbortProofs`): in a setting without lost answers and driver
  errors no action is in SUBMIT_UNKNOWN, a bound target is cancelled and what its
  abort does not wait for is idle and stays so, and all that a won abort waited
  for was cancelled. Without the middle part nothing keeps an action outside
  the mask from succeeding after the verdict.

### Channel workers

Assumptions (`WorkerConstants`): one to four channels, one worker or one per
channel, which is what `nfc_channel_workers.c` accepts; any number of jobs, any
span of the scan cursor, any mix of failing calls. `PoolInv` ties each thread's
place to its flags (created, acknowledged, stopped, joined), to the mutex and
condition it holds or sleeps on, and to the mailbox it executes; and the place
of the coordinator to the eventfd and to what it has already looked at. That
last part is what a lost wake-up would violate several steps before it shows.
`Rested` adds that a worker about to sleep has seen every one of its mailboxes.
It needs a cursor that visits each channel once in `C` turns, also when it
wraps, hence `CursorSpan % C = 0`; for 2^32 this is C = 1, 2 and 4. Finding 3 is
the case the theorem leaves out. The refinement maps QUEUED and RUNNING to one
state, so a worker's steps stutter until the reply.

### Physical NAND

Assumptions (`NandConstants`): at least one page to a block. Blocks, pages,
sequence and erase limits are free, and transfers and syncs may fail. `NandInv`
says for each place of the engine what is durable, what is only in the cache,
and by which regions the two differ. An image is `Good` for n when the bank of n
holds INTENT and terminal n, the other bank holds what n - 1 left, a torn record
or the pending INTENT n + 1, and every block and page decodes unless that INTENT
covers it. `Shown` is what it answers if the pending INTENT never happened. The
heart is `Crashable`: every image a crash can leave now, with each unsynced
region old, new or torn, is `Good` for some n and shows what the callers know,
or what the mutation in flight makes of it. `Recoverable` and `Contract` speak
of what recovery finds; without `Crashable` nothing relates that to the writes
still in the cache. Neighbouring sequence numbers use different banks, so a torn
log record never hides the one before it, and recovery selects n. The contract's
medium is `known`, what the reads answered when the engine was last ready: a
return is the contract's commit, an open after a crash one of its three outcomes,
every other step stutters.

## 7. What is only model-checked

- Liveness (`Progress` in every run): it needs fairness and ENABLED, which the
  prover does not support.
- `ftl`, `core`: recovery, replay and the rebuilt indexes are computed by
  recursion over journals and pages. What a recursive definition yields for
  every input takes induction over data, out of the prover's reach.
- `hub`: `HealthyNeverPoisoned` and `OneResultEach` rest on sums of credits over
  channels and entries, and the same holds for the time bounds in `Scheduled`
  (`lab`); they are folds, whose laws again need induction. `Certified`,
  `FaultsContained` and the refinement of `PageProvider` have no proof yet.
- `host`: its invariants are not proved.

These rest on the instances of sections 4 and 5. The bounds are chosen so that
the cases the properties are about occur, which the mutants confirm; for larger
instances they are evidence, not proof.

## 8. Findings and disagreements

Each of the four findings has a run that shows it.

1. `CloseDrainsAborts` (`spine_lifecycle.c:1147`): a waiting ABORT command makes
   the service scan skip the next slot for ever, so epoch close never drains.
2. `RecordsReserved` (`ftl_scale_gc.c:98`): near the end of the record numbers an
   accepted write quarantines the FTL although its records should have been
   reserved before it was accepted.
3. `SleepsOnlyWhenIdle` (`nfc_channel_workers.c:121`): a scan cursor that wraps
   at 2^32 visits one channel twice and misses another when their number does
   not divide 2^32; a worker sleeps beside a queued job.
4. `SafeVictimErase` (`c34_coordinator.c:668`): a relocation that was not
   preceded by a checkpoint erases the page a journal record still needs;
   recovery refuses the media.

Met while modelling, described here and kept out of the properties by a stated
exemption:

- Native function (`native_worker.c:532`): a close skips slots that were not
  acquired, so a command in flight stays a holder until DRAIN_ACK and an
  accepted DELETE_SQ answers EINPROGRESS until `runtime_close` gives up, where
  `kernel/m4-native/README.md:134` says reset "retains queue objects until
  holders and accepted queue operations are drained". Only a driver that deletes
  a queue with a command on it gets there ("force").
- C3.2 (`c32_model.c:1770`): `prepare_plp` gives the second atom map slot 3 of a
  group of three, so `drain_one_plp_atom` refuses and the cut fails closed, where
  ADR-0007:302 says a protected envelope "drains to C_map".
- C3.1 (`c31.c:641-668`): a provider fault during a drain that follows a faulted
  drain lets the second one be acknowledged with an operation still held.
- Spine (`spine_lifecycle.c:945`): after a lost submit answer, or an error from
  the driver's submit, an abort may be reported as won although its target's
  action succeeded.
- C3.4:
  - a cancelled program-execute does not abandon the physical binding: every
    later bind is BUSY;
  - a write cancelled, or reset before its operation started, leaves its page
    RESERVED. The next write then programs the page after it, out of order, and
    fails on healthy media (`c34_coordinator.c:494`, `c34_drive.c:471-475`);
  - a cancelled volatile write whose event is not yet taken leaves its overlay;
  - a torn victim erase leaves pages FREE that are not erased; a torn journal
    erase fails every mutation until the next checkpoint; an interrupted
    checkpoint blocks its slot;
  - a block that turns bad while it holds valid pages, or while the anchor is
    written, makes the media CORRUPT at the next recovery;
  - a REJECTED submit leaves its registry entry in use;
  - the cancel of a mutation that is done and not yet reported says CANCELLED
    with EFFECT_NONE although it is committed, and a two-atom write whose second
    atom fails says EFFECT_NONE although the first is mapped (ADR-0006:245-252).

## 9. Not modelled

- Byte layouts: codecs of the spine, C3.2, C3.3, C3.4 and NVMe, Identify pages,
  wire formats, CRC. They have no state; a model would be a transliteration.
- System-call glue: the POSIX adapters, sockets, attachment, PCI registration.
  The models say what the calls may do (torn writes, lost replies, death).
- Construction: `scale_storage.c`, `native_scaled_media.c`, `channel_volume.c`
  and most of `j0_construction.c` run once, in a straight line.
- The J0 action drivers, buffer leases and memory Host, and the spine's profile
  adapters: the spine model lets drivers and profile answer anything their ports
  allow, which includes these.
- The parts the adopted path replaced: the 1-MiB FTL (`core/m3p`), file NAND v0
  and compact NAND v1. Their hazards are the ones modelled for `ftl-scale` and
  NAND v2.
- The log under the C3.4 media: `CrashMapping` takes its commits as atomic.
- The headless C3.5 script runner and the scripts that check the repository.

## 10. Running

    cd tla
    tlc -workers 2 -config Core.cfg MCCore       # and so on, see PROJECT.json
    tlapm SpineLifecycleProofs.tla               # then SpineDriveProofs, SpineEntryProofs,
                                                 # SpineAccountProofs, SpineAbortProofs,
                                                 # SpineTheorems
    tlapm ChannelWorkersProofs.tla               # about 10 minutes
    tlapm PhysicalNandProofs.tla
