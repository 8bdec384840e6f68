------------------------- MODULE SpineAbortProofs --------------------------
(***************************************************************************)
(* The verdict of an abort over its target, for every capacity, set of     *)
(* programs and bound.  bind_target records the actions a driver had       *)
(* accepted; the others stay idle because the target is cancelled in the   *)
(* same step, so they cannot succeed behind the abort's back.              *)
(***************************************************************************)
EXTENDS SpineEntryProofs

\* A leaf is left to Zenon unless it names the SMT solver.
USE ZenonT(60)

-----------------------------------------------------------------------------
(* The inductive invariant.                                                *)

\* No submit answer is lost and no driver call fails.
Calm == ~env.lost /\ ~env.faults

\* Such drivers leave no action unknown.
NoneUnknown ==
  Calm => \A s \in Slots : \A i \in OrdinalsOf(cmd[s]) :
            cmd[s].act[i].phase # "SUBMIT_UNKNOWN"

\* A bound target has work and is cancelled, and what its abort does not wait
\* for is idle.
BondOK(ab, t) ==
  /\ t.cancel /\ OrdinalsOf(t) # {}
  /\ Calm => \A i \in OrdinalsOf(t) \ ab.mask : Idle(t.act[i])

BondsOK ==
  \A s \in Slots : (occupied(cmd[s]) /\ cmd[s].abort.bound # NoSlot) =>
     BondOK(cmd[s].abort, cmd[cmd[s].abort.bound])

\* An abort that won had bound a target, and what it waited for was cancelled.
WonOK(ab, t) == \A i \in ab.mask : t.act[i].term = "CANCELLED"

WonsOK ==
  \A s \in Slots : (occupied(cmd[s]) /\ cmd[s].abort.decision = "ABORT_WON") =>
     cmd[s].abort.bound # NoSlot /\ WonOK(cmd[s].abort, cmd[cmd[s].abort.bound])

BondInv == NoneUnknown /\ BondsOK /\ WonsOK

-----------------------------------------------------------------------------
(* What a step may do to the abort relations.                              *)

NoBond(c) == occupied(c) => c.abort.bound = NoSlot /\ c.abort.decision = "NONE"

\* Every relation is kept or new.
BondsKept ==
  \A t \in Slots : \/ NoBond(cmd'[t])
                   \/ occupied(cmd[t]) /\ SameBond(cmd[t].abort, cmd'[t].abort)

\* The relation of slot s binds or decides.
Binds(s) ==
  /\ \A t \in Slots : Still(cmd[t], cmd'[t])
  /\ \A t \in Slots \ {s} : cmd'[t].abort = cmd[t].abort
  /\ \/ SameBound(cmd[s].abort, cmd'[s].abort)
     \/ NewBond(s, cmd[s].abort, cmd'[s].abort, cmd')
  /\ Decided(cmd[s].abort, cmd'[s].abort, cmd')

BondEntry == BondsKept \/ \E s \in Slots : Binds(s)

\* A command goes to a later one unless its slot is freed or filled.
SlotEntry == \A t \in Slots : Later(cmd[t], cmd'[t]) \/ Frees(t) \/ Admits(t)

\* A later record of a command has the same actions.
LEMMA LaterOrdinals == ASSUME NEW c, NEW d, Later(c, d) PROVE OrdinalsOf(d) = OrdinalsOf(c)
  BY DEF Later, OrdinalsOf

\* Without lost answers and driver errors no step leaves an action in
\* SUBMIT_UNKNOWN.
LEMMA UnknownStep ==
  ASSUME NoneUnknown, SlotEntry, env' = env,
         \A t \in Slots : OrdinalsOf(cmd[t]) \subseteq Ordinals
  PROVE NoneUnknown'
<1> SUFFICES ASSUME ~env.lost, ~env.faults, NEW s \in Slots, NEW i \in OrdinalsOf(cmd'[s])
             PROVE  cmd'[s].act[i].phase # "SUBMIT_UNKNOWN"
  BY DEF NoneUnknown, Calm, OrdinalsOf, occupied
<1>1. CASE Later(cmd[s], cmd'[s])
  <2>1. i \in OrdinalsOf(cmd[s]) /\ i \in Ordinals
    BY <1>1, LaterOrdinals
  <2>2. ActionLater(cmd[s].act[i], cmd'[s].act[i], cmd[s].cancel)
    BY <1>1, <2>1 DEF Later
  <2> QED BY <2>1, <2>2 DEF ActionLater, NoneUnknown, Calm
<1>2. CASE Frees(s)
  BY <1>2 DEF Frees, OrdinalsOf, occupied
<1>3. CASE Admits(s)
  BY <1>3 DEF Admits, HeldOf, HeldPhases
<1> QED BY <1>1, <1>2, <1>3 DEF SlotEntry

\* A target goes on as a later one: it is neither freed nor replaced.
LEMMA TargetLater ==
  ASSUME SlotEntry, NEW t \in Slots, occupied(cmd[t]), occupied(cmd'[t])
  PROVE Later(cmd[t], cmd'[t])
<1>1. Later(cmd[t], cmd'[t]) \/ Frees(t) \/ Admits(t)
  BY DEF SlotEntry
<1> QED BY <1>1 DEF Frees, Admits, occupied

\* What holds of a bond and of a verdict holds of the same one over the target
\* a step later.
LEMMA BondLater ==
  ASSUME NEW a \in AbortRecord, NEW b, SameBound(a, b), NEW t, NEW u, Later(t, u),
         OrdinalsOf(t) \subseteq Ordinals
  PROVE /\ BondOK(a, t) => BondOK(b, u)
        /\ WonOK(a, t) => WonOK(b, u)
<1>1. OrdinalsOf(u) = OrdinalsOf(t)
  BY LaterOrdinals
<1>2. \A i \in Ordinals : ActionLater(t.act[i], u.act[i], t.cancel)
  BY DEF Later
<1>3. t.cancel => u.cancel
  BY DEF Later
<1>4. b.mask = a.mask /\ a.mask \subseteq Ordinals
  BY DEF SameBound, AbortRecord
<1>5. BondOK(a, t) => BondOK(b, u)
  BY <1>1, <1>2, <1>3, <1>4 DEF BondOK, ActionLater
<1>6. WonOK(a, t) => WonOK(b, u)
  <2> SUFFICES ASSUME WonOK(a, t), NEW i \in b.mask PROVE u.act[i].term = "CANCELLED"
    BY DEF WonOK
  <2>1. t.act[i].term = "CANCELLED" /\ i \in Ordinals
    BY <1>4 DEF WonOK
  <2> QED BY <1>2, <2>1 DEF ActionLater
<1> QED BY <1>5, <1>6

\* A relation just bound: the actions it does not wait for were not accepted,
\* and with drivers that are calm not unknown either.
LEMMA NewBondOK ==
  ASSUME NoneUnknown, NEW s \in Slots, NEW a, NEW b, NewBond(s, a, b, cmd'),
         \A t \in Slots : Still(cmd[t], cmd'[t]),
         \A t \in Slots : OrdinalsOf(cmd[t]) \subseteq Ordinals
  PROVE BondOK(b, cmd'[b.bound])
<1>1. PICK t \in Slots \ {s} :
         /\ b.bound = t /\ b.mask = {i \in OrdinalsOf(cmd[t]) : cmd[t].act[i].accepted}
         /\ OrdinalsOf(cmd[t]) # {} /\ cmd'[t].cancel
  BY DEF NewBond
<1>2. OrdinalsOf(cmd'[t]) = OrdinalsOf(cmd[t])
  BY DEF Still, OrdinalsOf, occupied
<1>3. ASSUME Calm, NEW i \in OrdinalsOf(cmd[t]) \ b.mask
      PROVE  Idle(cmd'[t].act[i])
  <2>1. ~cmd[t].act[i].accepted /\ cmd[t].act[i].phase # "SUBMIT_UNKNOWN" /\ i \in Ordinals
    BY <1>1, <1>3 DEF NoneUnknown
  <2>2. /\ cmd'[t].act[i].phase = cmd[t].act[i].phase
        /\ cmd'[t].act[i].accepted = cmd[t].act[i].accepted
    BY <2>1 DEF Still
  <2> QED BY <2>1, <2>2 DEF Idle
<1> QED BY <1>1, <1>2, <1>3 DEF BondOK

\* The invariant over the commands after the step, env being what it was.
BondsAfter ==
  \A s \in Slots : (occupied(cmd'[s]) /\ cmd'[s].abort.bound # NoSlot) =>
     BondOK(cmd'[s].abort, cmd'[cmd'[s].abort.bound])
WonsAfter ==
  \A s \in Slots : (occupied(cmd'[s]) /\ cmd'[s].abort.decision = "ABORT_WON") =>
     /\ cmd'[s].abort.bound # NoSlot
     /\ WonOK(cmd'[s].abort, cmd'[cmd'[s].abort.bound])

\* The relation of s is bound as before: bond and verdict go on.
LEMMA SameBoundStep ==
  ASSUME SlotEntry, Bound(cmd), Bound(cmd'), cmd \in [Slots -> CommandRecord],
         \A t \in Slots : OrdinalsOf(cmd[t]) \subseteq Ordinals,
         BondsOK, WonsOK, NEW s \in Slots, occupied(cmd[s]), occupied(cmd'[s]),
         SameBound(cmd[s].abort, cmd'[s].abort), cmd'[s].abort.bound # NoSlot
  PROVE /\ BondOK(cmd'[s].abort, cmd'[cmd'[s].abort.bound])
        /\ cmd[s].abort.decision = "ABORT_WON" =>
             WonOK(cmd'[s].abort, cmd'[cmd'[s].abort.bound])
<1> DEFINE t == cmd[s].abort.bound
<1>1. cmd[s].abort \in AbortRecord
  BY DEF CommandRecord
<1>2. cmd'[s].abort.bound = t /\ t # NoSlot
  BY DEF SameBound
<1>3. t \in Slots
  BY <1>1, <1>2 DEF AbortRecord
<1>4. occupied(cmd[t]) /\ occupied(cmd'[t])
  BY <1>2 DEF Bound
<1>5. Later(cmd[t], cmd'[t])
  BY <1>3, <1>4, TargetLater
<1>6. BondOK(cmd[s].abort, cmd[t])
  BY <1>2 DEF BondsOK
<1>7. cmd[s].abort.decision = "ABORT_WON" => WonOK(cmd[s].abort, cmd[t])
  BY DEF WonsOK
<1> HIDE DEF t
<1>8. /\ BondOK(cmd'[s].abort, cmd'[t])
      /\ cmd[s].abort.decision = "ABORT_WON" => WonOK(cmd'[s].abort, cmd'[t])
  BY <1>1, <1>3, <1>5, <1>6, <1>7, BondLater
<1> QED BY <1>2, <1>8

\* An abort relation a step keeps stays sound, and so does its verdict.
LEMMA KeptStep ==
  ASSUME SlotEntry, Bound(cmd), Bound(cmd'), cmd \in [Slots -> CommandRecord],
         \A t \in Slots : OrdinalsOf(cmd[t]) \subseteq Ordinals,
         BondsOK, WonsOK, NEW s \in Slots, occupied(cmd'[s]),
         \/ NoBond(cmd'[s])
         \/ occupied(cmd[s]) /\ SameBond(cmd[s].abort, cmd'[s].abort)
  PROVE /\ cmd'[s].abort.bound # NoSlot => BondOK(cmd'[s].abort, cmd'[cmd'[s].abort.bound])
        /\ cmd'[s].abort.decision = "ABORT_WON" =>
             /\ cmd'[s].abort.bound # NoSlot
             /\ WonOK(cmd'[s].abort, cmd'[cmd'[s].abort.bound])
<1>1. CASE NoBond(cmd'[s])
  BY <1>1 DEF NoBond
<1>2. CASE occupied(cmd[s]) /\ SameBond(cmd[s].abort, cmd'[s].abort)
  <2>1. SameBound(cmd[s].abort, cmd'[s].abort)
        /\ cmd'[s].abort.decision = cmd[s].abort.decision
        /\ cmd'[s].abort.bound = cmd[s].abort.bound
    BY <1>2 DEF SameBond, SameBound
  <2>2. cmd[s].abort.decision = "ABORT_WON" => cmd[s].abort.bound # NoSlot
    BY <1>2 DEF WonsOK
  <2>3. cmd'[s].abort.bound # NoSlot =>
          /\ BondOK(cmd'[s].abort, cmd'[cmd'[s].abort.bound])
          /\ cmd[s].abort.decision = "ABORT_WON" =>
               WonOK(cmd'[s].abort, cmd'[cmd'[s].abort.bound])
    BY <1>2, <2>1, SameBoundStep
  <2> QED BY <2>1, <2>2, <2>3
<1> QED BY <1>1, <1>2

\* process_abort binds a sound relation: the target is cancelled with it.
LEMMA BindsStep ==
  ASSUME SlotEntry, Bound(cmd), Bound(cmd'), cmd \in [Slots -> CommandRecord],
         \A t \in Slots : OrdinalsOf(cmd[t]) \subseteq Ordinals,
         BondInv, NEW s \in Slots, occupied(cmd'[s]), Binds(s)
  PROVE /\ cmd'[s].abort.bound # NoSlot => BondOK(cmd'[s].abort, cmd'[cmd'[s].abort.bound])
        /\ cmd'[s].abort.decision = "ABORT_WON" =>
             /\ cmd'[s].abort.bound # NoSlot
             /\ WonOK(cmd'[s].abort, cmd'[cmd'[s].abort.bound])
<1> DEFINE a == cmd[s].abort
           b == cmd'[s].abort
<1>1. /\ \A t \in Slots : Still(cmd[t], cmd'[t])
      /\ SameBound(a, b) \/ NewBond(s, a, b, cmd')
      /\ Decided(a, b, cmd')
  BY DEF Binds
<1>2. occupied(cmd[s])
  BY <1>1 DEF Still, occupied
<1>3. NoneUnknown /\ BondsOK /\ WonsOK
  BY DEF BondInv
<1>4. a.decision = "ABORT_WON" => a.bound # NoSlot
  BY <1>2, <1>3 DEF WonsOK
<1>5. SameBound(a, b) /\ b.bound # NoSlot =>
        /\ BondOK(b, cmd'[b.bound])
        /\ a.decision = "ABORT_WON" => WonOK(b, cmd'[b.bound])
  BY <1>2, <1>3, SameBoundStep
<1>6. NewBond(s, a, b, cmd') => BondOK(b, cmd'[b.bound]) /\ a.bound = NoSlot
  <2>1. NewBond(s, a, b, cmd') => BondOK(b, cmd'[b.bound])
    BY <1>1, <1>3, NewBondOK
  <2> QED BY <2>1 DEF NewBond
<1>7. b.bound # NoSlot => BondOK(b, cmd'[b.bound])
  BY <1>1, <1>5, <1>6
<1>8. ASSUME b.decision = "ABORT_WON"
      PROVE  b.bound # NoSlot /\ WonOK(b, cmd'[b.bound])
  <2>1. CASE b.decision = a.decision
    <3>1. SameBound(a, b)
      BY <1>1, <1>4, <1>6, <1>8, <2>1
    <3>2. b.bound # NoSlot
      BY <1>4, <1>8, <2>1, <3>1 DEF SameBound
    <3> QED BY <1>5, <1>8, <2>1, <3>1, <3>2
  <2>2. CASE b.bound # NoSlot /\ target_abort_won(b, cmd'[b.bound])
    BY <2>2 DEF target_abort_won, WonOK
  <2> QED BY <1>1, <1>8, <2>1, <2>2 DEF Decided
<1> QED BY <1>7, <1>8

\* One step keeps what is known of bound targets.
LEMMA BondStep ==
  ASSUME SlotEntry, BondEntry, Bound(cmd), Bound(cmd'), env' = env,
         cmd \in [Slots -> CommandRecord],
         \A t \in Slots : OrdinalsOf(cmd[t]) \subseteq Ordinals, BondInv
  PROVE BondInv'
<1>1. NoneUnknown /\ BondsOK /\ WonsOK
  BY DEF BondInv
<1>2. NoneUnknown'
  BY <1>1, UnknownStep
<1>3. BondsAfter /\ WonsAfter
  <2>1. ASSUME BondsKept PROVE BondsAfter /\ WonsAfter
    BY <1>1, <2>1, KeptStep DEF BondsKept, BondsAfter, WonsAfter
  <2>2. ASSUME NEW s \in Slots, Binds(s) PROVE BondsAfter /\ WonsAfter
    <3>1. \A t \in Slots : occupied(cmd'[t]) <=> occupied(cmd[t])
      BY <2>2 DEF Binds, Still, occupied
    <3>2. \A t \in Slots : (t # s /\ occupied(cmd'[t])) =>
             occupied(cmd[t]) /\ SameBond(cmd[t].abort, cmd'[t].abort)
      BY <2>2, <3>1 DEF Binds, SameBond
    <3>3. \A t \in Slots : (t # s /\ occupied(cmd'[t])) =>
            /\ cmd'[t].abort.bound # NoSlot => BondOK(cmd'[t].abort, cmd'[cmd'[t].abort.bound])
            /\ cmd'[t].abort.decision = "ABORT_WON" =>
                 /\ cmd'[t].abort.bound # NoSlot
                 /\ WonOK(cmd'[t].abort, cmd'[cmd'[t].abort.bound])
      BY <1>1, <3>2, KeptStep
    <3>4. occupied(cmd'[s]) =>
            /\ cmd'[s].abort.bound # NoSlot => BondOK(cmd'[s].abort, cmd'[cmd'[s].abort.bound])
            /\ cmd'[s].abort.decision = "ABORT_WON" =>
                 /\ cmd'[s].abort.bound # NoSlot
                 /\ WonOK(cmd'[s].abort, cmd'[cmd'[s].abort.bound])
      BY <2>2, BindsStep
    <3> QED BY <3>3, <3>4 DEF BondsAfter, WonsAfter
  <2> QED BY <2>1, <2>2 DEF BondEntry
<1>4. BondsOK' /\ WonsOK'
  BY <1>3 DEF BondsAfter, WonsAfter, BondsOK, WonsOK, BondOK, WonOK, Calm, occupied,
              OrdinalsOf, Idle
<1> QED BY <1>2, <1>4 DEF BondInv

-----------------------------------------------------------------------------
(* What every handler does to the abort relations.                         *)

\* Slots that do not change.
LEMMA UnchangedBonds == ASSUME cmd' = cmd PROVE BondsKept
  BY DEF BondsKept, NoBond, SameBond

\* poison_lifecycle leaves the abort relations alone.
LEMMA PoisonBonds ==
  ASSUME NEW cs \in [Slots -> CommandRecord], Poison(cs), NEW t \in Slots
  PROVE (occupied(cmd'[t]) <=> occupied(cs[t])) /\ cmd'[t].abort = cs[t].abort
<1>1. Still(cs[t], cmd'[t]) /\ cmd'[t].abort = cs[t].abort
  BY PoisonStep
<1> QED BY <1>1 DEF Still, occupied

\* The rewriting of slot s, followed by poison or not.
LEMMA TouchBonds ==
  ASSUME cmd \in [Slots -> CommandRecord], NEW s \in Slots, NEW d \in CommandRecord,
         Touch(s, d),
         \/ NoBond(d)
         \/ (occupied(d) => occupied(cmd[s])) /\ SameBond(cmd[s].abort, d.abort)
  PROVE BondsKept
<1> DEFINE cs == [cmd EXCEPT ![s] = d]
<1>1. cs \in [Slots -> CommandRecord] /\ cs[s] = d /\ \A t \in Slots : t # s => cs[t] = cmd[t]
  BY SMTT(60)
<1>2. cmd' = cs \/ Poison(cs)
  BY DEF Touch, Install
<1> HIDE DEF cs
<1>3. \A t \in Slots : (occupied(cmd'[t]) <=> occupied(cs[t])) /\ cmd'[t].abort = cs[t].abort
  BY <1>1, <1>2, PoisonBonds
<1>4. ASSUME NEW t \in Slots, occupied(cmd'[t]), t # s
      PROVE  occupied(cmd[t]) /\ SameBond(cmd[t].abort, cmd'[t].abort)
  BY <1>1, <1>3, <1>4 DEF SameBond
<1>5. \/ NoBond(cmd'[s])
      \/ occupied(cmd[s]) /\ SameBond(cmd[s].abort, cmd'[s].abort)
  BY <1>1, <1>3 DEF NoBond, SameBond
<1> QED BY <1>4, <1>5 DEF BondsKept, NoBond

\* Driving an action leaves the abort relations alone.
LEMMA DriveBonds ==
  ASSUME Fit, NEW s \in Slots, NEW i \in Ordinals, DriveAction(s, i)
  PROVE BondsKept
<1>2. PICK d : Driven(s, i, d)
  BY ActionDriven
<1>3. Touch(s, d) /\ d \in CommandRecord /\ d.abort = cmd[s].abort
      /\ (occupied(d) <=> occupied(cmd[s]))
  BY <1>2 DEF Driven, Later
<1> QED BY <1>3, TouchBonds DEF SameBond, Fit

\* Reading an abort's candidate binds nothing yet.
LEMMA ReadBonds ==
  ASSUME Fit, next_uid \in Nat, NEW s \in Slots, ReadCandidate(s)
  PROVE BondsKept
<1>1. PICK d : Touch(s, d) /\ Still(cmd[s], d) /\ SameBond(cmd[s].abort, d.abort)
  BY ReadStill DEF Fit
<1>2. d \in CommandRecord /\ (occupied(d) <=> occupied(cmd[s]))
  BY <1>1 DEF Still, occupied
<1> QED BY <1>1, <1>2, TouchBonds DEF Fit

\* finalize_command leaves the abort relations alone.
LEMMA FinalizeBonds ==
  ASSUME Fit, NEW s \in Slots, finalize_command(s)
  PROVE BondsKept
<1>1. PICK d, ph : Touch(s, d) /\ Later(cmd[s], d) /\ SameBond(cmd[s].abort, d.abort)
  BY FinalizeWrites
<1>2. d \in CommandRecord /\ (occupied(d) <=> occupied(cmd[s]))
  BY <1>1 DEF Later
<1> QED BY <1>1, <1>2, TouchBonds DEF Fit

\* process_abort binds or decides.
LEMMA AbortBinds ==
  ASSUME Fit, NEW s \in Slots, AbortDecide(s)
  PROVE Binds(s)
<1>1. /\ cmd \in [Slots -> CommandRecord]
      /\ \A t \in Slots : occupied(cmd[t]) => cmd[t].prog \in Programs
  BY DEF Fit, ProgramKnown
<1>2. PICK ds \in [Slots -> CommandRecord] :
         /\ (cmd' = ds /\ gates' = gates) \/ Poison(ds)
         /\ \A t \in Slots : Still(cmd[t], ds[t])
         /\ \A t \in Slots \ {s} : ds[t].abort = cmd[t].abort
         /\ \/ SameBound(cmd[s].abort, ds[s].abort)
            \/ NewBond(s, cmd[s].abort, ds[s].abort, ds)
         /\ Decided(cmd[s].abort, ds[s].abort, ds)
  BY <1>1, AbortStill
<1>3. \A t \in Slots : Still(ds[t], cmd'[t]) /\ cmd'[t].abort = ds[t].abort
  <2>1. CASE cmd' = ds
    BY <2>1, StillRefl
  <2>2. CASE Poison(ds)
    BY <2>2, PoisonStep
  <2> QED BY <1>2, <2>1, <2>2
<1>4. \A t \in Slots : Still(cmd[t], cmd'[t])
  BY <1>2, <1>3, StillTrans
<1>5. \A t \in Slots \ {s} : cmd'[t].abort = cmd[t].abort
  BY <1>2, <1>3
<1> DEFINE a == cmd[s].abort
           b == ds[s].abort
<1>6. cmd'[s].abort = b
  BY <1>3
<1>7. SameBound(a, b) \/ NewBond(s, a, b, cmd')
  <2>1. \A t \in Slots : ds[t].cancel => cmd'[t].cancel
    BY <1>3 DEF Still
  <2> QED BY <1>2, <2>1 DEF NewBond
<1>8. Decided(a, b, cmd')
  <2>1. ASSUME b.bound # NoSlot, target_abort_won(b, ds[b.bound])
        PROVE  target_abort_won(b, cmd'[b.bound])
    <3>1. b \in AbortRecord
      BY DEF CommandRecord
    <3>2. b.bound \in Slots
      BY <2>1, <3>1 DEF AbortRecord
    <3>3. ds[b.bound] \in CommandRecord
          /\ (occupied(ds[b.bound]) => ds[b.bound].prog \in Programs)
      BY <1>1, <1>2, <3>2 DEF Still, occupied
    <3>4. OrdinalsOf(ds[b.bound]) \subseteq Ordinals
      BY <3>3, OrdinalsIn
    <3>5. Still(ds[b.bound], cmd'[b.bound])
      BY <1>3, <3>2
    <3> HIDE DEF b
    <3> QED BY <2>1, <3>1, <3>4, <3>5, WonStill
  <2> QED BY <1>2, <2>1 DEF Decided
<1> QED BY <1>4, <1>5, <1>6, <1>7, <1>8 DEF Binds

\* A lease, a decision or a flag leaves the relation alone.
LEMMA FlagBonds ==
  ASSUME Fit, NEW s \in Slots, NEW d \in CommandRecord, Touch(s, d),
         d.phase = cmd[s].phase, d.abort = cmd[s].abort
  PROVE BondsKept
  BY TouchBonds DEF SameBond, occupied, Fit

\* publication_acquire leaves the abort relations alone.
LEMMA AcquireBonds ==
  ASSUME Fit, next_lease \in Nat, NEW s \in Slots, publication_acquire(s)
  PROVE BondsKept
<1> DEFINE d == [cmd[s] EXCEPT !.lease = next_lease]
<1>1. cmd[s] \in CommandRecord
  BY FitSlot
<1>2. d \in CommandRecord
  BY <1>1 DEF CommandRecord
<1>3. d.phase = cmd[s].phase /\ d.abort = cmd[s].abort
  BY <1>1, SMTT(60) DEF CommandRecord
<1>4. Touch(s, d)
  BY DEF Touch, Install, publication_acquire
<1> HIDE DEF d
<1> QED BY <1>2, <1>3, <1>4, FlagBonds

\* publication_finish frees a slot whose relation is over, or keeps it.
LEMMA FinishBonds ==
  ASSUME Fit, FreshTyped, NEW s \in Slots, NEW k \in {"COMMITTED", "DISCARDED"},
         publication_finish(s, k)
  PROVE BondsKept
<1> DEFINE d == [cmd[s] EXCEPT !.decision = k]
<1>1. cmd[s] \in CommandRecord
  BY FitSlot
<1>2. d \in CommandRecord
  BY <1>1 DEF CommandRecord
<1>3. d.phase = cmd[s].phase /\ d.abort = cmd[s].abort
  BY <1>1, SMTT(60) DEF CommandRecord
<1>4. Poison(cmd) \/ Touch(s, d) \/ Touch(s, FreeCommand)
  BY DEF publication_finish, Touch
<1> HIDE DEF d
<1>5. CASE Poison(cmd)
  BY <1>5, PoisonBonds DEF Fit, BondsKept, NoBond, SameBond
<1>6. CASE Touch(s, d)
  BY <1>2, <1>3, <1>6, FlagBonds
<1>7. CASE Touch(s, FreeCommand)
  <2>1. FreeCommand \in CommandRecord
    BY DEF FreshTyped
  <2>2. NoBond(FreeCommand)
    <3>1. FreeCommand.phase = "FREE"
      BY SMTT(60) DEF FreeCommand, NewCommand
    <3> QED BY <3>1 DEF NoBond, occupied
  <2> QED BY <1>7, <2>1, <2>2, TouchBonds DEF Fit
<1> QED BY <1>4, <1>5, <1>6, <1>7

\* An admitted command has no abort relation.
LEMMA AdmitBonds ==
  ASSUME Fit, FreshTyped, next_uid \in Nat, NEW p \in Programs, admit_start(p)
  PROVE BondsKept
<1>1. PICK s \in Slots : Touch(s, NewCommand(p, next_uid))
  BY DEF admit_start, Touch
<1>2. NewCommand(p, next_uid) \in CommandRecord
  BY DEF FreshTyped
<1>3. NoBond(NewCommand(p, next_uid))
  <2>1. NewCommand(p, next_uid).abort = NewAbort
    BY SMTT(60) DEF NewCommand
  <2>2. NewAbort.bound = NoSlot /\ NewAbort.decision = "NONE"
    BY SMTT(60) DEF NewAbort
  <2> QED BY <2>1, <2>2 DEF NoBond
<1> QED BY <1>1, <1>2, <1>3, TouchBonds DEF Fit

\* epoch_close_start leaves the abort relations alone.
LEMMA CloseBonds == ASSUME Fit, epoch_close_start PROVE BondsKept
<1>1. cmd' = [s \in Slots |-> IF cmd[s].phase = "ACTIVE" THEN cancel_all(cmd[s]) ELSE cmd[s]]
  BY DEF epoch_close_start
<1>2. ASSUME NEW t \in Slots
      PROVE  (occupied(cmd'[t]) => occupied(cmd[t])) /\ cmd'[t].abort = cmd[t].abort
  <2>1. Still(cmd[t], cancel_all(cmd[t])) /\ cancel_all(cmd[t]).abort = cmd[t].abort
    BY FitSlot, CancelAllStill
  <2> QED BY <1>1, <2>1 DEF Still, occupied
<1> QED BY <1>2 DEF BondsKept, NoBond, SameBond

\* fini leaves the abort relations alone.
LEMMA FiniBonds == ASSUME Fit, fini PROVE BondsKept
<1>1. CASE Poison(cmd)
  BY <1>1, PoisonBonds DEF Fit, BondsKept, NoBond, SameBond
<1>2. ASSUME NEW s \in Slots, Install(s, [cmd[s] EXCEPT !.retired = TRUE])
      PROVE  BondsKept
  <2> DEFINE d == [cmd[s] EXCEPT !.retired = TRUE]
  <2>1. cmd[s] \in CommandRecord
    BY FitSlot
  <2>2. d \in CommandRecord
    BY <2>1 DEF CommandRecord
  <2>3. d.phase = cmd[s].phase /\ d.abort = cmd[s].abort
    BY <2>1, SMTT(60) DEF CommandRecord
  <2>4. Touch(s, d)
    BY <1>2 DEF Touch
  <2> HIDE DEF d
  <2> QED BY <2>2, <2>3, <2>4, FlagBonds
<1>3. CASE cmd' = cmd
  BY <1>3, UnchangedBonds
<1> QED BY <1>1, <1>2, <1>3 DEF fini

\* step_one.
LEMMA StepBonds ==
  ASSUME Fit, next_uid \in Nat, step_one
  PROVE BondEntry
<1>1. \/ StepIdle
      \/ \E s \in Slots : StepCommand(s)
      \/ \E l \in LaneSet : process_driver_close(l)
  BY DEF step_one
<1>2. CASE StepIdle
  BY <1>2, UnchangedBonds DEF StepIdle, BondEntry
<1>3. ASSUME NEW l \in LaneSet, process_driver_close(l) PROVE BondEntry
  <2>1. cmd' = cmd \/ Poison(cmd)
    BY <1>3 DEF process_driver_close
  <2>2. CASE Poison(cmd)
    BY <2>2, PoisonBonds DEF Fit, BondEntry, BondsKept, NoBond, SameBond
  <2> QED BY <2>1, <2>2, UnchangedBonds DEF BondEntry
<1>4. ASSUME NEW s \in Slots, StepCommand(s) PROVE BondEntry
  <2>1. \/ \E i \in Ordinals : DriveAction(s, i)
        \/ ReadCandidate(s) \/ AbortDecide(s) \/ finalize_command(s)
    BY <1>4 DEF StepCommand, DriveAction
  <2> QED BY <2>1, DriveBonds, ReadBonds, AbortBinds, FinalizeBonds DEF BondEntry
<1> QED BY <1>1, <1>2, <1>3, <1>4

\* Every step keeps, binds or decides the abort relations.
LEMMA NextBonds ==
  ASSUME SpineInv, AllSound, [Next]_vars, FreshTyped
  PROVE BondEntry
<1>1. Fit
  BY DEF SpineInv, IInv, ArenaOK, Ident, Fit
<1>2. next_uid \in Nat /\ next_lease \in Nat /\ env \in Environments
  BY SMTT(60) DEF SpineInv, IInv, ArenaOK
<1>3. CASE UNCHANGED vars
  BY <1>3, UnchangedBonds DEF vars, BondEntry
<1>4. CASE step_one
  BY <1>1, <1>2, <1>4, StepBonds
<1>5. ASSUME NEW p \in env.programs, admit_start(p) PROVE BondEntry
  <2>1. p \in Programs
    BY <1>2, SpineConstants
  <2> QED BY <1>1, <1>2, <1>5, <2>1, AdmitBonds DEF BondEntry
<1>6. CASE Poison(cmd)
  BY <1>1, <1>6, PoisonBonds DEF Fit, BondEntry, BondsKept, NoBond, SameBond
<1>7. CASE epoch_close_start
  BY <1>1, <1>7, CloseBonds DEF BondEntry
<1>8. ASSUME NEW s \in Slots, publication_acquire(s) PROVE BondEntry
  BY <1>1, <1>2, <1>8, AcquireBonds DEF BondEntry
<1>9. ASSUME NEW s \in Slots, NEW k \in {"COMMITTED", "DISCARDED"}, publication_finish(s, k)
      PROVE  BondEntry
  BY <1>1, <1>9, FinishBonds DEF BondEntry
<1>10. CASE fini
  BY <1>1, <1>10, FiniBonds DEF BondEntry
<1> QED BY <1>3, <1>4, <1>5, <1>6, <1>7, <1>8, <1>9, <1>10
       DEF Next, AdmitConflict, FinishConflict, Finished

\* A fresh arena has no relation.
LEMMA InitBonds == Init => BondInv
<1> SUFFICES ASSUME Init PROVE BondInv
  OBVIOUS
<1>1. FreeCommand.phase = "FREE"
  BY SMTT(60) DEF FreeCommand, NewCommand
<1>2. \A s \in Slots : ~occupied(cmd[s]) /\ OrdinalsOf(cmd[s]) = {}
  BY <1>1 DEF Init, occupied, OrdinalsOf
<1> QED BY <1>2 DEF BondInv, NoneUnknown, BondsOK, WonsOK

\* What the invariant says of a won abort.
LEMMA WonFailed ==
  ASSUME AllSound, BondInv, cmd \in [Slots -> CommandRecord],
         \A t \in Slots : OrdinalsOf(cmd[t]) \subseteq Ordinals
  PROVE AbortWonTargetFailed
<1> SUFFICES ASSUME NEW s \in Slots, Calm, occupied(cmd[s]),
                    cmd[s].abort.decision = "ABORT_WON"
             PROVE  LET t == cmd[cmd[s].abort.bound]
                    IN /\ OrdinalsOf(t) # {}
                       /\ \A i \in OrdinalsOf(t) : t.act[i].term # "SUCCEEDED"
  BY DEF AbortWonTargetFailed, Calm
<1> DEFINE a == cmd[s].abort
           t == cmd[a.bound]
<1>1. a.bound # NoSlot /\ WonOK(a, t) /\ BondOK(a, t)
  BY DEF BondInv, BondsOK, WonsOK
<1>2. a.bound \in Slots
  BY <1>1 DEF CommandRecord, AbortRecord
<1>3. Sound(t) /\ OrdinalsOf(t) \subseteq Ordinals
  BY <1>2 DEF AllSound
<1>4. ASSUME NEW i \in OrdinalsOf(t) PROVE t.act[i].term # "SUCCEEDED"
  <2>1. CASE i \in a.mask
    BY <1>1, <2>1 DEF WonOK
  <2>2. CASE i \notin a.mask
    <3>1. ~t.act[i].accepted
      BY <1>1, <1>4, <2>2 DEF BondOK, Idle
    <3> QED BY <1>3, <1>4, <3>1 DEF Sound, ActionOK
  <2> QED BY <2>1, <2>2
<1> QED BY <1>1, <1>4 DEF BondOK

=============================================================================
