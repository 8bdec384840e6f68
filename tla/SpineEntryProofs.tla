------------------------- MODULE SpineEntryProofs --------------------------
(***************************************************************************)
(* Every handler of the lifecycle makes one of the entries in the accounts *)
(* that Entry lists, for every capacity, set of programs and bound.        *)
(***************************************************************************)
EXTENDS SpineDriveProofs

\* A leaf is left to Zenon unless it names the SMT solver.
USE ZenonT(60)

-----------------------------------------------------------------------------
(* Every handler makes such a step.                                        *)

\* What Fit says of one slot.
LEMMA FitSlot ==
  ASSUME Fit, NEW s \in Slots
  PROVE /\ cmd[s] \in CommandRecord /\ Sound(cmd[s])
        /\ occupied(cmd[s]) => cmd[s].prog \in Programs
  BY DEF Fit, ProgramKnown, AllSound

\* A command that only learns of a cancel request or of poison is the same.
LEMMA StillIsSame ==
  ASSUME Fit, NEW s \in Slots, NEW d, Still(cmd[s], d)
  PROVE Same(cmd[s], d)
  BY FitSlot, StillSame

\* A record is the same as itself.
LEMMA SelfSame == ASSUME Fit, NEW s \in Slots PROVE Same(cmd[s], cmd[s])
  BY FitSlot, StillRefl, StillSame

\* poison_lifecycle over the commands.
LEMMA PoisonSlots ==
  ASSUME NEW cs \in [Slots -> CommandRecord], NEW t \in Slots
  PROVE /\ Still(cs[t], poison_lifecycle(cs)[t])
        /\ poison_lifecycle(cs)[t].abort = cs[t].abort
        /\ poison_lifecycle(cs)[t].phase = "ACTIVE" =>
             poison_lifecycle(cs)[t].cancel /\ poison_lifecycle(cs)[t].suppress
<1> DEFINE d == [cs[t] EXCEPT !.cancel = TRUE, !.suppress = TRUE]
           e == poison_lifecycle(cs)[t]
<1>1. cs[t] \in CommandRecord
  OBVIOUS
<1>2. Still(cs[t], d) /\ d.cancel = TRUE /\ d.suppress = TRUE /\ d.abort = cs[t].abort
  BY <1>1, PoisonedStill
<1>3. (cs[t].phase = "ACTIVE" /\ e = d) \/ (cs[t].phase # "ACTIVE" /\ e = cs[t])
  BY DEF poison_lifecycle
<1>4. Still(cs[t], cs[t])
  BY <1>1, StillRefl
<1> HIDE DEF d, e
<1>5. Still(cs[t], e) /\ e.abort = cs[t].abort
  BY <1>2, <1>3, <1>4
<1>6. e.phase = "ACTIVE" => e.cancel /\ e.suppress
  BY <1>2, <1>3
<1> QED BY <1>5, <1>6 DEF e

\* poison_lifecycle closes the gates on every active command.
LEMMA PoisonStep ==
  ASSUME NEW cs \in [Slots -> CommandRecord], Poison(cs)
  PROVE /\ GatesStep
        /\ \A t \in Slots : Still(cs[t], cmd'[t]) /\ cmd'[t].abort = cs[t].abort
<1>1. cmd' = poison_lifecycle(cs) /\ poisoned' = TRUE /\ admission_closed' = TRUE
  BY DEF Poison
<1>2. \A t \in Slots : Still(cs[t], cmd'[t]) /\ cmd'[t].abort = cs[t].abort
  BY <1>1, PoisonSlots
<1>3. \A t \in Slots : cmd'[t].phase = "ACTIVE" => cmd'[t].cancel /\ cmd'[t].suppress
  BY <1>1, PoisonSlots
<1>4. poisoned' /\ admission_closed'
  BY <1>1
<1>5. GatesStep
  BY <1>3, <1>4 DEF GatesStep
<1> QED BY <1>2, <1>5

\* Gates that do not move are fine.
LEMMA GatesOpen == ASSUME GateInv, gates' = gates PROVE GatesStep
<1>1. admission_closed' = admission_closed /\ poisoned' = poisoned
  BY DEF gates
<1> QED BY <1>1, SMTT(60) DEF GatesStep, GateInv

\* Poison over the commands as they are.
LEMMA PoisonQuiet ==
  ASSUME Fit, Poison(cmd)
  PROVE GatesStep /\ \A t \in Slots : Same(cmd[t], cmd'[t])
<1>1. cmd \in [Slots -> CommandRecord]
  BY DEF Fit
<1>2. GatesStep /\ \A t \in Slots : Still(cmd[t], cmd'[t])
  BY <1>1, PoisonStep
<1> QED BY <1>2, StillIsSame

\* The rewriting of one slot, followed by poison or not.
LEMMA TouchOne ==
  ASSUME Fit, GateInv, NEW s \in Slots, NEW d \in CommandRecord, Touch(s, d)
  PROVE /\ GatesStep /\ Others(s)
        /\ Still(d, cmd'[s]) /\ cmd'[s].abort = d.abort
<1> DEFINE cs == [cmd EXCEPT ![s] = d]
<1>1. cmd \in [Slots -> CommandRecord]
  BY DEF Fit
<1>2. cs \in [Slots -> CommandRecord] /\ cs[s] = d /\ \A t \in Slots : t # s => cs[t] = cmd[t]
  BY <1>1, SMTT(60)
<1>3. (cmd' = cs /\ gates' = gates) \/ Poison(cs)
  BY DEF Touch, Install
<1> HIDE DEF cs
<1>4. CASE cmd' = cs /\ gates' = gates
  <2>1. \A t \in Slots : t # s => Same(cmd[t], cmd'[t])
    BY <1>2, <1>4, SelfSame
  <2>2. Still(d, cmd'[s]) /\ cmd'[s].abort = d.abort
    BY <1>2, <1>4, StillRefl
  <2> QED BY <1>4, <2>1, <2>2, GatesOpen DEF Others
<1>5. CASE Poison(cs)
  <2>1. GatesStep /\ \A t \in Slots : Still(cs[t], cmd'[t]) /\ cmd'[t].abort = cs[t].abort
    BY <1>2, <1>5, PoisonStep
  <2>2. \A t \in Slots : t # s => Same(cmd[t], cmd'[t])
    BY <1>2, <2>1, StillIsSame
  <2> QED BY <1>2, <2>1, <2>2 DEF Others
<1> QED BY <1>3, <1>4, <1>5

\* Going to a later record composes.
LEMMA LaterTrans ==
  ASSUME NEW c, NEW d, NEW e, Later(c, d), Later(d, e)
  PROVE Later(c, e)
<1>1. \A i \in Ordinals : ActionLater(c.act[i], e.act[i], c.cancel)
  BY DEF Later, ActionLater
<1>2. /\ (e.phase = "INTENT" /\ c.phase # "INTENT") => (c.phase = "ACTIVE" /\ ~c.suppress)
      /\ e.phase = "ACTIVE" => c.phase = "ACTIVE"
      /\ c.cancel => e.cancel
      /\ c.suppress => e.suppress
      /\ occupied(e) <=> occupied(c)
  BY DEF Later
<1>3. /\ e \in CommandRecord /\ Sound(e) /\ e.uid = c.uid /\ e.prog = c.prog
      /\ c.decision # "NONE" => e.decision = c.decision
  BY DEF Later
<1> QED BY <1>1, <1>2, <1>3 DEF Later

\* A later record, then only flags: still a later record.
LEMMA LaterStill ==
  ASSUME Fit, NEW s \in Slots, NEW d, Later(cmd[s], d), NEW e, Still(d, e)
  PROVE /\ Later(cmd[s], e) /\ e.phase = d.phase /\ e.lease = d.lease
        /\ HeldOf(e) = HeldOf(d)
<1>1. d \in CommandRecord /\ Sound(d) /\ (occupied(d) => d.prog \in Programs)
  BY FitSlot DEF Later
<1>2. Same(d, e)
  BY <1>1, StillSame
<1>3. Later(cmd[s], e)
  BY <1>2, LaterTrans DEF Same
<1> QED BY <1>2, <1>3 DEF Same

\* The seven handlers of a driver action.
DriveAction(s, i) ==
  \/ WaitDep(s, i) \/ SubmitCancelled(s, i) \/ Submit(s, i) \/ CancelAction(s, i)
  \/ action_query(s, i) \/ RetireStart(s, i) \/ RetireQuery(s, i)

\* Each of them drives its action.
LEMMA ActionDriven ==
  ASSUME Fit, NEW s \in Slots, NEW i \in Ordinals, DriveAction(s, i)
  PROVE \E d : Driven(s, i, d)
<1>0. /\ cmd[s] \in CommandRecord /\ Sound(cmd[s])
      /\ occupied(cmd[s]) => cmd[s].prog \in Programs
  BY FitSlot
<1>1. CASE WaitDep(s, i) \/ SubmitCancelled(s, i)
  BY <1>0, <1>1, WaitDriven
<1>2. CASE Submit(s, i)
  BY <1>0, <1>2, SubmitDriven
<1>3. CASE CancelAction(s, i)
  BY <1>0, <1>3, CancelDriven
<1>4. CASE action_query(s, i)
  BY <1>0, <1>4, QueryDriven
<1>5. CASE RetireStart(s, i) \/ RetireQuery(s, i)
  BY <1>0, <1>5, RetireDriven
<1> QED BY <1>1, <1>2, <1>3, <1>4, <1>5 DEF DriveAction

\* step_one driving an action (all branches of drive_action).
LEMMA DriveEntry ==
  ASSUME Fit, GateInv, NEW s \in Slots, NEW i \in Ordinals, DriveAction(s, i)
  PROVE GatesStep /\ Drives(s, i)
<1>2. PICK d : Driven(s, i, d)
  BY ActionDriven
<1>3. /\ Touch(s, d) /\ Later(cmd[s], d) /\ d.phase = cmd[s].phase
      /\ d.lease = cmd[s].lease /\ Handed(s, i, d)
  BY <1>2 DEF Driven
<1>4. d \in CommandRecord
  BY <1>3 DEF Later
<1>5. GatesStep /\ Others(s) /\ Still(d, cmd'[s])
  BY <1>3, <1>4, TouchOne
<1>6. /\ Later(cmd[s], cmd'[s]) /\ cmd'[s].phase = d.phase /\ cmd'[s].lease = d.lease
      /\ HeldOf(cmd'[s]) = HeldOf(d)
  BY <1>3, <1>5, LaterStill
<1>7. Handed(s, i, cmd'[s])
  BY <1>3, <1>6 DEF Handed
<1>8. cmd[s].phase = "ACTIVE" /\ i \in OrdinalsOf(cmd[s])
  BY DEF DriveAction, WaitDep, SubmitCancelled, Submit, CancelAction, action_query,
         RetireStart, RetireQuery, AtAction
<1>9. CountersSame
  <2>1. StepRest
    BY DEF DriveAction, WaitDep, SubmitCancelled, Submit, CancelAction, action_query,
           RetireStart, RetireQuery
  <2> QED BY <2>1 DEF StepRest, counters, CountersSame
<1> QED BY <1>3, <1>5, <1>6, <1>7, <1>8, <1>9 DEF Drives

\* process_abort's reading and deciding.
LEMMA ReadEntry ==
  ASSUME Fit, GateInv, next_uid \in Nat, NEW s \in Slots, ReadCandidate(s)
  PROVE GatesStep /\ Quiet
<1>1. cmd \in [Slots -> CommandRecord]
  BY DEF Fit
<1>2. PICK d : Touch(s, d) /\ Still(cmd[s], d)
  BY <1>1, ReadStill
<1>3. d \in CommandRecord
  BY <1>2 DEF Still
<1>4. GatesStep /\ Others(s) /\ Still(d, cmd'[s])
  BY <1>2, <1>3, TouchOne
<1>5. Still(cmd[s], cmd'[s])
  BY <1>2, <1>4, StillTrans
<1>6. Same(cmd[s], cmd'[s])
  BY <1>5, StillIsSame
<1>7. CountersSame /\ owned' = owned
  BY DEF ReadCandidate, StepRest, counters, CountersSame
<1> QED BY <1>4, <1>6, <1>7 DEF Quiet, Others

\* The decision of process_abort.
LEMMA AbortEntry ==
  ASSUME Fit, GateInv, NEW s \in Slots, AbortDecide(s)
  PROVE GatesStep /\ Quiet
<1>1. /\ cmd \in [Slots -> CommandRecord]
      /\ \A t \in Slots : occupied(cmd[t]) => cmd[t].prog \in Programs
  BY DEF Fit, ProgramKnown
<1>2. PICK ds \in [Slots -> CommandRecord] :
          /\ (cmd' = ds /\ gates' = gates) \/ Poison(ds)
          /\ \A t \in Slots : Still(cmd[t], ds[t])
  BY <1>1, AbortStill
<1>3. CountersSame /\ owned' = owned
  BY DEF AbortDecide, StepRest, counters, CountersSame
<1>4. CASE cmd' = ds /\ gates' = gates
  <2>1. \A t \in Slots : Same(cmd[t], cmd'[t])
    BY <1>2, <1>4, StillIsSame
  <2> QED BY <1>3, <1>4, <2>1, GatesOpen DEF Quiet
<1>5. CASE Poison(ds)
  <2>1. GatesStep /\ \A t \in Slots : Still(ds[t], cmd'[t])
    BY <1>5, PoisonStep
  <2>2. \A t \in Slots : Still(cmd[t], cmd'[t])
    BY <1>2, <2>1, StillTrans
  <2>3. \A t \in Slots : Same(cmd[t], cmd'[t])
    BY <2>2, StillIsSame
  <2> QED BY <1>3, <2>1, <2>3 DEF Quiet
<1> QED BY <1>2, <1>4, <1>5

\* The command finalize_command ends, in phase ph.
InPhase(c, ph) == [c EXCEPT !.phase = ph]

\* A new phase for a command.
LEMMA PhaseOf ==
  ASSUME NEW c \in CommandRecord, NEW ph \in CommandPhases
  PROVE LET d == InPhase(c, ph)
        IN /\ d \in CommandRecord /\ d.phase = ph
           /\ d.uid = c.uid /\ d.prog = c.prog /\ d.lease = c.lease
           /\ d.decision = c.decision /\ d.cancel = c.cancel /\ d.suppress = c.suppress
           /\ d.act = c.act /\ d.abort = c.abort
<1>1. InPhase(c, ph) \in CommandRecord
  BY DEF InPhase, CommandRecord
<1> QED BY <1>1, SMTT(60) DEF InPhase, CommandRecord

\* An active command without a lease that ends.
LEMMA EndLater ==
  ASSUME Fit, NEW s \in Slots, cmd[s].phase = "ACTIVE", NEW c, Still(cmd[s], c),
         NEW ph \in {"QUARANTINED", "INTENT"}, ph = "INTENT" => ~c.suppress
  PROVE /\ Later(cmd[s], InPhase(c, ph)) /\ InPhase(c, ph).phase = ph
        /\ InPhase(c, ph).lease = cmd[s].lease /\ InPhase(c, ph).abort = c.abort
        /\ InPhase(c, ph) \in CommandRecord
<1> DEFINE d == InPhase(c, ph)
<1>1. /\ c \in CommandRecord /\ c.phase = "ACTIVE" /\ c.uid = cmd[s].uid
      /\ c.prog = cmd[s].prog /\ c.lease = cmd[s].lease /\ c.decision = cmd[s].decision
      /\ cmd[s].cancel => c.cancel
      /\ cmd[s].suppress => c.suppress
  BY DEF Still
<1>2. ph \in CommandPhases
  BY DEF CommandPhases
<1>3. /\ d \in CommandRecord /\ d.phase = ph
      /\ d.uid = c.uid /\ d.prog = c.prog /\ d.lease = c.lease
      /\ d.decision = c.decision /\ d.cancel = c.cancel /\ d.suppress = c.suppress
      /\ d.act = c.act /\ d.abort = c.abort
  BY <1>1, <1>2, PhaseOf
<1> HIDE DEF d
<1>4. Same(cmd[s], c)
  BY StillIsSame
<1>5. Sound(c) /\ \A i \in Ordinals : ActionLater(cmd[s].act[i], c.act[i], cmd[s].cancel)
  BY <1>4 DEF Same, Later
<1>6. c.lease = 0 /\ c.decision = "NONE"
  BY <1>1, <1>5 DEF Sound
<1>7. Sound(d)
  BY <1>3, <1>5, <1>6 DEF Sound
<1>8. /\ d.uid = cmd[s].uid /\ d.prog = cmd[s].prog /\ d.decision = cmd[s].decision
      /\ occupied(d) /\ occupied(cmd[s]) /\ d.phase # "ACTIVE"
      /\ cmd[s].cancel => d.cancel
      /\ cmd[s].suppress => d.suppress
      /\ d.phase = "INTENT" => ~cmd[s].suppress
      /\ \A i \in Ordinals : ActionLater(cmd[s].act[i], d.act[i], cmd[s].cancel)
  BY <1>1, <1>3, <1>5, SMTT(60) DEF occupied
<1>9. Later(cmd[s], d)
  BY <1>3, <1>7, <1>8 DEF Later
<1> QED BY <1>1, <1>3, <1>9 DEF d

\* The branches of process_abort that make no call.
LEMMA SettledStill ==
  ASSUME NEW c \in CommandRecord
  PROVE Still(c, abort_settled(c)) /\ SameBond(c.abort, abort_settled(c).abort)
<1> DEFINE left == [c.abort EXCEPT !.end = "ABANDONED", !.report = "NONE"]
           late == [c.abort EXCEPT !.end = "SUPERSEDED"]
<1>1. c.abort \in AbortRecord /\ c.suppress \in BOOLEAN
  BY DEF CommandRecord
<1>2. \/ abort_settled(c) = c
      \/ abort_settled(c) = Related(c, left, c.suppress)
      \/ abort_settled(c) = Related(c, late, TRUE)
  <2>1. [c EXCEPT !.abort.end = "ABANDONED", !.abort.report = "NONE"]
          = Related(c, left, c.suppress)
    BY <1>1 DEF CommandRecord, AbortRecord, Related
  <2>2. [c EXCEPT !.abort.end = "SUPERSEDED", !.suppress = TRUE] = Related(c, late, TRUE)
    BY <1>1 DEF CommandRecord, Related
  <2> QED BY <2>1, <2>2 DEF abort_settled
<1>3. /\ left \in AbortRecord /\ SameBond(c.abort, left)
      /\ late \in AbortRecord /\ SameBond(c.abort, late)
  <2>1. left \in AbortRecord /\ late \in AbortRecord
    BY <1>1 DEF AbortRecord
  <2>2. SameBond(c.abort, left) /\ SameBond(c.abort, late)
    BY <1>1, SMTT(60) DEF AbortRecord, SameBond
  <2> QED BY <2>1, <2>2
<1> HIDE DEF left, late
<1>4. /\ Still(c, Related(c, left, c.suppress)) /\ Related(c, left, c.suppress).abort = left
      /\ Still(c, Related(c, late, TRUE)) /\ Related(c, late, TRUE).abort = late
  BY <1>1, <1>3, RelatedStill
<1>5. Still(c, c) /\ SameBond(c.abort, c.abort)
  BY StillRefl DEF SameBond
<1> QED BY <1>2, <1>3, <1>4, <1>5

\* finalize_command writes the ended command to its slot, and may then poison.
LEMMA FinalizeWrites ==
  ASSUME Fit, NEW s \in Slots, finalize_command(s)
  PROVE \E d, ph : /\ Touch(s, d) /\ Later(cmd[s], d) /\ d.phase = ph
                   /\ ph \in {"QUARANTINED", "INTENT"}
                   /\ d.lease = cmd[s].lease /\ SameBond(cmd[s].abort, d.abort)
                   /\ retained_intents' = IF ph = "INTENT" THEN retained_intents + 1
                                                           ELSE retained_intents
<1> DEFINE p == propagate_cancel(cmd[s])
           c == abort_settled(p)
<1>0. cmd[s] \in CommandRecord /\ cmd[s].phase = "ACTIVE"
  BY FitSlot DEF finalize_command
<1>1. Still(cmd[s], p) /\ p.abort = cmd[s].abort /\ p \in CommandRecord
  BY <1>0, PropagateStill DEF Still
<1>2. \/ Touch(s, InPhase(c, "QUARANTINED")) /\ retained_intents' = retained_intents
      \/ /\ ~c.suppress /\ Touch(s, InPhase(c, "INTENT"))
         /\ retained_intents' = retained_intents + 1
  BY DEF finalize_command, Touch, InPhase
<1> HIDE DEF p
<1>3. Still(p, c) /\ SameBond(p.abort, c.abort)
  BY <1>1, SettledStill
<1> HIDE DEF c
<1>4. Still(cmd[s], c) /\ SameBond(cmd[s].abort, c.abort)
  BY <1>1, <1>3, StillTrans
<1>5. CASE Touch(s, InPhase(c, "QUARANTINED")) /\ retained_intents' = retained_intents
  <2> DEFINE d == InPhase(c, "QUARANTINED")
  <2>1. Later(cmd[s], d) /\ d.phase = "QUARANTINED" /\ d.lease = cmd[s].lease /\ d.abort = c.abort
    BY <1>0, <1>4, EndLater
  <2>2. Touch(s, d)
    BY <1>5
  <2> HIDE DEF d
  <2> QED BY <1>4, <1>5, <2>1, <2>2
<1>6. CASE /\ ~c.suppress /\ Touch(s, InPhase(c, "INTENT"))
           /\ retained_intents' = retained_intents + 1
  <2> DEFINE d == InPhase(c, "INTENT")
  <2>1. Later(cmd[s], d) /\ d.phase = "INTENT" /\ d.lease = cmd[s].lease /\ d.abort = c.abort
    BY <1>0, <1>4, <1>6, EndLater
  <2>2. Touch(s, d)
    BY <1>6
  <2> HIDE DEF d
  <2> QED BY <1>4, <1>6, <2>1, <2>2
<1> QED BY <1>2, <1>5, <1>6

\* finalize_command ends an active command.
LEMMA FinalizeEntry ==
  ASSUME Fit, GateInv, NEW s \in Slots, finalize_command(s)
  PROVE GatesStep /\ Ends(s)
<1>1. PICK d, ph : /\ Touch(s, d) /\ Later(cmd[s], d) /\ d.phase = ph
                   /\ ph \in {"QUARANTINED", "INTENT"}
                   /\ d.lease = cmd[s].lease
                   /\ retained_intents' = IF ph = "INTENT" THEN retained_intents + 1
                                                           ELSE retained_intents
  BY FinalizeWrites
<1>2. d \in CommandRecord
  BY <1>1 DEF Later
<1>3. GatesStep /\ Others(s) /\ Still(d, cmd'[s])
  BY <1>1, <1>2, TouchOne
<1>4. Later(cmd[s], cmd'[s]) /\ cmd'[s].phase = ph /\ cmd'[s].lease = cmd[s].lease
  BY <1>1, <1>3, LaterStill
<1>5. /\ cmd[s].phase = "ACTIVE" /\ all_actions_drained(cmd[s])
      /\ completion_leases' = completion_leases /\ owned' = owned
      /\ active_commands' = active_after(cmd[s])
  BY DEF finalize_command, active_after
<1> QED BY <1>1, <1>3, <1>4, <1>5 DEF Ends

\* The entry points that only poison, and epoch close.
LEMMA PoisonEntry ==
  ASSUME Fit, Poison(cmd), CountersSame, owned' = owned
  PROVE GatesStep /\ Quiet
  BY PoisonQuiet DEF Quiet

\* A step that changes no command.
LEMMA UnchangedEntry ==
  ASSUME Fit, GateInv, cmd' = cmd, gates' = gates, CountersSame, owned' = owned
  PROVE GatesStep /\ Quiet
<1>1. \A t \in Slots : Same(cmd[t], cmd'[t])
  BY SelfSame
<1> QED BY <1>1, GatesOpen DEF Quiet

\* process_driver_close changes no command.
LEMMA DriverCloseEntry ==
  ASSUME Fit, GateInv, NEW l \in LaneSet, process_driver_close(l)
  PROVE GatesStep /\ Quiet
<1>1. (cmd' = cmd /\ gates' = gates) \/ Poison(cmd)
  BY DEF process_driver_close
<1>2. CountersSame /\ owned' = owned
  BY DEF process_driver_close, counters, CountersSame
<1> QED BY <1>1, <1>2, PoisonEntry, UnchangedEntry

\* epoch_close_start closes admission on every active command.
LEMMA CloseEntry ==
  ASSUME Fit, GateInv, epoch_close_start
  PROVE GatesStep /\ Quiet
<1>1. /\ admission_closed' = TRUE /\ poisoned' = poisoned
      /\ cmd' = [s \in Slots |-> IF cmd[s].phase = "ACTIVE" THEN cancel_all(cmd[s]) ELSE cmd[s]]
  BY DEF epoch_close_start
<1>2. CountersSame /\ owned' = owned
  BY DEF epoch_close_start, counters, CountersSame
<1>3. ASSUME NEW t \in Slots
      PROVE  Still(cmd[t], cmd'[t]) /\ (cmd'[t].phase = "ACTIVE" => cmd'[t].cancel)
  <2>1. cmd[t] \in CommandRecord
    BY FitSlot
  <2>2. CASE cmd[t].phase = "ACTIVE"
    <3>1. cmd'[t] = cancel_all(cmd[t])
      BY <1>1, <2>2
    <3>2. Still(cmd[t], cancel_all(cmd[t])) /\ cancel_all(cmd[t]).cancel = TRUE
      BY <2>1, CancelAllStill
    <3> QED BY <3>1, <3>2
  <2>3. CASE cmd[t].phase # "ACTIVE"
    <3>1. cmd'[t] = cmd[t]
      BY <1>1, <2>3
    <3> QED BY <2>1, <2>3, <3>1, StillRefl
  <2> QED BY <2>2, <2>3
<1>4. \A t \in Slots : Same(cmd[t], cmd'[t])
  BY <1>3, StillIsSame
<1>5. GatesStep
  BY <1>1, <1>3 DEF GatesStep
<1> QED BY <1>2, <1>4, <1>5 DEF Quiet

\* fini retires one command at a time, then returns the arena.
LEMMA FiniEntry ==
  ASSUME Fit, GateInv, fini,
         active_commands = 0 => \A t \in Slots : cmd[t].phase # "ACTIVE"
  PROVE GatesStep /\ Quiet /\ AliveStep
<1>1. CountersSame /\ owned' = owned
  BY DEF fini, counters, CountersSame
<1>2. CASE Poison(cmd) /\ UNCHANGED alive
  BY <1>1, <1>2, PoisonEntry DEF AliveStep
<1>3. ASSUME NEW s \in Slots, Install(s, [cmd[s] EXCEPT !.retired = TRUE]), UNCHANGED alive
      PROVE  GatesStep /\ Quiet /\ AliveStep
  <2> DEFINE d == [cmd[s] EXCEPT !.retired = TRUE]
  <2>1. cmd[s] \in CommandRecord
    BY FitSlot
  <2>2. d \in CommandRecord
    BY <2>1 DEF CommandRecord
  <2>3. /\ d.phase = cmd[s].phase /\ d.uid = cmd[s].uid /\ d.prog = cmd[s].prog
        /\ d.lease = cmd[s].lease /\ d.decision = cmd[s].decision
        /\ d.cancel = cmd[s].cancel /\ d.suppress = cmd[s].suppress /\ d.act = cmd[s].act
    BY <2>1, SMTT(60) DEF CommandRecord
  <2>4. Touch(s, d)
    BY <1>3 DEF Touch
  <2> HIDE DEF d
  <2>5. Still(cmd[s], d)
    BY <2>1, <2>2, <2>3, FlagsStill
  <2>6. GatesStep /\ Others(s) /\ Still(d, cmd'[s])
    BY <2>2, <2>4, TouchOne
  <2>7. Still(cmd[s], cmd'[s])
    BY <2>5, <2>6, StillTrans
  <2>8. Same(cmd[s], cmd'[s])
    BY <2>7, StillIsSame
  <2> QED BY <1>1, <1>3, <2>6, <2>8 DEF Quiet, Others, AliveStep
<1>4. CASE alive /\ cmd' = cmd /\ gates' = gates /\ active_commands = 0
  <2>2. \A t \in Slots : cmd'[t].phase # "ACTIVE"
    BY <1>4
  <2> QED BY <1>1, <1>4, <2>2, UnchangedEntry DEF AliveStep
<1> QED BY <1>2, <1>3, <1>4 DEF fini, effectful_quiescent

\* A lease or a decision on an intent only carries the command on.
LEMMA PublishedLater ==
  ASSUME Fit, NEW s \in Slots, cmd[s].phase = "INTENT", NEW d \in CommandRecord,
         d.phase = "INTENT", d.uid = cmd[s].uid, d.prog = cmd[s].prog,
         cmd[s].decision # "NONE" => d.decision = cmd[s].decision,
         d.cancel = cmd[s].cancel, d.suppress = cmd[s].suppress, d.act = cmd[s].act
  PROVE Later(cmd[s], d)
<1>1. cmd[s] \in CommandRecord /\ Sound(cmd[s])
  BY FitSlot
<1>2. Sound(d)
  BY <1>1 DEF Sound
<1>3. \A i \in Ordinals : ActionLater(cmd[s].act[i], d.act[i], cmd[s].cancel)
  BY DEF ActionLater
<1> QED BY <1>2, <1>3 DEF Later, occupied

\* publication_acquire leases one intent.
LEMMA AcquireEntry ==
  ASSUME Fit, GateInv, next_lease \in Nat \ {0}, NEW s \in Slots, publication_acquire(s)
  PROVE GatesStep /\ Leases(s)
<1> DEFINE d == [cmd[s] EXCEPT !.lease = next_lease]
<1>0. cmd[s] \in CommandRecord
  BY FitSlot
<1>1. /\ cmd[s].phase = "INTENT" /\ cmd[s].lease = 0 /\ cmd[s].decision = "NONE"
      /\ gates' = gates /\ active_commands' = active_commands
      /\ retained_intents' = retained_intents
      /\ completion_leases' = completion_leases + 1 /\ owned' = owned
  BY DEF publication_acquire
<1>2. Touch(s, d)
  BY <1>1 DEF Touch, Install, publication_acquire
<1>3. d \in CommandRecord /\ Later(cmd[s], d) /\ d.phase = "INTENT" /\ d.lease = next_lease
  <2>1. d \in CommandRecord
    BY <1>0 DEF CommandRecord
  <2>2. /\ d.phase = cmd[s].phase /\ d.uid = cmd[s].uid /\ d.prog = cmd[s].prog
        /\ d.decision = cmd[s].decision /\ d.cancel = cmd[s].cancel
        /\ d.suppress = cmd[s].suppress /\ d.act = cmd[s].act /\ d.lease = next_lease
    BY <1>0, SMTT(60) DEF CommandRecord
  <2> HIDE DEF d
  <2> QED BY <1>1, <2>1, <2>2, PublishedLater
<1> HIDE DEF d
<1>4. GatesStep /\ Others(s) /\ Still(d, cmd'[s])
  BY <1>2, <1>3, TouchOne
<1>5. Later(cmd[s], cmd'[s]) /\ cmd'[s].phase = "INTENT" /\ cmd'[s].lease = next_lease
  BY <1>3, <1>4, LaterStill
<1> QED BY <1>1, <1>4, <1>5 DEF Leases

\* finish records the decision, or poisons, or frees the slot.
LEMMA FinishEntry ==
  ASSUME Fit, GateInv, FreshTyped, NEW s \in Slots, NEW k \in {"COMMITTED", "DISCARDED"},
         publication_finish(s, k)
  PROVE GatesStep /\ (Quiet \/ Frees(s))
<1> DEFINE d == [cmd[s] EXCEPT !.decision = k]
<1>0. cmd[s] \in CommandRecord /\ cmd[s].lease \in Nat
  BY FitSlot DEF CommandRecord
<1>1. /\ cmd[s].phase = "INTENT" /\ cmd[s].lease # 0
      /\ active_commands' = active_commands /\ owned' = owned
  BY DEF publication_finish
<1>2. d \in CommandRecord /\ d.decision = k
      /\ d.phase = cmd[s].phase /\ d.uid = cmd[s].uid /\ d.prog = cmd[s].prog
      /\ d.cancel = cmd[s].cancel /\ d.suppress = cmd[s].suppress
      /\ d.act = cmd[s].act /\ d.lease = cmd[s].lease
  <2>1. d \in CommandRecord
    BY <1>0 DEF CommandRecord
  <2> QED BY <1>0, <2>1, SMTT(60) DEF CommandRecord
<1>3. \/ Poison(cmd) /\ CountersSame
      \/ ~conflicting(cmd[s], k) /\ Touch(s, d) /\ CountersSame
      \/ /\ ~conflicting(cmd[s], k) /\ Touch(s, FreeCommand)
         /\ completion_leases' = completion_leases - 1
         /\ retained_intents' = retained_intents - 1
         /\ <<cmd[s].uid, k>> \in published'
  BY <1>1 DEF publication_finish, Touch, Install, CountersSame
<1>4. CASE Poison(cmd) /\ CountersSame
  BY <1>1, <1>4, PoisonEntry
<1>5. CASE ~conflicting(cmd[s], k) /\ Touch(s, d) /\ CountersSame
  <2>1. cmd[s].decision # "NONE" => k = cmd[s].decision
    BY <1>5 DEF conflicting
  <2>2. d \in CommandRecord /\ Later(cmd[s], d) /\ d.phase = "INTENT" /\ d.lease = cmd[s].lease
    <3> HIDE DEF d
    <3> QED BY <1>1, <1>2, <2>1, PublishedLater
  <2> HIDE DEF d
  <2>3. GatesStep /\ Others(s) /\ Still(d, cmd'[s])
    BY <1>5, <2>2, TouchOne
  <2>4. Later(cmd[s], cmd'[s]) /\ cmd'[s].phase = "INTENT" /\ cmd'[s].lease = cmd[s].lease
    BY <2>2, <2>3, LaterStill
  <2>5. HeldOf(cmd'[s]) = HeldOf(cmd[s])
    BY <1>1, <2>4 DEF HeldOf
  <2>6. Same(cmd[s], cmd'[s])
    BY <1>1, <2>4, <2>5 DEF Same
  <2> QED BY <1>1, <1>5, <2>3, <2>6 DEF Quiet, Others
<1>6. CASE /\ ~conflicting(cmd[s], k) /\ Touch(s, FreeCommand)
           /\ completion_leases' = completion_leases - 1
           /\ retained_intents' = retained_intents - 1
           /\ <<cmd[s].uid, k>> \in published'
  <2>1. cmd[s].decision \in {"NONE", k}
    BY <1>6 DEF conflicting
  <2>2. FreeCommand \in CommandRecord
    BY DEF FreshTyped
  <2>3. /\ FreeCommand.phase = "FREE" /\ FreeCommand.lease = 0 /\ FreeCommand.uid = 0
        /\ FreeCommand.decision = "NONE"
        /\ FreeCommand.act = [i \in Ordinals |-> NewAction]
    BY SMTT(60) DEF FreeCommand, NewCommand
  <2>4. Sound(FreeCommand)
    BY <2>3, SMTT(60) DEF Sound, ActionOK, NewAction, Undecided
  <2>5. GatesStep /\ Others(s) /\ Still(FreeCommand, cmd'[s])
    BY <1>6, <2>2, TouchOne
  <2>6. /\ cmd'[s].phase = "FREE" /\ cmd'[s].lease = 0 /\ cmd'[s].uid = 0
    BY <2>3, <2>5 DEF Still
  <2>7. ~occupied(FreeCommand)
    BY <2>3 DEF occupied
  <2>8. Sound(cmd'[s])
    BY <2>2, <2>4, <2>5, <2>7, StillSame DEF Same, Later
  <2>9. Frees(s)
    <3>1. \E e \in {"COMMITTED", "DISCARDED"} :
             cmd[s].decision \in {"NONE", e} /\ <<cmd[s].uid, e>> \in published'
      <4>1. cmd[s].decision \in {"NONE", k} /\ <<cmd[s].uid, k>> \in published'
        BY <1>6, <2>1
      <4> QED BY <4>1
    <3> QED BY <1>1, <1>6, <2>5, <2>6, <2>8, <3>1 DEF Frees
  <2> QED BY <2>5, <2>9
<1> QED BY <1>3, <1>4, <1>5, <1>6

\* admit_start fills a free slot with a fresh command.
LEMMA AdmitEntry ==
  ASSUME Fit, GateInv, FreshTyped, next_uid \in Nat, NEW p \in Programs, admit_start(p)
  PROVE GatesStep /\ \E s \in Slots : Admits(s)
<1>1. /\ alive /\ ~admission_closed /\ active_commands' = active_commands + 1
      /\ retained_intents' = retained_intents
      /\ completion_leases' = completion_leases /\ owned' = owned
  BY DEF admit_start
<1>2. PICK s \in Slots : ~occupied(cmd[s]) /\ Install(s, NewCommand(p, next_uid))
  BY DEF admit_start
<1> DEFINE d == NewCommand(p, next_uid)
<1>3. d \in CommandRecord
  BY DEF FreshTyped
<1>4. /\ d.phase = "ACTIVE" /\ d.lease = 0 /\ d.decision = "NONE"
      /\ ~d.suppress /\ ~d.cancel /\ d.prog = p
      /\ d.act = [i \in Ordinals |-> NewAction]
  BY SMTT(60) DEF NewCommand
<1> HIDE DEF d
<1>5. gates' = gates /\ cmd' = [cmd EXCEPT ![s] = d]
  BY <1>2 DEF Install, d
<1>6. cmd'[s] = d /\ \A t \in Slots : t # s => cmd'[t] = cmd[t]
  BY <1>5 DEF Fit
<1>7. Others(s)
  BY <1>6, SelfSame DEF Others
<1>8. GatesStep
  <2>1. admission_closed' = admission_closed /\ poisoned' = poisoned
    BY <1>5 DEF gates
  <2> QED BY <1>1, <1>5, <2>1, GatesOpen
<1>9. Sound(d) /\ HeldOf(d) = {}
  <2>1. \A i \in Ordinals : /\ d.act[i].phase = "WAIT_DEP" /\ d.act[i].term = "NONE"
                            /\ ~d.act[i].accepted /\ ~d.act[i].cancel /\ ~d.act[i].acked
    BY <1>4, SMTT(60) DEF NewAction
  <2>2. Sound(d)
    BY <1>4, <2>1 DEF Sound, ActionOK, Undecided
  <2>3. HeldOf(d) = {}
    <3>1. OrdinalsOf(d) \subseteq Ordinals
      BY <1>3, <1>4, OrdinalsIn
    <3> QED BY <2>1, <3>1 DEF HeldOf, HeldPhases
  <2> QED BY <2>2, <2>3
<1>10. ~admission_closed'
  <2>1. admission_closed' = admission_closed
    BY <1>5 DEF gates
  <2> QED BY <1>1, <2>1
<1> QED BY <1>1, <1>2, <1>4, <1>6, <1>7, <1>8, <1>9, <1>10 DEF Admits

-----------------------------------------------------------------------------
(* Every step of the lifecycle is one of these.                            *)

\* step_one serves a command, closes a lane or finds nothing to do.
LEMMA StepEntry ==
  ASSUME Fit, GateInv, next_uid \in Nat, step_one
  PROVE GatesStep /\ Entry /\ AliveStep
<1>1. \/ StepIdle
      \/ \E s \in Slots : StepCommand(s)
      \/ \E l \in LaneSet : process_driver_close(l)
  BY DEF step_one
<1>2. CASE StepIdle
  <2>1. cmd' = cmd /\ gates' = gates /\ CountersSame /\ owned' = owned /\ alive' = alive
    BY <1>2 DEF StepIdle, counters, CountersSame
  <2> QED BY <2>1, UnchangedEntry DEF Entry, AliveStep
<1>3. ASSUME NEW l \in LaneSet, process_driver_close(l)
      PROVE  GatesStep /\ Entry /\ AliveStep
  <2>1. alive' = alive
    BY <1>3 DEF process_driver_close
  <2> QED BY <1>3, <2>1, DriverCloseEntry DEF Entry, AliveStep
<1>4. ASSUME NEW s \in Slots, StepCommand(s)
      PROVE  GatesStep /\ Entry /\ AliveStep
  <2>1. \/ \E i \in Ordinals : DriveAction(s, i)
        \/ ReadCandidate(s) \/ AbortDecide(s) \/ finalize_command(s)
    BY <1>4 DEF StepCommand, DriveAction
  <2>2. ASSUME NEW i \in Ordinals, DriveAction(s, i)
        PROVE  GatesStep /\ Entry /\ AliveStep
    <3>1. StepRest
      <4>1. CASE WaitDep(s, i) \/ SubmitCancelled(s, i)
        BY <4>1 DEF WaitDep, SubmitCancelled
      <4>2. CASE Submit(s, i)
        BY <4>2 DEF Submit
      <4>3. CASE CancelAction(s, i)
        BY <4>3 DEF CancelAction
      <4>4. CASE action_query(s, i)
        BY <4>4 DEF action_query
      <4>5. CASE RetireStart(s, i) \/ RetireQuery(s, i)
        BY <4>5 DEF RetireStart, RetireQuery
      <4> QED BY <2>2, <4>1, <4>2, <4>3, <4>4, <4>5 DEF DriveAction
    <3> QED BY <2>2, <3>1, DriveEntry DEF Entry, AliveStep, StepRest
  <2>3. CASE ReadCandidate(s)
    <3>1. alive' = alive
      BY <2>3 DEF ReadCandidate, StepRest
    <3> QED BY <2>3, <3>1, ReadEntry DEF Entry, AliveStep
  <2>4. CASE AbortDecide(s)
    <3>1. alive' = alive
      BY <2>4 DEF AbortDecide, StepRest
    <3> QED BY <2>4, <3>1, AbortEntry DEF Entry, AliveStep
  <2>5. CASE finalize_command(s)
    <3>1. alive' = alive
      BY <2>5 DEF finalize_command
    <3> QED BY <2>5, <3>1, FinalizeEntry DEF Entry, AliveStep
  <2> QED BY <2>1, <2>2, <2>3, <2>4, <2>5
<1> QED BY <1>1, <1>2, <1>3, <1>4

\* Every step is one of the kinds the accounts know.
LEMMA NextEntry ==
  ASSUME SpineInv, AllSound, GateInv, [Next]_vars, FreshTyped,
         active_commands = 0 => \A t \in Slots : cmd[t].phase # "ACTIVE"
  PROVE GatesStep /\ Entry /\ AliveStep
<1>1. Fit
  BY DEF SpineInv, IInv, ArenaOK, Ident, Fit
<1>2. next_uid \in Nat /\ next_lease \in Nat \ {0} /\ env \in Environments
  BY SMTT(60) DEF SpineInv, IInv, ArenaOK
<1>3. ASSUME cmd' = cmd, gates' = gates, counters' = counters, owned' = owned, alive' = alive
      PROVE  GatesStep /\ Entry /\ AliveStep
  BY <1>1, <1>3, UnchangedEntry DEF counters, CountersSame, Entry, AliveStep
<1>4. ASSUME Poison(cmd), counters' = counters, owned' = owned, alive' = alive
      PROVE  GatesStep /\ Entry /\ AliveStep
  BY <1>1, <1>4, PoisonEntry DEF counters, CountersSame, Entry, AliveStep
<1>5. CASE UNCHANGED vars
  BY <1>3, <1>5 DEF vars
<1>6. CASE step_one
  BY <1>1, <1>2, <1>6, StepEntry
<1>7. ASSUME NEW p \in env.programs, admit_start(p)
      PROVE  GatesStep /\ Entry /\ AliveStep
  <2>1. p \in Programs
    BY <1>2, SpineConstants
  <2>2. alive' = alive
    BY <1>7 DEF admit_start
  <2> QED BY <1>1, <1>2, <1>7, <2>1, <2>2, AdmitEntry DEF Entry, AliveStep
<1>8. ASSUME NEW p \in env.programs, AdmitConflict(p)
      PROVE  GatesStep /\ Entry /\ AliveStep
  BY <1>4, <1>8 DEF AdmitConflict
<1>9. CASE epoch_close_start
  <2>1. alive' = alive
    BY <1>9 DEF epoch_close_start
  <2> QED BY <1>1, <1>9, <2>1, CloseEntry DEF Entry, AliveStep
<1>10. ASSUME NEW s \in Slots, publication_acquire(s)
       PROVE  GatesStep /\ Entry /\ AliveStep
  <2>1. alive' = alive
    BY <1>10 DEF publication_acquire
  <2> QED BY <1>1, <1>2, <1>10, <2>1, AcquireEntry DEF Entry, AliveStep
<1>11. ASSUME NEW s \in Slots, NEW d \in {"COMMITTED", "DISCARDED"}, publication_finish(s, d)
       PROVE  GatesStep /\ Entry /\ AliveStep
  <2>1. alive' = alive
    BY <1>11 DEF publication_finish
  <2> QED BY <1>1, <1>11, <2>1, FinishEntry DEF Entry, AliveStep
<1>12. CASE FinishConflict
  BY <1>4, <1>12 DEF FinishConflict
<1>13. CASE fini
  BY <1>1, <1>13, FiniEntry DEF Entry
<1>14. CASE Finished
  BY <1>3, <1>14 DEF Finished, vars
<1> QED BY <1>5, <1>6, <1>7, <1>8, <1>9, <1>10, <1>11, <1>12, <1>13, <1>14 DEF Next

=============================================================================
