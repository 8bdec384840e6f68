--------------------------- MODULE SpineTheorems ---------------------------
(***************************************************************************)
(* The theorems on the accounts of the lifecycle, for every capacity, set  *)
(* of programs and bound: the counters are exact, no driver action is      *)
(* forgotten, a quiescent or returned arena holds none, a stop stops every *)
(* handler, and what was decided stands.                                   *)
(***************************************************************************)
EXTENDS SpineAccountProofs, SpineAbortProofs, SpineLifecycleProofs

\* A leaf is left to Zenon unless it names the SMT solver.
USE ZenonT(60)

-----------------------------------------------------------------------------
(* The theorems.                                                           *)

\* One step keeps the accounts and does only what the action properties allow.
LEMMA NextAInv ==
  ASSUME SpineInv, AInv, [Next]_vars
  PROVE /\ AInv' /\ SubmitsRightly /\ SuppressesRightly
        /\ TerminalsStand /\ DecisionStands
<1>0. AllSound /\ GateInv /\ CountersExact /\ FreshTyped
  BY NewRecords DEF AInv, FreshTyped
<1>1. GatesStep /\ Entry /\ AliveStep
  BY <1>0, NoneActive, NextEntry
<1>2. /\ TicketsDistinct(cmd, next_uid) /\ ProgramKnown(cmd)
      /\ cmd \in [Slots -> CommandRecord]
  BY DEF SpineInv, IInv, Ident, ArenaOK
<1>3. next_uid \in Nat
  BY SMTT(60) DEF SpineInv, IInv, ArenaOK
<1>4. \A s \in Slots : OrdinalsOf(cmd[s]) \subseteq Ordinals
  BY <1>2, OrdinalsIn DEF ProgramKnown
<1> QED BY <1>0, <1>1, <1>2, <1>3, <1>4, EntryInv, SubmitStep, SuppressStep, StandStep

\* The counters effectful_quiescent and epoch_query read are exact, a driver
\* action is never forgotten through poison, abort, close and slot reuse, and
\* an epoch reported quiescent, like an arena fini returned, leaves nothing
\* with a driver.
THEOREM AccountsExact == Spec => []Accounted
<1>1. AInv => Accounted
  BY QuiescentHolds DEF AInv, Accounted
<1>2. SpineInv /\ AInv /\ [Next]_vars => AInv'
  BY NextAInv
<1> QED BY <1>1, <1>2, InitInv, InitAInv, NextInv, PTL DEF Spec

\* After poison_lifecycle, epoch_close_start or a cancel no handler submits
\* another action, and a command that was active when the lifecycle was
\* poisoned never becomes an intent.
THEOREM StopStops == Spec => StopHolds
<1>1. SpineInv /\ AInv /\ [Next]_vars => AInv' /\ SubmitsRightly /\ SuppressesRightly
  BY NextAInv
<1>2. Spec => [][SubmitsRightly]_vars /\ [][SuppressesRightly]_vars
  BY <1>1, InitInv, InitAInv, NextInv, PTL DEF Spec
<1> QED BY <1>2 DEF StopHolds, NoSubmitAfterStop, PoisonSuppressesIntents,
                    SubmitsRightly, SuppressesRightly

\* The first terminal fact of an action and the decision
\* publication_v1_finish records are kept, or published, by every later step.
THEOREM DecidedStands == Spec => DecisionsStand
<1>1. SpineInv /\ AInv /\ [Next]_vars => AInv' /\ TerminalsStand /\ DecisionStands
  BY NextAInv
<1>2. Spec => [][TerminalsStand]_vars /\ [][DecisionStands]_vars
  BY <1>1, InitInv, InitAInv, NextInv, PTL DEF Spec
<1> QED BY <1>2 DEF DecisionsStand, TerminalStable, PublishedAsDecided,
                    TerminalsStand, DecisionStands

\* One step keeps what is known of the targets of aborts.
LEMMA NextBondInv ==
  ASSUME SpineInv, SpineInv', AInv, BondInv, [Next]_vars
  PROVE BondInv'
<1>1. AllSound /\ GateInv /\ CountersExact /\ FreshTyped
  BY NewRecords DEF AInv, FreshTyped
<1>2. SlotEntry
  BY <1>1, NoneActive, NextEntry, SlotStep DEF SlotEntry
<1>3. BondEntry
  BY <1>1, NextBonds
<1>4. Bound(cmd) /\ Bound(cmd') /\ ProgramKnown(cmd) /\ cmd \in [Slots -> CommandRecord]
  BY DEF SpineInv, IInv, Ident, ArenaOK
<1>5. \A s \in Slots : OrdinalsOf(cmd[s]) \subseteq Ordinals
  BY <1>4, OrdinalsIn DEF ProgramKnown
<1>6. env' = env
  BY DEF Next, vars
<1> QED BY <1>2, <1>3, <1>4, <1>5, <1>6, BondStep

\* A target whose abort won had work and none of it succeeded, when no submit
\* answer is lost and no driver call fails: bind_target cancels the target in
\* the step that records which actions to wait for, and decide_target asks
\* those for their terminal facts only when all have drained.
THEOREM AbortVerdict == Spec => []AbortWonTargetFailed
<1>1. SpineInv /\ AInv /\ BondInv => AbortWonTargetFailed
  <2> SUFFICES ASSUME SpineInv, AInv, BondInv PROVE AbortWonTargetFailed
    OBVIOUS
  <2>1. ProgramKnown(cmd) /\ cmd \in [Slots -> CommandRecord] /\ AllSound
    BY DEF SpineInv, IInv, Ident, ArenaOK, AInv
  <2>2. \A s \in Slots : OrdinalsOf(cmd[s]) \subseteq Ordinals
    BY <2>1, OrdinalsIn DEF ProgramKnown
  <2> QED BY <2>1, <2>2, WonFailed
<1>2. SpineInv /\ AInv /\ [Next]_vars => AInv'
  BY NextAInv
<1>3. SpineInv /\ SpineInv' /\ AInv /\ BondInv /\ [Next]_vars => BondInv'
  BY NextBondInv
<1> QED BY <1>1, <1>2, <1>3, InitInv, InitAInv, InitBonds, NextInv, PTL DEF Spec

=============================================================================
