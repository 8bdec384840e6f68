-------------------------- MODULE SpineInvariants --------------------------
(***************************************************************************)
(* The inductive invariants of the lifecycle and the relations between a   *)
(* command, or the accounts, before and after a step on which the proofs   *)
(* are built.                                                              *)
(***************************************************************************)
EXTENDS SpineLifecycle

-----------------------------------------------------------------------------
(* The identity of commands.                                               *)

\* An occupied slot runs a program of the profile.
ProgramKnown(cs) == \A s \in Slots : occupied(cs[s]) => cs[s].prog \in Programs

\* Tickets are drawn from a counter that never goes back: no two occupied slots
\* hold the same one.
TicketsDistinct(cs, n) ==
  \A s \in Slots : occupied(cs[s]) =>
    /\ cs[s].uid \in 1 .. n - 1
    /\ \A t \in Slots : (occupied(cs[t]) /\ cs[t].uid = cs[s].uid) => t = s

\* A published ticket has left its slot and is never drawn again.
PublishedGone(cs, n, pub) ==
  \A e \in pub :
    /\ e[1] < n
    /\ \A s \in Slots : occupied(cs[s]) => cs[s].uid # e[1]

\* The resolver is read before a target is bound.
ReadBeforeBound(cs) ==
  \A s \in Slots :
    (occupied(cs[s]) /\ cs[s].abort.end = "OPEN" /\ cs[s].abort.report = "NONE") =>
       cs[s].abort.bound = NoSlot

\* BoundTargetStays over commands cs.
Bound(cs) ==
  \A s \in Slots : (occupied(cs[s]) /\ cs[s].abort.bound # NoSlot) =>
    /\ occupied(cs[cs[s].abort.bound])
    /\ cs[cs[s].abort.bound].uid = cs[s].abort.target
    /\ cs[cs[s].abort.bound].incoming = cs[s].uid

Ident(cs, n, pub) ==
  /\ ProgramKnown(cs) /\ TicketsDistinct(cs, n) /\ PublishedGone(cs, n, pub)
  /\ ReadBeforeBound(cs) /\ Bound(cs)

IInv == ArenaOK /\ Ident(cmd, next_uid, published)
SpineInv == env \in Environments /\ IInv

-----------------------------------------------------------------------------
(* How the record of one command may change.                               *)

Undecided == {"WAIT_DEP", "SUBMIT_READY", "SUBMIT_UNKNOWN", "ACCEPTED"}

\* An action has its terminal fact exactly from TERMINAL on, counts as accepted
\* while a driver is known to hold it, and succeeded only if it was accepted.
ActionOK(a) ==
  /\ a.term = "NONE" <=> a.phase \in Undecided
  /\ a.phase \in {"ACCEPTED", "TERMINAL", "RETIRE_ISSUED", "DRAINING"} => a.accepted
  /\ a.phase \in {"WAIT_DEP", "SUBMIT_READY", "SUBMIT_UNKNOWN"} => ~a.accepted
  /\ a.term = "SUCCEEDED" => a.accepted

\* Only a published intent has a lease or a decision.
Sound(c) ==
  /\ \A i \in Ordinals : ActionOK(c.act[i])
  /\ (c.lease # 0 \/ c.decision # "NONE") => c.phase = "INTENT"

\* A driver neither holds nor may hold the action.
Idle(a) == ~a.accepted /\ a.phase # "SUBMIT_UNKNOWN"

\* b is action a, or a with its terminal fact or a further phase.
ActionLater(a, b, cancelled) ==
  /\ a.term # "NONE" => b.term = a.term
  /\ (cancelled /\ Idle(a)) => Idle(b)
  /\ b.phase = "SUBMIT_UNKNOWN" =>
       (a.phase = "SUBMIT_UNKNOWN" \/ env.lost \/ env.faults)

Later(c, d) ==
  /\ d \in CommandRecord /\ Sound(d)
  /\ d.uid = c.uid /\ d.prog = c.prog
  /\ occupied(d) <=> occupied(c)
  /\ d.phase = "ACTIVE" => c.phase = "ACTIVE"
  /\ (d.phase = "INTENT" /\ c.phase # "INTENT") => (c.phase = "ACTIVE" /\ ~c.suppress)
  /\ c.cancel => d.cancel
  /\ c.suppress => d.suppress
  /\ c.decision # "NONE" => d.decision = c.decision
  /\ \A i \in Ordinals : ActionLater(c.act[i], d.act[i], c.cancel)

\* The actions of c a driver holds or may hold.
HeldOf(c) == {i \in OrdinalsOf(c) : c.phase = "ACTIVE" /\ c.act[i].phase \in HeldPhases}

Same(c, d) ==
  /\ Later(c, d)
  /\ d.phase = c.phase /\ d.lease = c.lease /\ HeldOf(d) = HeldOf(c)

\* d is c but for cancel requests and flags nothing else depends on.
Still(c, d) ==
  /\ d \in CommandRecord
  /\ d.phase = c.phase /\ d.uid = c.uid /\ d.prog = c.prog
  /\ d.lease = c.lease /\ d.decision = c.decision
  /\ c.cancel => d.cancel
  /\ c.suppress => d.suppress
  /\ \A i \in Ordinals : /\ d.act[i].phase = c.act[i].phase
                         /\ d.act[i].term = c.act[i].term
                         /\ d.act[i].accepted = c.act[i].accepted

\* d is c but for cancel requests, the flags and action i.
Moves(c, d, i) ==
  /\ d \in CommandRecord
  /\ d.phase = c.phase /\ d.uid = c.uid /\ d.prog = c.prog
  /\ d.lease = c.lease /\ d.decision = c.decision
  /\ c.cancel => d.cancel
  /\ c.suppress => d.suppress
  /\ \A j \in Ordinals \ {i} : /\ d.act[j].phase = c.act[j].phase
                               /\ d.act[j].term = c.act[j].term
                               /\ d.act[j].accepted = c.act[j].accepted

\* The step writes record d to slot s, and may end in poison_lifecycle.
Touch(s, d) == Install(s, d) \/ Poison([cmd EXCEPT ![s] = d])

\* The drivers hold what they held, or also action i, or no longer action i.
Handed(s, i, d) ==
  \/ HeldOf(d) = HeldOf(cmd[s]) /\ owned' = owned
  \/ /\ HeldOf(d) = HeldOf(cmd[s]) \cup {i} /\ owned' = owned \cup {Token(cmd[s], i)}
     /\ ~cmd[s].cancel
  \/ HeldOf(d) = HeldOf(cmd[s]) \ {i} /\ owned' = owned \ {Token(cmd[s], i)}

Driven(s, i, d) ==
  /\ Touch(s, d) /\ Later(cmd[s], d)
  /\ d.phase = cmd[s].phase /\ d.lease = cmd[s].lease /\ d.abort = cmd[s].abort
  /\ Handed(s, i, d)

-----------------------------------------------------------------------------
(* The accounts, and what one step may do to them.                         *)

\* Poison closes admission; a closed admission finds every active command
\* cancelled, a poisoned lifecycle finds it suppressed too; a returned arena
\* has no active command.
GateInv ==
  /\ poisoned => admission_closed
  /\ admission_closed => \A s \in Slots : cmd[s].phase = "ACTIVE" => cmd[s].cancel
  /\ poisoned => \A s \in Slots : cmd[s].phase = "ACTIVE" => cmd[s].suppress
  /\ ~alive => \A s \in Slots : cmd[s].phase # "ACTIVE"

AllSound == \A s \in Slots : Sound(cmd[s])

AInv == AllSound /\ GateInv /\ CountersExact /\ NoForgottenAction

\* The gates only close, and close on every active command at once.
GatesStep ==
  /\ poisoned' => admission_closed'
  /\ poisoned => poisoned'
  /\ admission_closed => admission_closed'
  /\ (admission_closed' /\ ~admission_closed) =>
        \A t \in Slots : cmd'[t].phase = "ACTIVE" => cmd'[t].cancel
  /\ (poisoned' /\ ~poisoned) =>
        \A t \in Slots : cmd'[t].phase = "ACTIVE" => cmd'[t].suppress

\* The arena is returned only once nothing is active.
AliveStep == (alive' <=> alive) \/ (alive /\ \A t \in Slots : cmd'[t].phase # "ACTIVE")

\* Every command but the one in slot s is the same.
Others(s) == \A t \in Slots : t # s => Same(cmd[t], cmd'[t])

CountersSame == /\ active_commands' = active_commands
                /\ retained_intents' = retained_intents
                /\ completion_leases' = completion_leases

\* No command changes what is counted or held.
Quiet == /\ \A t \in Slots : Same(cmd[t], cmd'[t])
         /\ CountersSame /\ owned' = owned

\* A driver action of the command in slot s moves.
Drives(s, i) ==
  /\ Others(s) /\ CountersSame
  /\ Later(cmd[s], cmd'[s]) /\ cmd'[s].phase = cmd[s].phase
  /\ cmd'[s].lease = cmd[s].lease /\ Handed(s, i, cmd'[s])
  /\ i \in OrdinalsOf(cmd[s]) /\ cmd[s].phase = "ACTIVE"

\* finalize_command ends a command all of whose actions are drained.
Ends(s) ==
  /\ Others(s) /\ Later(cmd[s], cmd'[s]) /\ cmd[s].phase = "ACTIVE"
  /\ all_actions_drained(cmd[s]) /\ cmd'[s].lease = cmd[s].lease
  /\ active_commands' = active_after(cmd[s])
  /\ \/ cmd'[s].phase = "QUARANTINED" /\ retained_intents' = retained_intents
     \/ cmd'[s].phase = "INTENT" /\ retained_intents' = retained_intents + 1
  /\ completion_leases' = completion_leases /\ owned' = owned

\* publication_v1_acquire leases an intent.
Leases(s) ==
  /\ Others(s) /\ Later(cmd[s], cmd'[s])
  /\ cmd[s].phase = "INTENT" /\ cmd'[s].phase = "INTENT"
  /\ cmd[s].lease = 0 /\ cmd'[s].lease # 0
  /\ active_commands' = active_commands /\ retained_intents' = retained_intents
  /\ completion_leases' = completion_leases + 1 /\ owned' = owned

\* publication_v1_finish frees a leased intent.
Frees(s) ==
  /\ Others(s) /\ Sound(cmd'[s]) /\ cmd'[s].phase = "FREE"
  /\ cmd'[s].lease = 0 /\ cmd'[s].uid = 0
  /\ cmd[s].phase = "INTENT" /\ cmd[s].lease # 0
  /\ active_commands' = active_commands
  /\ retained_intents' = retained_intents - 1
  /\ completion_leases' = completion_leases - 1 /\ owned' = owned
  /\ \E d \in {"COMMITTED", "DISCARDED"} :
        cmd[s].decision \in {"NONE", d} /\ <<cmd[s].uid, d>> \in published'

\* admit_start fills a free slot.
Admits(s) ==
  /\ alive /\ Others(s) /\ ~occupied(cmd[s]) /\ ~admission_closed'
  /\ Sound(cmd'[s]) /\ cmd'[s].phase = "ACTIVE" /\ cmd'[s].lease = 0
  /\ HeldOf(cmd'[s]) = {}
  /\ active_commands' = active_commands + 1
  /\ retained_intents' = retained_intents
  /\ completion_leases' = completion_leases /\ owned' = owned

\* What any step does to the accounts.
Entry ==
  \/ Quiet
  \/ \E s \in Slots, i \in Ordinals : Drives(s, i)
  \/ \E s \in Slots : Ends(s) \/ Leases(s) \/ Frees(s) \/ Admits(s)

\* The bodies of the action properties.
SubmitsRightly ==
  \A s \in Slots : \A i \in OrdinalsOf(cmd[s]) :
    (Token(cmd[s], i) \in owned' \ owned) => ~admission_closed /\ ~cmd[s].cancel
SuppressesRightly ==
  \A s \in Slots : (poisoned /\ cmd[s].phase # "INTENT") => cmd'[s].phase # "INTENT"
TerminalsStand ==
  \A s \in Slots : \A i \in OrdinalsOf(cmd[s]) :
    (cmd'[s].uid = cmd[s].uid /\ cmd[s].act[i].term # "NONE") =>
       cmd'[s].act[i].term = cmd[s].act[i].term
DecisionStands ==
  \A s \in Slots : cmd[s].decision # "NONE" =>
    \/ cmd'[s].uid = cmd[s].uid /\ cmd'[s].decision = cmd[s].decision
    \/ <<cmd[s].uid, cmd[s].decision>> \in published'

\* What the invariants say of the commands.
Fit == /\ cmd \in [Slots -> CommandRecord] /\ ProgramKnown(cmd) /\ AllSound

\* The records a slot starts from are records.
FreshTyped ==
  /\ FreeCommand \in CommandRecord
  /\ \A p \in Programs, u \in Nat : NewCommand(p, u) \in CommandRecord
=============================================================================
