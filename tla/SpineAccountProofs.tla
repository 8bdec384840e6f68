------------------------- MODULE SpineAccountProofs -------------------------
(***************************************************************************)
(* The accounts of the lifecycle, for every capacity, set of programs and  *)
(* bound: the counters are exact, no driver action is forgotten, a         *)
(* quiescent or returned arena holds none, a stop stops every handler, and *)
(* what was decided stands.                                                *)
(***************************************************************************)
EXTENDS SpineInvariants, FiniteSetTheorems, TLAPS

\* A leaf is left to Zenon unless it names the SMT solver.
USE ZenonT(60)

-----------------------------------------------------------------------------
(* A step keeps the accounts.                                              *)

\* A command goes to a later one unless its slot is freed or filled.
LEMMA SlotStep ==
  ASSUME Entry
  PROVE \A t \in Slots : Later(cmd[t], cmd'[t]) \/ Frees(t) \/ Admits(t)
<1>1. CASE Quiet
  BY <1>1 DEF Quiet, Same
<1>2. ASSUME NEW s \in Slots, Others(s), Later(cmd[s], cmd'[s]) \/ Frees(s) \/ Admits(s)
      PROVE  \A t \in Slots : Later(cmd[t], cmd'[t]) \/ Frees(t) \/ Admits(t)
  BY <1>2 DEF Others, Same
<1>3. ASSUME NEW s \in Slots, NEW i \in Ordinals, Drives(s, i)
      PROVE  \A t \in Slots : Later(cmd[t], cmd'[t]) \/ Frees(t) \/ Admits(t)
  <2>1. Others(s) /\ Later(cmd[s], cmd'[s])
    BY <1>3 DEF Drives
  <2> QED BY <1>2, <2>1
<1>4. ASSUME NEW s \in Slots, Ends(s) \/ Leases(s) \/ Frees(s) \/ Admits(s)
      PROVE  \A t \in Slots : Later(cmd[t], cmd'[t]) \/ Frees(t) \/ Admits(t)
  <2>1. Others(s) /\ (Later(cmd[s], cmd'[s]) \/ Frees(s) \/ Admits(s))
    BY <1>4 DEF Ends, Leases, Frees, Admits
  <2> QED BY <1>2, <2>1
<1> QED BY <1>1, <1>3, <1>4 DEF Entry

\* Every step leaves sound records.
LEMMA SoundStep == ASSUME Entry PROVE AllSound'
<1> SUFFICES ASSUME NEW t \in Slots PROVE Sound(cmd'[t])
  BY DEF AllSound, Sound, ActionOK, Undecided
<1>1. Later(cmd[t], cmd'[t]) \/ Frees(t) \/ Admits(t)
  BY SlotStep
<1> QED BY <1>1 DEF Later, Frees, Admits

\* An active command was active, and cancelled or suppressed if it was; or it is
\* admitted, which a closed gate refuses.
LEMMA GateStep ==
  ASSUME GateInv, Entry, GatesStep, AliveStep
  PROVE GateInv'
<1>1. \A t \in Slots : cmd'[t].phase = "ACTIVE" =>
         \/ /\ cmd[t].phase = "ACTIVE" /\ (cmd[t].cancel => cmd'[t].cancel)
            /\ (cmd[t].suppress => cmd'[t].suppress)
         \/ alive /\ ~admission_closed'
  <2> SUFFICES ASSUME NEW t \in Slots, cmd'[t].phase = "ACTIVE"
               PROVE  \/ /\ cmd[t].phase = "ACTIVE" /\ (cmd[t].cancel => cmd'[t].cancel)
                         /\ (cmd[t].suppress => cmd'[t].suppress)
                      \/ alive /\ ~admission_closed'
    OBVIOUS
  <2>1. Later(cmd[t], cmd'[t]) \/ Frees(t) \/ Admits(t)
    BY SlotStep
  <2> QED BY <2>1, SMTT(60) DEF Later, Frees, Admits
<1>2. poisoned' => admission_closed'
  BY DEF GatesStep
<1>3. ASSUME admission_closed', NEW t \in Slots, cmd'[t].phase = "ACTIVE"
      PROVE  cmd'[t].cancel
  BY <1>1, <1>3 DEF GatesStep, GateInv
<1>4. ASSUME poisoned', NEW t \in Slots, cmd'[t].phase = "ACTIVE"
      PROVE  cmd'[t].suppress
  BY <1>1, <1>2, <1>4 DEF GatesStep, GateInv
<1>5. ASSUME ~alive', NEW t \in Slots, cmd'[t].phase = "ACTIVE"
      PROVE  FALSE
  BY <1>1, <1>5 DEF AliveStep, GateInv
<1> QED BY <1>2, <1>3, <1>4, <1>5 DEF GateInv

\* A set of slots is finite; one more and one less.
LEMMA SlotSets ==
  ASSUME NEW S, S \subseteq Slots
  PROVE IsFiniteSet(S) /\ Cardinality(S) \in Nat
<1>1. IsFiniteSet(Slots)
  BY FS_Interval, SpineConstants, SMTT(60) DEF Slots
<1>2. IsFiniteSet(S)
  BY <1>1, FS_Subset
<1> QED BY <1>2, FS_CardinalityType

\* The count of a set of slots that gains one.
LEMMA OneMore ==
  ASSUME NEW S, S \subseteq Slots, NEW T, NEW x \in Slots, x \notin S, T = S \cup {x}
  PROVE Cardinality(T) = Cardinality(S) + 1
<1>1. IsFiniteSet(S)
  BY SlotSets
<1> QED BY <1>1, FS_AddElement, SMTT(60)

\* The count of a set of slots that loses one.
LEMMA OneLess ==
  ASSUME NEW S, S \subseteq Slots, NEW T, NEW x \in Slots, x \in S, T = S \ {x}
  PROVE Cardinality(T) = Cardinality(S) - 1 /\ Cardinality(S) # 0
<1>1. IsFiniteSet(S)
  BY SlotSets
<1>2. Cardinality(T) = Cardinality(S) - 1
  BY <1>1, FS_RemoveElement, SMTT(60)
<1>3. Cardinality(S) # 0
  BY <1>1, FS_EmptySet
<1> QED BY <1>2, <1>3

Active == {s \in Slots : cmd[s].phase = "ACTIVE"}
Intents == {s \in Slots : cmd[s].phase = "INTENT"}
Leased == {s \in Slots : cmd[s].lease # 0}

\* Each counter moves with the set it counts.
LEMMA CountStep ==
  ASSUME AllSound, CountersExact, Entry
  PROVE CountersExact'
<1>0. /\ active_commands = Cardinality(Active) /\ retained_intents = Cardinality(Intents)
      /\ completion_leases = Cardinality(Leased)
      /\ Active \subseteq Slots /\ Intents \subseteq Slots /\ Leased \subseteq Slots
  BY DEF CountersExact, Active, Intents, Leased
<1>9. SUFFICES /\ active_commands' = Cardinality(Active')
               /\ retained_intents' = Cardinality(Intents')
               /\ completion_leases' = Cardinality(Leased')
  BY DEF CountersExact, Active, Intents, Leased
<1>1. ASSUME \A t \in Slots : cmd'[t].phase = cmd[t].phase /\ cmd'[t].lease = cmd[t].lease
      PROVE  Active' = Active /\ Intents' = Intents /\ Leased' = Leased
  BY <1>1, SMTT(60) DEF Active, Intents, Leased
<1>2. CASE Quiet
  <2>1. \A t \in Slots : cmd'[t].phase = cmd[t].phase /\ cmd'[t].lease = cmd[t].lease
    BY <1>2 DEF Quiet, Same
  <2> QED BY <1>0, <1>1, <1>2, <2>1 DEF Quiet, CountersSame
<1>3. ASSUME NEW s \in Slots, NEW i \in Ordinals, Drives(s, i)
      PROVE  /\ active_commands' = Cardinality(Active')
             /\ retained_intents' = Cardinality(Intents')
             /\ completion_leases' = Cardinality(Leased')
  <2>1. \A t \in Slots : cmd'[t].phase = cmd[t].phase /\ cmd'[t].lease = cmd[t].lease
    BY <1>3 DEF Drives, Others, Same
  <2> QED BY <1>0, <1>1, <1>3, <2>1 DEF Drives, CountersSame
<1>4. ASSUME NEW s \in Slots, Others(s)
      PROVE  /\ Active' \ {s} = Active \ {s} /\ Intents' \ {s} = Intents \ {s}
             /\ Leased' \ {s} = Leased \ {s}
             /\ s \in Active' <=> cmd'[s].phase = "ACTIVE"
             /\ s \in Active <=> cmd[s].phase = "ACTIVE"
             /\ s \in Intents' <=> cmd'[s].phase = "INTENT"
             /\ s \in Intents <=> cmd[s].phase = "INTENT"
             /\ s \in Leased' <=> cmd'[s].lease # 0
             /\ s \in Leased <=> cmd[s].lease # 0
  <2>1. \A t \in Slots : t # s => /\ cmd'[t].phase = cmd[t].phase
                                  /\ cmd'[t].lease = cmd[t].lease
    BY <1>4 DEF Others, Same
  <2> QED BY <2>1, SMTT(60) DEF Active, Intents, Leased
<1>5. ASSUME NEW S, NEW T, NEW s, T \ {s} = S \ {s}
      PROVE  /\ (s \in S <=> s \in T) => T = S
             /\ (s \notin S /\ s \in T) => T = S \cup {s}
             /\ (s \in S /\ s \notin T) => T = S \ {s}
  BY <1>5, SMTT(60)
<1>6. ASSUME NEW s \in Slots, Ends(s)
      PROVE  /\ active_commands' = Cardinality(Active')
             /\ retained_intents' = Cardinality(Intents')
             /\ completion_leases' = Cardinality(Leased')
  <2>1. /\ Active' = Active \ {s} /\ s \in Active /\ Leased' = Leased
        /\ s \notin Intents
        /\ \/ cmd'[s].phase = "QUARANTINED" /\ Intents' = Intents
           \/ cmd'[s].phase = "INTENT" /\ Intents' = Intents \cup {s}
    BY <1>4, <1>5, <1>6, SMTT(60) DEF Ends
  <2>2. Cardinality(Active') = Cardinality(Active) - 1 /\ Cardinality(Active) # 0
    BY <1>0, <2>1, OneLess
  <2>3. active_commands' = Cardinality(Active')
    BY <1>0, <1>6, <2>2 DEF Ends, active_after
  <2>4. Intents' = Intents \cup {s} => Cardinality(Intents') = Cardinality(Intents) + 1
    BY <1>0, <2>1, OneMore
  <2>5. retained_intents' = Cardinality(Intents')
    BY <1>0, <1>6, <2>1, <2>4, SMTT(60) DEF Ends
  <2>6. completion_leases' = Cardinality(Leased')
    BY <1>0, <1>6, <2>1 DEF Ends
  <2> QED BY <2>3, <2>5, <2>6
<1>7. ASSUME NEW s \in Slots, Leases(s)
      PROVE  /\ active_commands' = Cardinality(Active')
             /\ retained_intents' = Cardinality(Intents')
             /\ completion_leases' = Cardinality(Leased')
  <2>1. /\ Active' = Active /\ Intents' = Intents /\ s \notin Leased
        /\ Leased' = Leased \cup {s}
    BY <1>4, <1>5, <1>7, SMTT(60) DEF Leases
  <2>2. Cardinality(Leased') = Cardinality(Leased) + 1
    BY <1>0, <2>1, OneMore
  <2> QED BY <1>0, <1>7, <2>1, <2>2 DEF Leases
<1>8. ASSUME NEW s \in Slots, Frees(s)
      PROVE  /\ active_commands' = Cardinality(Active')
             /\ retained_intents' = Cardinality(Intents')
             /\ completion_leases' = Cardinality(Leased')
  <2>1. /\ Active' = Active /\ Intents' = Intents \ {s} /\ s \in Intents
        /\ s \in Leased /\ Leased' = Leased \ {s}
    BY <1>4, <1>5, <1>8, SMTT(60) DEF Frees
  <2>2. Cardinality(Leased') = Cardinality(Leased) - 1
    BY <1>0, <2>1, OneLess
  <2>3. Cardinality(Intents') = Cardinality(Intents) - 1
    BY <1>0, <2>1, OneLess
  <2> QED BY <1>0, <1>8, <2>1, <2>2, <2>3 DEF Frees
<1>10. ASSUME NEW s \in Slots, Admits(s)
      PROVE  /\ active_commands' = Cardinality(Active')
             /\ retained_intents' = Cardinality(Intents')
             /\ completion_leases' = Cardinality(Leased')
  <2>0. cmd[s].lease = 0 /\ cmd[s].phase = "FREE"
    BY <1>10 DEF Admits, AllSound, Sound, occupied
  <2>1. /\ Active' = Active \cup {s} /\ s \notin Active /\ Intents' = Intents
        /\ Leased' = Leased
    BY <1>4, <1>5, <1>10, <2>0, SMTT(60) DEF Admits
  <2>2. Cardinality(Active') = Cardinality(Active) + 1
    BY <1>0, <2>1, OneMore
  <2> QED BY <1>0, <1>10, <2>1, <2>2 DEF Admits
<1> QED BY <1>2, <1>3, <1>6, <1>7, <1>8, <1>10 DEF Entry

\* The tokens of a command a driver holds or may hold.
TokensOf(c) == {Token(c, i) : i \in HeldOf(c)}

\* NoForgottenAction, slot by slot.
LEMMA OwnedTokens == NoForgottenAction <=> owned = UNION {TokensOf(cmd[s]) : s \in Slots}
  BY DEF NoForgottenAction, TokensOf, Held, HeldOf

\* A command that stays the same keeps the tokens its drivers hold.
LEMMA SameTokens ==
  ASSUME NEW c, NEW d, Same(c, d)
  PROVE TokensOf(d) = TokensOf(c)
<1>1. HeldOf(d) = HeldOf(c) /\ d.uid = c.uid /\ d.prog = c.prog
  BY DEF Same, Later
<1> QED BY <1>1 DEF TokensOf, Token

\* A token names its command and its ordinal.
LEMMA TokenNames ==
  ASSUME TicketsDistinct(cmd, next_uid), NEW s \in Slots, NEW t \in Slots,
         NEW i \in OrdinalsOf(cmd[s]), NEW j \in OrdinalsOf(cmd[t]),
         Token(cmd[s], i) = Token(cmd[t], j)
  PROVE s = t /\ i = j
<1>1. cmd[s].uid = cmd[t].uid /\ i = j
  BY SMTT(60) DEF Token
<1>2. occupied(cmd[s]) /\ occupied(cmd[t])
  BY DEF OrdinalsOf
<1> QED BY <1>1, <1>2 DEF TicketsDistinct

\* The tokens of the others, when only slot s changes what it holds.
LEMMA OneSlotTokens ==
  ASSUME NEW s \in Slots, Others(s)
  PROVE \A k : (k \in UNION {TokensOf(cmd'[t]) : t \in Slots}) <=>
                 \/ k \in TokensOf(cmd'[s])
                 \/ \E t \in Slots \ {s} : k \in TokensOf(cmd[t])
<1>1. \A t \in Slots \ {s} : TokensOf(cmd'[t]) = TokensOf(cmd[t])
  BY SameTokens DEF Others
<1> QED BY <1>1, SMTT(60)

\* A token joins owned when the driver is handed the action and leaves it when
\* the driver has given the action back.
LEMMA OwnedStep ==
  ASSUME TicketsDistinct(cmd, next_uid), NoForgottenAction, Entry
  PROVE NoForgottenAction'
<1> DEFINE Was == UNION {TokensOf(cmd[t]) : t \in Slots}
           Now == UNION {TokensOf(cmd'[t]) : t \in Slots}
<1>0. owned = Was
  BY OwnedTokens
<1>9. SUFFICES owned' = Now
  BY DEF NoForgottenAction, TokensOf, Held, HeldOf, Token, OrdinalsOf, occupied
<1>1. CASE Quiet
  <2>1. \A t \in Slots : TokensOf(cmd'[t]) = TokensOf(cmd[t])
    BY <1>1, SameTokens DEF Quiet
  <2>2. Now = Was
    BY <2>1, SMTT(60)
  <2> QED BY <1>0, <1>1, <2>2 DEF Quiet
<1>2. ASSUME NEW s \in Slots, Others(s), TokensOf(cmd'[s]) = {}, TokensOf(cmd[s]) = {},
             owned' = owned
      PROVE  owned' = Now
  <2>1. \A k : k \in Now <=> \E t \in Slots \ {s} : k \in TokensOf(cmd[t])
    BY <1>2, OneSlotTokens
  <2>2. \A k : k \in Was <=> \E t \in Slots \ {s} : k \in TokensOf(cmd[t])
    BY <1>2, SMTT(60)
  <2> QED BY <1>0, <1>2, <2>1, <2>2, SMTT(60)
<1>3. ASSUME NEW s \in Slots, Ends(s) \/ Leases(s) \/ Frees(s) \/ Admits(s)
      PROVE  owned' = Now
  <2>1. Others(s) /\ owned' = owned
    BY <1>3 DEF Ends, Leases, Frees, Admits
  <2>2. HeldOf(cmd[s]) = {}
    BY <1>3 DEF Ends, Leases, Frees, Admits, HeldOf, all_actions_drained, HeldPhases, occupied
  <2>3. HeldOf(cmd'[s]) = {}
    BY <1>3 DEF Ends, Leases, Frees, Admits, HeldOf
  <2>4. TokensOf(cmd[s]) = {} /\ TokensOf(cmd'[s]) = {}
    BY <2>2, <2>3 DEF TokensOf
  <2> QED BY <1>2, <2>1, <2>4
<1>4. ASSUME NEW s \in Slots, NEW i \in Ordinals, Drives(s, i)
      PROVE  owned' = Now
  <2>1. /\ Others(s) /\ i \in OrdinalsOf(cmd[s]) /\ Handed(s, i, cmd'[s])
        /\ cmd'[s].uid = cmd[s].uid /\ cmd'[s].prog = cmd[s].prog
    BY <1>4 DEF Drives, Later
  <2>2. \A j : Token(cmd'[s], j) = Token(cmd[s], j)
    BY <2>1 DEF Token
  <2>3. \A k : k \in Now <=> \/ \E j \in HeldOf(cmd'[s]) : k = Token(cmd[s], j)
                             \/ \E t \in Slots \ {s} : k \in TokensOf(cmd[t])
    <3>1. \A k : k \in TokensOf(cmd'[s]) <=> \E j \in HeldOf(cmd'[s]) : k = Token(cmd[s], j)
      BY <2>2 DEF TokensOf
    <3>2. \A k : k \in Now <=> \/ k \in TokensOf(cmd'[s])
                               \/ \E t \in Slots \ {s} : k \in TokensOf(cmd[t])
      BY <2>1, OneSlotTokens
    <3> HIDE DEF Now
    <3> QED BY <3>1, <3>2
  <2>4. \A k : k \in owned <=> \/ \E j \in HeldOf(cmd[s]) : k = Token(cmd[s], j)
                               \/ \E t \in Slots \ {s} : k \in TokensOf(cmd[t])
    BY <1>0, SMTT(60) DEF TokensOf
  <2>5. CASE HeldOf(cmd'[s]) = HeldOf(cmd[s]) /\ owned' = owned
    BY <2>3, <2>4, <2>5, SMTT(60)
  <2>6. CASE /\ HeldOf(cmd'[s]) = HeldOf(cmd[s]) \cup {i}
             /\ owned' = owned \cup {Token(cmd[s], i)}
    BY <2>3, <2>4, <2>6, SMTT(60)
  <2>7. CASE /\ HeldOf(cmd'[s]) = HeldOf(cmd[s]) \ {i}
             /\ owned' = owned \ {Token(cmd[s], i)}
    <3>1. \A j \in HeldOf(cmd[s]) : Token(cmd[s], j) = Token(cmd[s], i) => j = i
      BY <2>1, TokenNames DEF HeldOf
    <3>2. \A t \in Slots \ {s} : Token(cmd[s], i) \notin TokensOf(cmd[t])
      BY <2>1, TokenNames DEF TokensOf, HeldOf
    <3> QED BY <2>3, <2>4, <2>7, <3>1, <3>2, SMTT(60)
  <2> QED BY <2>1, <2>5, <2>6, <2>7 DEF Handed
<1> QED BY <1>1, <1>3, <1>4 DEF Entry

\* One step keeps the accounts.
LEMMA EntryInv ==
  ASSUME TicketsDistinct(cmd, next_uid), AInv, Entry, GatesStep, AliveStep
  PROVE AInv'
<1>1. AllSound /\ GateInv /\ CountersExact /\ NoForgottenAction
  BY DEF AInv
<1>2. AllSound' /\ GateInv' /\ CountersExact' /\ NoForgottenAction'
  BY <1>1, SoundStep, GateStep, CountStep, OwnedStep
<1> QED BY <1>2 DEF AInv

-----------------------------------------------------------------------------
(* What one step never does.                                               *)

\* A step that hands a driver an action found admission open and the command
\* not cancelled.
LEMMA SubmitStep ==
  ASSUME TicketsDistinct(cmd, next_uid), GateInv, Entry
  PROVE SubmitsRightly
<1> SUFFICES ASSUME NEW s \in Slots, NEW i \in OrdinalsOf(cmd[s]),
                    Token(cmd[s], i) \in owned' \ owned
             PROVE  ~admission_closed /\ ~cmd[s].cancel
  BY DEF SubmitsRightly
<1>1. PICK t \in Slots, j \in Ordinals : Drives(t, j)
  BY DEF Entry, Quiet, Ends, Leases, Frees, Admits
<1>2. j \in OrdinalsOf(cmd[t]) /\ cmd[t].phase = "ACTIVE" /\ Handed(t, j, cmd'[t])
  BY <1>1 DEF Drives
<1>3. owned' = owned \cup {Token(cmd[t], j)} /\ ~cmd[t].cancel
  BY <1>2, SMTT(60) DEF Handed
<1>4. Token(cmd[s], i) = Token(cmd[t], j)
  BY <1>3
<1>5. s = t
  BY <1>2, <1>4, TokenNames
<1> QED BY <1>2, <1>3, <1>5 DEF GateInv

\* Once poisoned, no command becomes an intent.
LEMMA SuppressStep ==
  ASSUME GateInv, Entry PROVE SuppressesRightly
<1> SUFFICES ASSUME NEW s \in Slots, poisoned, cmd[s].phase # "INTENT",
                    cmd'[s].phase = "INTENT"
             PROVE  FALSE
  BY DEF SuppressesRightly
<1>1. Later(cmd[s], cmd'[s]) \/ Frees(s) \/ Admits(s)
  BY SlotStep
<1>2. cmd[s].phase = "ACTIVE" /\ ~cmd[s].suppress
  BY <1>1 DEF Later, Frees, Admits
<1> QED BY <1>2 DEF GateInv

\* A terminal fact and a recorded decision survive every step.
LEMMA StandStep ==
  ASSUME TicketsDistinct(cmd, next_uid), AllSound, next_uid \in Nat, Entry,
         \A s \in Slots : OrdinalsOf(cmd[s]) \subseteq Ordinals
  PROVE TerminalsStand /\ DecisionStands
<1>1. ASSUME NEW s \in Slots, NEW i \in OrdinalsOf(cmd[s]), cmd'[s].uid = cmd[s].uid,
             cmd[s].act[i].term # "NONE"
      PROVE  cmd'[s].act[i].term = cmd[s].act[i].term
  <2>1. Later(cmd[s], cmd'[s]) \/ Frees(s) \/ Admits(s)
    BY SlotStep
  <2>2. occupied(cmd[s])
    BY <1>1 DEF OrdinalsOf
  <2>3. cmd[s].uid # 0
    BY <2>2, SMTT(60) DEF TicketsDistinct
  <2>4. Later(cmd[s], cmd'[s])
    BY <1>1, <2>1, <2>2, <2>3 DEF Frees, Admits
  <2>5. i \in Ordinals
    BY <1>1
  <2> QED BY <1>1, <2>4, <2>5 DEF Later, ActionLater
<1>2. ASSUME NEW s \in Slots, cmd[s].decision # "NONE"
      PROVE  \/ cmd'[s].uid = cmd[s].uid /\ cmd'[s].decision = cmd[s].decision
             \/ <<cmd[s].uid, cmd[s].decision>> \in published'
  <2>1. Later(cmd[s], cmd'[s]) \/ Frees(s) \/ Admits(s)
    BY SlotStep
  <2>2. CASE Later(cmd[s], cmd'[s])
    BY <1>2, <2>2 DEF Later
  <2>3. CASE Frees(s)
    BY <1>2, <2>3 DEF Frees
  <2>4. CASE Admits(s)
    BY <1>2, <2>4 DEF Admits, AllSound, Sound, occupied
  <2> QED BY <2>1, <2>2, <2>3, <2>4
<1> QED BY <1>1, <1>2 DEF TerminalsStand, DecisionStands

-----------------------------------------------------------------------------
(* The first state, and a quiescent one.                                   *)

\* A fresh arena counts nothing and holds nothing.
LEMMA InitAInv == Init => AInv
<1> SUFFICES ASSUME Init PROVE AInv
  OBVIOUS
<1>1. /\ FreeCommand.phase = "FREE" /\ FreeCommand.lease = 0
      /\ FreeCommand.decision = "NONE"
      /\ FreeCommand.act = [i \in Ordinals |-> NewAction]
  BY SMTT(60) DEF FreeCommand, NewCommand
<1>2. Sound(FreeCommand)
  BY <1>1, SMTT(60) DEF Sound, ActionOK, NewAction, Undecided
<1>3. \A s \in Slots : cmd[s] = FreeCommand
  BY DEF Init
<1>4. AllSound
  BY <1>2, <1>3 DEF AllSound
<1>5. GateInv
  BY <1>1, <1>3 DEF GateInv, Init
<1>6. CountersExact
  <2>1. /\ {s \in Slots : cmd[s].phase = "ACTIVE"} = {}
        /\ {s \in Slots : cmd[s].phase = "INTENT"} = {}
        /\ {s \in Slots : cmd[s].lease # 0} = {}
    BY <1>1, <1>3
  <2>2. Cardinality({}) = 0
    BY FS_EmptySet
  <2> QED BY <2>1, <2>2 DEF CountersExact, Init
<1>7. NoForgottenAction
  <2>1. \A s \in Slots : Held(s) = {}
    BY <1>1, <1>3 DEF Held
  <2>2. \A s \in Slots : {Token(cmd[s], i) : i \in Held(s)} = {}
    BY <2>1
  <2>3. UNION {{Token(cmd[s], i) : i \in Held(s)} : s \in Slots} = {}
    BY <2>2
  <2> QED BY <2>3 DEF NoForgottenAction, Init
<1> QED BY <1>4, <1>5, <1>6, <1>7 DEF AInv

\* Nothing is active when the counter says so.
LEMMA NoneActive == ASSUME CountersExact, active_commands = 0
                    PROVE  \A t \in Slots : cmd[t].phase # "ACTIVE"
<1>1. Cardinality(Active) = 0
  BY DEF CountersExact, Active
<1>2. IsFiniteSet(Active)
  BY SlotSets DEF Active
<1>3. Active = {}
  BY <1>1, <1>2, FS_EmptySet
<1> QED BY <1>3 DEF Active

\* An arena with no active command has no action a driver may hold.
LEMMA QuiescentHolds == ASSUME AInv PROVE QuiescentHoldsNothing
<1> SUFFICES ASSUME effectful_quiescent \/ ~alive PROVE owned = {}
  BY DEF QuiescentHoldsNothing
<1>1. \A s \in Slots : cmd[s].phase # "ACTIVE"
  <2>1. CASE ~alive
    BY <2>1 DEF AInv, GateInv
  <2>2. CASE effectful_quiescent
    BY <2>2, NoneActive DEF effectful_quiescent, AInv
  <2> QED BY <2>1, <2>2
<1>2. \A s \in Slots : Held(s) = {}
  BY <1>1 DEF Held
<1>3. UNION {{Token(cmd[s], i) : i \in Held(s)} : s \in Slots} = {}
  BY <1>2
<1> QED BY <1>3 DEF AInv, NoForgottenAction

=============================================================================
