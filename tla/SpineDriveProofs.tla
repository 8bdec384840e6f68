-------------------------- MODULE SpineDriveProofs --------------------------
(***************************************************************************)
(* How the record of one command may change, for every capacity, set of    *)
(* programs and bound.  Later says what holds of a command after any step  *)
(* that does not free its slot: its identity, its terminal facts and its   *)
(* publication decision stay, cancel and suppress are never taken back.    *)
(* Same says in addition that nothing the counters or the drivers hold of  *)
(* it has changed.  Every step on a driver action and process_abort are    *)
(* shown to change a record in such a way.                                 *)
(***************************************************************************)
EXTENDS SpineInvariants, TLAPS

\* A leaf is left to Zenon unless it names the SMT solver.
USE ZenonT(60)

-----------------------------------------------------------------------------
(* The relations compose.                                                  *)

\* Still is reflexive.
LEMMA StillRefl == ASSUME NEW c \in CommandRecord PROVE Still(c, c)
  BY DEF Still

\* Still is transitive.
LEMMA StillTrans ==
  ASSUME NEW c, NEW d, NEW e, Still(c, d), Still(d, e)
  PROVE Still(c, e)
  BY DEF Still

\* Moves absorbs Still before it.
LEMMA StillMoves ==
  ASSUME NEW c, NEW d, NEW e, NEW i, Still(c, d), Moves(d, e, i)
  PROVE Moves(c, e, i)
  BY DEF Still, Moves

\* Moves absorbs Still after it.
LEMMA MovesStill ==
  ASSUME NEW c, NEW d, NEW e, NEW i \in Ordinals, Moves(c, d, i), Still(d, e)
  PROVE /\ Moves(c, e, i)
        /\ e.act[i].phase = d.act[i].phase /\ e.act[i].term = d.act[i].term
        /\ e.act[i].accepted = d.act[i].accepted
  BY DEF Still, Moves

\* The actions of a command are the first Count of the array.
LEMMA OrdinalsIn ==
  ASSUME NEW c \in CommandRecord, occupied(c) => c.prog \in Programs
  PROVE OrdinalsOf(c) \subseteq Ordinals
<1>1. CASE occupied(c)
  <2>1. Count[c.prog] \in 0 .. MaxActions
    BY <1>1, SpineConstants
  <2> QED BY <1>1, <2>1, SpineConstants, SMTT(60) DEF OrdinalsOf, Ordinals
<1>2. CASE ~occupied(c)
  BY <1>2 DEF OrdinalsOf
<1> QED BY <1>1, <1>2

\* A command that only learns of a cancel request, of poison or of an abort
\* holds and counts for what it did.
LEMMA StillSame ==
  ASSUME NEW c \in CommandRecord, occupied(c) => c.prog \in Programs,
         Sound(c), NEW d, Still(c, d)
  PROVE Same(c, d)
<1>1. Sound(d)
  BY DEF Still, Sound, ActionOK
<1>2. \A i \in Ordinals : ActionLater(c.act[i], d.act[i], c.cancel)
  BY DEF Still, ActionLater, Idle
<1>3. Later(c, d)
  BY <1>1, <1>2 DEF Still, Later, occupied
<1>4. OrdinalsOf(d) = OrdinalsOf(c)
  BY DEF Still, OrdinalsOf, occupied
<1>5. OrdinalsOf(c) \subseteq Ordinals
  BY OrdinalsIn
<1>6. HeldOf(d) = HeldOf(c)
  BY <1>4, <1>5 DEF Still, HeldOf
<1> QED BY <1>3, <1>6 DEF Still, Same

-----------------------------------------------------------------------------
(* What the helpers of the handlers do to a record.                        *)

\* Writing the flags, the abort relation and the cancel request of the actions.
LEMMA FlagsStill ==
  ASSUME NEW c \in CommandRecord, NEW d \in CommandRecord,
         d.phase = c.phase, d.uid = c.uid, d.prog = c.prog,
         d.lease = c.lease, d.decision = c.decision,
         c.cancel => d.cancel, c.suppress => d.suppress,
         \A i \in Ordinals : /\ d.act[i].phase = c.act[i].phase
                             /\ d.act[i].term = c.act[i].term
                             /\ d.act[i].accepted = c.act[i].accepted
  PROVE Still(c, d)
  BY DEF Still

\* The actions of c once those in S are asked to cancel.
Asked(c, S) == [i \in Ordinals |-> IF i \in S THEN [c.act[i] EXCEPT !.cancel = TRUE]
                                              ELSE c.act[i]]

\* Asking actions to cancel changes no phase, terminal or acceptance.
LEMMA RequestCancel ==
  ASSUME NEW c \in CommandRecord, NEW S
  PROVE /\ Asked(c, S) \in [Ordinals -> ActionRecord]
        /\ \A i \in Ordinals : /\ Asked(c, S)[i].phase = c.act[i].phase
                               /\ Asked(c, S)[i].term = c.act[i].term
                               /\ Asked(c, S)[i].accepted = c.act[i].accepted
<1>1. ASSUME NEW i \in Ordinals
      PROVE  /\ Asked(c, S)[i] \in ActionRecord /\ Asked(c, S)[i].phase = c.act[i].phase
             /\ Asked(c, S)[i].term = c.act[i].term
             /\ Asked(c, S)[i].accepted = c.act[i].accepted
  <2> DEFINE b == [c.act[i] EXCEPT !.cancel = TRUE]
  <2>1. c.act[i] \in ActionRecord
    BY <1>1 DEF CommandRecord
  <2>2. b \in ActionRecord
    BY <2>1, ZenonT(60) DEF ActionRecord
  <2>3. /\ b.phase = c.act[i].phase /\ b.term = c.act[i].term
        /\ b.accepted = c.act[i].accepted
    BY <2>1 DEF ActionRecord
  <2>4. Asked(c, S)[i] \in {b, c.act[i]}
    BY <1>1, ZenonT(60) DEF Asked
  <2> HIDE DEF b
  <2> QED BY <2>1, <2>2, <2>3, <2>4
<1>2. Asked(c, S) = [i \in Ordinals |-> Asked(c, S)[i]]
  BY ZenonT(60) DEF Asked
<1> QED BY <1>1, <1>2

\* cancel_all sets the cancel flags and nothing else.
LEMMA CancelAllStill ==
  ASSUME NEW c \in CommandRecord
  PROVE /\ Still(c, cancel_all(c)) /\ cancel_all(c).cancel = TRUE
        /\ cancel_all(c).suppress = c.suppress /\ cancel_all(c).abort = c.abort
        /\ cancel_all(c).incoming = c.incoming
<1> DEFINE a == Asked(c, OrdinalsOf(c))
           d == [c EXCEPT !.cancel = TRUE, !.act = a]
<1>1. /\ a \in [Ordinals -> ActionRecord]
      /\ \A i \in Ordinals : /\ a[i].phase = c.act[i].phase
                             /\ a[i].term = c.act[i].term
                             /\ a[i].accepted = c.act[i].accepted
  BY RequestCancel
<1>2. cancel_all(c) = d
  BY ZenonT(60) DEF cancel_all, Asked
<1> HIDE DEF a
<1>3. d \in CommandRecord
  BY <1>1, ZenonT(60) DEF CommandRecord
<1>4. /\ d.phase = c.phase /\ d.uid = c.uid /\ d.prog = c.prog /\ d.lease = c.lease
      /\ d.decision = c.decision /\ d.cancel = TRUE /\ d.suppress = c.suppress
      /\ d.act = a /\ d.abort = c.abort /\ d.incoming = c.incoming
  BY DEF CommandRecord
<1> HIDE DEF d
<1>5. Still(c, d)
  BY <1>1, <1>3, <1>4, FlagsStill
<1> QED BY <1>2, <1>4, <1>5

\* propagate_cancel sets the cancel flags of actions and nothing else.
LEMMA PropagateStill ==
  ASSUME NEW c \in CommandRecord
  PROVE /\ Still(c, propagate_cancel(c))
        /\ propagate_cancel(c).cancel = c.cancel
        /\ propagate_cancel(c).suppress = c.suppress
        /\ propagate_cancel(c).abort = c.abort
        /\ propagate_cancel(c).incoming = c.incoming
<1>1. c.cancel \in BOOLEAN
  BY DEF CommandRecord
<1>2. CASE c.cancel
  <2>1. propagate_cancel(c) = cancel_all(c)
    BY <1>2, ZenonT(60) DEF propagate_cancel
  <2>2. c.cancel = TRUE
    BY <1>1, <1>2, ZenonT(60)
  <2> QED BY <2>1, <2>2, CancelAllStill, ZenonT(60)
<1>3. CASE ~c.cancel
  <2>1. propagate_cancel(c) = c
    BY <1>3, ZenonT(60) DEF propagate_cancel
  <2> QED BY <2>1, StillRefl
<1> QED BY <1>2, <1>3

\* The other actions are asked to cancel when one has failed.
LEMMA NoteFailureStill ==
  ASSUME NEW c \in CommandRecord, NEW i \in Ordinals
  PROVE /\ Still(c, note_failure(c, i))
        /\ note_failure(c, i).abort = c.abort
        /\ note_failure(c, i).incoming = c.incoming
<1> DEFINE a == Asked(c, OrdinalsOf(c) \ {i})
           d == [c EXCEPT !.first_failure = TRUE, !.cancel = TRUE, !.act = a]
<1>1. /\ a \in [Ordinals -> ActionRecord]
      /\ \A j \in Ordinals : /\ a[j].phase = c.act[j].phase
                             /\ a[j].term = c.act[j].term
                             /\ a[j].accepted = c.act[j].accepted
  BY RequestCancel
<1>2. note_failure(c, i) \in {c, d}
  BY ZenonT(60) DEF note_failure, Asked
<1> HIDE DEF a
<1>3. d \in CommandRecord
  BY <1>1, ZenonT(60) DEF CommandRecord
<1>4. /\ d.phase = c.phase /\ d.uid = c.uid /\ d.prog = c.prog /\ d.lease = c.lease
      /\ d.decision = c.decision /\ d.cancel = TRUE /\ d.suppress = c.suppress
      /\ d.act = a /\ d.abort = c.abort /\ d.incoming = c.incoming
  BY DEF CommandRecord
<1> HIDE DEF d
<1>5. Still(c, d)
  BY <1>1, <1>3, <1>4, FlagsStill
<1> QED BY <1>2, <1>4, <1>5, StillRefl

\* c with action i replaced.
WithAction(c, i, b) == [c EXCEPT !.act[i] = b]

\* Replacing the record of action i moves action i only.
LEMMA SetAction ==
  ASSUME NEW c \in CommandRecord, NEW i \in Ordinals, NEW b \in ActionRecord
  PROVE LET d == WithAction(c, i, b)
        IN /\ Moves(c, d, i) /\ d.act[i] = b
           /\ d.abort = c.abort /\ d.incoming = c.incoming
           /\ d.cancel = c.cancel /\ d.suppress = c.suppress
<1> DEFINE d == WithAction(c, i, b)
<1>1. d \in CommandRecord
  BY DEF CommandRecord, WithAction
<1>2. /\ d.phase = c.phase /\ d.uid = c.uid /\ d.prog = c.prog /\ d.lease = c.lease
      /\ d.decision = c.decision /\ d.cancel = c.cancel /\ d.suppress = c.suppress
      /\ d.abort = c.abort /\ d.incoming = c.incoming
      /\ d.act = [c.act EXCEPT ![i] = b]
  BY DEF CommandRecord, WithAction
<1> HIDE DEF d
<1>3. d.act[i] = b /\ \A j \in Ordinals \ {i} : d.act[j] = c.act[j]
  BY <1>2 DEF CommandRecord
<1>4. Moves(c, d, i)
  BY <1>1, <1>2, <1>3 DEF Moves
<1> QED BY <1>2, <1>3, <1>4 DEF d

\* An action goes to phase ph.
AtPhase(c, i, ph) == [c EXCEPT !.act[i].phase = ph]

\* A new phase for action i.
LEMMA PhaseMoves ==
  ASSUME NEW c \in CommandRecord, NEW i \in Ordinals,
         NEW ph \in ActionPhases
  PROVE LET d == AtPhase(c, i, ph)
        IN /\ Moves(c, d, i) /\ d.abort = c.abort /\ d.incoming = c.incoming
           /\ d.cancel = c.cancel /\ d.suppress = c.suppress
           /\ d.act[i].phase = ph /\ d.act[i].term = c.act[i].term /\ d.act[i].accepted = c.act[i].accepted
<1> DEFINE b == [c.act[i] EXCEPT !.phase = ph]
           d == AtPhase(c, i, ph)
<1>1. c.act[i] \in ActionRecord
  BY DEF CommandRecord
<1>2. b \in ActionRecord
  BY <1>1, ZenonT(60) DEF ActionRecord
<1>3. b.phase = ph /\ b.term = c.act[i].term /\ b.accepted = c.act[i].accepted
  BY <1>1 DEF ActionRecord
<1>4. d = WithAction(c, i, b)
  BY ZenonT(60) DEF CommandRecord, WithAction, AtPhase
<1> HIDE DEF b, d
<1>5. /\ Moves(c, d, i) /\ d.act[i] = b /\ d.abort = c.abort /\ d.incoming = c.incoming
      /\ d.cancel = c.cancel /\ d.suppress = c.suppress
  BY <1>2, <1>4, SetAction
<1> QED BY <1>3, <1>5, ZenonT(60) DEF d

\* A driver accepted the action.
AcceptedAt(c, i, ph) == [c EXCEPT !.act[i].phase = ph, !.act[i].accepted = TRUE]

\* Action i accepted by its driver.
LEMMA AcceptMoves ==
  ASSUME NEW c \in CommandRecord, NEW i \in Ordinals,
         NEW ph \in ActionPhases
  PROVE LET d == AcceptedAt(c, i, ph)
        IN /\ Moves(c, d, i) /\ d.abort = c.abort /\ d.incoming = c.incoming
           /\ d.cancel = c.cancel /\ d.suppress = c.suppress
           /\ d.act[i].phase = ph /\ d.act[i].term = c.act[i].term /\ d.act[i].accepted
<1> DEFINE b == [c.act[i] EXCEPT !.phase = ph, !.accepted = TRUE]
           d == AcceptedAt(c, i, ph)
<1>1. c.act[i] \in ActionRecord
  BY DEF CommandRecord
<1>2. b \in ActionRecord
  BY <1>1, ZenonT(60) DEF ActionRecord
<1>3. b.phase = ph /\ b.term = c.act[i].term /\ b.accepted = TRUE
  BY <1>1 DEF ActionRecord
<1>4. d = WithAction(c, i, b)
  BY ZenonT(60) DEF CommandRecord, WithAction, AcceptedAt
<1> HIDE DEF b, d
<1>5. /\ Moves(c, d, i) /\ d.act[i] = b /\ d.abort = c.abort /\ d.incoming = c.incoming
      /\ d.cancel = c.cancel /\ d.suppress = c.suppress
  BY <1>2, <1>4, SetAction
<1> QED BY <1>3, <1>5, ZenonT(60) DEF d

\* The action gets a terminal fact.
DecidedAt(c, i, k, ph) == [c EXCEPT !.act[i].term = k, !.act[i].phase = ph]

\* The terminal fact of action i.
LEMMA TermMoves ==
  ASSUME NEW c \in CommandRecord, NEW i \in Ordinals,
         NEW ph \in ActionPhases, NEW k \in Terminals
  PROVE LET d == DecidedAt(c, i, k, ph)
        IN /\ Moves(c, d, i) /\ d.abort = c.abort /\ d.incoming = c.incoming
           /\ d.cancel = c.cancel /\ d.suppress = c.suppress
           /\ d.act[i].phase = ph /\ d.act[i].term = k /\ d.act[i].accepted = c.act[i].accepted
<1> DEFINE b == [c.act[i] EXCEPT !.term = k, !.phase = ph]
           d == DecidedAt(c, i, k, ph)
<1>1. c.act[i] \in ActionRecord
  BY DEF CommandRecord
<1>2. b \in ActionRecord
  BY <1>1, ZenonT(60) DEF ActionRecord
<1>3. b.phase = ph /\ b.term = k /\ b.accepted = c.act[i].accepted
  BY <1>1 DEF ActionRecord
<1>4. d = WithAction(c, i, b)
  BY ZenonT(60) DEF CommandRecord, WithAction, DecidedAt
<1> HIDE DEF b, d
<1>5. /\ Moves(c, d, i) /\ d.act[i] = b /\ d.abort = c.abort /\ d.incoming = c.incoming
      /\ d.cancel = c.cancel /\ d.suppress = c.suppress
  BY <1>2, <1>4, SetAction
<1> QED BY <1>3, <1>5, ZenonT(60) DEF d

\* The action is asked to cancel, and the driver has acknowledged.
CancelledAt(c, i) == [c EXCEPT !.act[i].cancel = TRUE]

\* The cancel flag of action i.
LEMMA CancelMoves ==
  ASSUME NEW c \in CommandRecord, NEW i \in Ordinals
  PROVE LET d == CancelledAt(c, i)
        IN /\ Moves(c, d, i) /\ d.abort = c.abort /\ d.incoming = c.incoming
           /\ d.cancel = c.cancel /\ d.suppress = c.suppress
           /\ d.act[i].phase = c.act[i].phase /\ d.act[i].term = c.act[i].term /\ d.act[i].accepted = c.act[i].accepted
<1> DEFINE b == [c.act[i] EXCEPT !.cancel = TRUE]
           d == CancelledAt(c, i)
<1>1. c.act[i] \in ActionRecord
  BY DEF CommandRecord
<1>2. b \in ActionRecord
  BY <1>1, ZenonT(60) DEF ActionRecord
<1>3. b.phase = c.act[i].phase /\ b.term = c.act[i].term /\ b.accepted = c.act[i].accepted
  BY <1>1 DEF ActionRecord
<1>4. d = WithAction(c, i, b)
  BY ZenonT(60) DEF CommandRecord, WithAction, CancelledAt
<1> HIDE DEF b, d
<1>5. /\ Moves(c, d, i) /\ d.act[i] = b /\ d.abort = c.abort /\ d.incoming = c.incoming
      /\ d.cancel = c.cancel /\ d.suppress = c.suppress
  BY <1>2, <1>4, SetAction
<1> QED BY <1>3, <1>5, ZenonT(60) DEF d

AckedAt(c, i) == [c EXCEPT !.act[i].acked = TRUE]

\* The cancel of action i acknowledged.
LEMMA AckedMoves ==
  ASSUME NEW c \in CommandRecord, NEW i \in Ordinals
  PROVE LET d == AckedAt(c, i)
        IN /\ Moves(c, d, i) /\ d.abort = c.abort /\ d.incoming = c.incoming
           /\ d.cancel = c.cancel /\ d.suppress = c.suppress
           /\ d.act[i].phase = c.act[i].phase /\ d.act[i].term = c.act[i].term /\ d.act[i].accepted = c.act[i].accepted
<1> DEFINE b == [c.act[i] EXCEPT !.acked = TRUE]
           d == AckedAt(c, i)
<1>1. c.act[i] \in ActionRecord
  BY DEF CommandRecord
<1>2. b \in ActionRecord
  BY <1>1, ZenonT(60) DEF ActionRecord
<1>3. b.phase = c.act[i].phase /\ b.term = c.act[i].term /\ b.accepted = c.act[i].accepted
  BY <1>1 DEF ActionRecord
<1>4. d = WithAction(c, i, b)
  BY ZenonT(60) DEF CommandRecord, WithAction, AckedAt
<1> HIDE DEF b, d
<1>5. /\ Moves(c, d, i) /\ d.act[i] = b /\ d.abort = c.abort /\ d.incoming = c.incoming
      /\ d.cancel = c.cancel /\ d.suppress = c.suppress
  BY <1>2, <1>4, SetAction
<1> QED BY <1>3, <1>5, ZenonT(60) DEF d

\* Two changes of action i are one.
LEMMA MovesMoves ==
  ASSUME NEW c, NEW d, NEW e, NEW i, Moves(c, d, i), Moves(d, e, i)
  PROVE Moves(c, e, i)
  BY DEF Moves

\* status_synthetic: the action is drained without a driver.
LEMMA SyntheticMoves ==
  ASSUME NEW c \in CommandRecord, NEW i \in Ordinals, NEW k \in Terminals
  PROVE LET d == status_synthetic(c, i, k)
        IN /\ Moves(c, d, i) /\ d.abort = c.abort /\ d.incoming = c.incoming
           /\ d.act[i].phase = "DRAINED" /\ d.act[i].term = k
           /\ d.act[i].accepted = c.act[i].accepted
<1> DEFINE e == DecidedAt(c, i, k, "DRAINED")
           d == status_synthetic(c, i, k)
<1>1. /\ Moves(c, e, i) /\ e.abort = c.abort /\ e.incoming = c.incoming
      /\ e.act[i].phase = "DRAINED" /\ e.act[i].term = k
      /\ e.act[i].accepted = c.act[i].accepted
  BY TermMoves, SMTT(60) DEF ActionPhases
<1>2. d = note_failure(e, i)
  BY ZenonT(60) DEF status_synthetic, DecidedAt
<1> HIDE DEF e, d
<1>3. e \in CommandRecord
  BY <1>1 DEF Moves
<1>4. Still(e, d) /\ d.abort = e.abort /\ d.incoming = e.incoming
  BY <1>2, <1>3, NoteFailureStill
<1>5. /\ Moves(c, d, i) /\ d.act[i].phase = e.act[i].phase
      /\ d.act[i].term = e.act[i].term /\ d.act[i].accepted = e.act[i].accepted
  BY <1>1, <1>4, MovesStill, SMTT(60)
<1> QED BY <1>1, <1>4, <1>5 DEF d

\* accept_terminal and the phase action_query writes after it.
LEMMA TerminalMoves ==
  ASSUME NEW c \in CommandRecord, NEW i \in Ordinals, NEW k \in Terminals
  PROVE LET d == AcceptedAt(accept_terminal(c, i, k), i, "TERMINAL")
        IN /\ Moves(c, d, i) /\ d.abort = c.abort /\ d.incoming = c.incoming
           /\ d.act[i].phase = "TERMINAL" /\ d.act[i].term = k /\ d.act[i].accepted
<1> DEFINE r == c.resolved \/ (k = "SUCCEEDED" /\ ~close_started /\ Role[c.prog] = "ABORT")
           b == [c.act[i] EXCEPT !.term = k]
           w == WithAction(c, i, b)
           e == [w EXCEPT !.resolved = r]
           f == accept_terminal(c, i, k)
           d == AcceptedAt(f, i, "TERMINAL")
<1>1. c.act[i] \in ActionRecord
  BY DEF CommandRecord
<1>2. b \in ActionRecord
  BY <1>1, ZenonT(60) DEF ActionRecord
<1>3. b.phase = c.act[i].phase /\ b.term = k /\ b.accepted = c.act[i].accepted
  BY <1>1 DEF ActionRecord
<1>4. f = note_failure(e, i)
  BY ZenonT(60) DEF accept_terminal, CommandRecord, WithAction
<1>5. r \in BOOLEAN
  BY DEF CommandRecord
<1> HIDE DEF b, r, f
<1>6. Moves(c, w, i) /\ w.act[i] = b /\ w.abort = c.abort /\ w.incoming = c.incoming
  BY <1>2, SetAction
<1> HIDE DEF w
<1>7. w \in CommandRecord
  BY <1>6 DEF Moves
<1>8. e \in CommandRecord
  BY <1>5, <1>7, ZenonT(60) DEF CommandRecord
<1>9. /\ e.phase = w.phase /\ e.uid = w.uid /\ e.prog = w.prog /\ e.lease = w.lease
      /\ e.decision = w.decision /\ e.cancel = w.cancel /\ e.suppress = w.suppress
      /\ e.act = w.act /\ e.abort = w.abort /\ e.incoming = w.incoming
  BY <1>7 DEF CommandRecord
<1> HIDE DEF e
<1>10. Still(w, e)
  BY <1>7, <1>8, <1>9, FlagsStill
<1>11. /\ Still(e, f) /\ f.abort = e.abort /\ f.incoming = e.incoming
  BY <1>4, <1>8, NoteFailureStill
<1>12. /\ Moves(c, f, i) /\ f.act[i].phase = b.phase /\ f.act[i].term = b.term
       /\ f.act[i].accepted = b.accepted
  BY <1>6, <1>9, <1>10, <1>11, MovesStill, SMTT(60)
<1>13. f \in CommandRecord
  BY <1>12 DEF Moves
<1>14. /\ Moves(f, d, i) /\ d.abort = f.abort /\ d.incoming = f.incoming
       /\ d.act[i].phase = "TERMINAL" /\ d.act[i].term = f.act[i].term
       /\ d.act[i].accepted
  <2>1. "TERMINAL" \in ActionPhases
    BY DEF ActionPhases
  <2> HIDE DEF d
  <2>2. d = AcceptedAt(f, i, "TERMINAL")
    BY DEF d
  <2> QED BY <1>13, <2>1, <2>2, AcceptMoves, SMTT(60)
<1> HIDE DEF d
<1>15. Moves(c, d, i)
  BY <1>12, <1>14, MovesMoves
<1>16. /\ Moves(c, d, i) /\ d.abort = c.abort /\ d.incoming = c.incoming
       /\ d.act[i].phase = "TERMINAL" /\ d.act[i].term = k /\ d.act[i].accepted
  BY <1>3, <1>6, <1>9, <1>11, <1>12, <1>14, <1>15
<1> QED BY <1>16, ZenonT(60) DEF d, f

\* poison_lifecycle on an active command.
LEMMA PoisonedStill ==
  ASSUME NEW c \in CommandRecord
  PROVE LET d == [c EXCEPT !.cancel = TRUE, !.suppress = TRUE]
        IN /\ Still(c, d) /\ d.cancel = TRUE /\ d.suppress = TRUE
           /\ d.abort = c.abort /\ d.incoming = c.incoming
<1> DEFINE d == [c EXCEPT !.cancel = TRUE, !.suppress = TRUE]
<1>1. d \in CommandRecord
  BY ZenonT(60) DEF CommandRecord
<1>2. /\ d.phase = c.phase /\ d.uid = c.uid /\ d.prog = c.prog /\ d.lease = c.lease
      /\ d.decision = c.decision /\ d.cancel = TRUE /\ d.suppress = TRUE
      /\ d.act = c.act /\ d.abort = c.abort /\ d.incoming = c.incoming
  BY DEF CommandRecord
<1> HIDE DEF d
<1>3. Still(c, d)
  BY <1>1, <1>2, FlagsStill
<1> QED BY <1>2, <1>3, ZenonT(60) DEF d

-----------------------------------------------------------------------------
(* What a driver step makes of a command.                                  *)

\* A step on one action: what it writes to the action decides whether the
\* command is still well formed, and whether the action is held.
LEMMA MovesLater ==
  ASSUME NEW c \in CommandRecord, occupied(c) => c.prog \in Programs, Sound(c),
         NEW i \in Ordinals, NEW d, Moves(c, d, i), ActionOK(d.act[i]),
         ActionLater(c.act[i], d.act[i], c.cancel)
  PROVE /\ Later(c, d) /\ d.phase = c.phase /\ d.lease = c.lease
        /\ \A j \in OrdinalsOf(c) \ {i} : j \in HeldOf(d) <=> j \in HeldOf(c)
        /\ HeldOf(d) \subseteq OrdinalsOf(c)
        /\ (i \in OrdinalsOf(c) /\ c.phase = "ACTIVE") =>
              (i \in HeldOf(d) <=> d.act[i].phase \in HeldPhases)
<1>1. Sound(d)
  BY SMTT(60) DEF Moves, Sound, ActionOK
<1>2. \A j \in Ordinals : ActionLater(c.act[j], d.act[j], c.cancel)
  BY DEF Moves, ActionLater, Idle
<1>3. Later(c, d)
  BY <1>1, <1>2 DEF Moves, Later, occupied
<1>4. OrdinalsOf(d) = OrdinalsOf(c)
  BY DEF Moves, OrdinalsOf, occupied
<1>5. OrdinalsOf(c) \subseteq Ordinals
  BY OrdinalsIn
<1> QED BY <1>3, <1>4, <1>5 DEF Moves, HeldOf

\* A step on one action that changes neither its facts nor whether it is held.
LEMMA MovesSame ==
  ASSUME NEW c \in CommandRecord, occupied(c) => c.prog \in Programs, Sound(c),
         NEW i \in Ordinals, NEW d, Moves(c, d, i), ActionOK(d.act[i]),
         ActionLater(c.act[i], d.act[i], c.cancel),
         i \in OrdinalsOf(c), c.phase = "ACTIVE",
         d.act[i].phase \in HeldPhases <=> c.act[i].phase \in HeldPhases
  PROVE Same(c, d)
<1>1. /\ Later(c, d) /\ d.phase = c.phase /\ d.lease = c.lease
      /\ \A j \in OrdinalsOf(c) \ {i} : j \in HeldOf(d) <=> j \in HeldOf(c)
      /\ HeldOf(d) \subseteq OrdinalsOf(c)
      /\ i \in HeldOf(d) <=> d.act[i].phase \in HeldPhases
  BY MovesLater
<1>2. i \in HeldOf(c) <=> c.act[i].phase \in HeldPhases
  BY DEF HeldOf
<1>3. HeldOf(c) \subseteq OrdinalsOf(c)
  BY DEF HeldOf
<1>4. HeldOf(d) = HeldOf(c)
  BY <1>1, <1>2, <1>3, SMTT(60)
<1> QED BY <1>1, <1>4 DEF Same

-----------------------------------------------------------------------------
(* What a step on one action does.                                         *)

\* A step that leaves the action as held as it was.
LEMMA DrivenSame ==
  ASSUME NEW s \in Slots, NEW i \in Ordinals, NEW d, cmd[s] \in CommandRecord,
         occupied(cmd[s]) => cmd[s].prog \in Programs, Sound(cmd[s]),
         cmd[s].phase = "ACTIVE", i \in OrdinalsOf(cmd[s]),
         Moves(cmd[s], d, i), ActionOK(d.act[i]),
         ActionLater(cmd[s].act[i], d.act[i], cmd[s].cancel),
         d.act[i].phase \in HeldPhases <=> cmd[s].act[i].phase \in HeldPhases,
         d.abort = cmd[s].abort, Touch(s, d), owned' = owned
  PROVE Driven(s, i, d)
<1>1. Same(cmd[s], d)
  BY MovesSame
<1> QED BY <1>1 DEF Driven, Same, Handed

\* The cancel request of the command reaches its actions first.
LEMMA AtActionPropagated ==
  ASSUME NEW s \in Slots, NEW i \in Ordinals, NEW ph, cmd[s] \in CommandRecord,
         occupied(cmd[s]) => cmd[s].prog \in Programs,
         Sound(cmd[s]), AtAction(s, i, ph)
  PROVE LET c == propagate_cancel(cmd[s])
        IN /\ c \in CommandRecord /\ Still(cmd[s], c) /\ c.cancel = cmd[s].cancel
           /\ c.abort = cmd[s].abort /\ Token(c, i) = Token(cmd[s], i)
           /\ c.act[i].phase \in ph /\ c.act[i].phase = cmd[s].act[i].phase
           /\ c.act[i].term = cmd[s].act[i].term
           /\ c.act[i].accepted = cmd[s].act[i].accepted
           /\ ActionOK(c.act[i]) /\ ActionOK(cmd[s].act[i])
           /\ cmd[s].phase = "ACTIVE" /\ i \in OrdinalsOf(cmd[s])
<1> DEFINE c == propagate_cancel(cmd[s])
<1>1. Still(cmd[s], c) /\ c.cancel = cmd[s].cancel /\ c.abort = cmd[s].abort
  BY PropagateStill
<1>2. cmd[s].phase = "ACTIVE" /\ i \in OrdinalsOf(cmd[s]) /\ cmd[s].act[i].phase \in ph
  BY DEF AtAction
<1> HIDE DEF c
<1>3. Token(c, i) = Token(cmd[s], i)
  BY <1>1 DEF Still, Token
<1>4. /\ c.act[i].phase = cmd[s].act[i].phase /\ c.act[i].term = cmd[s].act[i].term
      /\ c.act[i].accepted = cmd[s].act[i].accepted /\ c \in CommandRecord
  BY <1>1 DEF Still
<1>5. ActionOK(cmd[s].act[i])
  BY DEF Sound
<1>6. ActionOK(c.act[i])
  BY <1>4, <1>5 DEF ActionOK
<1> QED BY <1>1, <1>2, <1>3, <1>4, <1>5, <1>6 DEF c

\* process_command up to the submit: nothing is handed to a driver.
LEMMA WaitDriven ==
  ASSUME NEW s \in Slots, NEW i \in Ordinals, cmd[s] \in CommandRecord,
         occupied(cmd[s]) => cmd[s].prog \in Programs, Sound(cmd[s]),
         WaitDep(s, i) \/ SubmitCancelled(s, i)
  PROVE \E d : Driven(s, i, d)
<1> DEFINE c == propagate_cancel(cmd[s])
<1>1. ASSUME NEW d, d = status_synthetic(c, i, "CANCELLED"), Install(s, d), owned' = owned,
             AtAction(s, i, {"WAIT_DEP", "SUBMIT_READY"})
      PROVE  Driven(s, i, d)
  <2>1. /\ c \in CommandRecord /\ Still(cmd[s], c) /\ c.cancel = cmd[s].cancel
        /\ c.abort = cmd[s].abort
        /\ c.act[i].phase \in {"WAIT_DEP", "SUBMIT_READY"}
        /\ c.act[i].phase = cmd[s].act[i].phase
        /\ c.act[i].term = cmd[s].act[i].term
        /\ c.act[i].accepted = cmd[s].act[i].accepted
        /\ ActionOK(cmd[s].act[i])
        /\ cmd[s].phase = "ACTIVE" /\ i \in OrdinalsOf(cmd[s])
    BY <1>1, AtActionPropagated, SMTT(60)
  <2> HIDE DEF c
  <2>2. /\ Moves(c, d, i) /\ d.abort = c.abort
        /\ d.act[i].phase = "DRAINED" /\ d.act[i].term = "CANCELLED"
        /\ d.act[i].accepted = c.act[i].accepted
    BY <1>1, <2>1, SyntheticMoves, SMTT(60) DEF Terminals
  <2>3. Moves(cmd[s], d, i)
    BY <2>1, <2>2, StillMoves
  <2>4. ActionOK(d.act[i]) /\ ActionLater(cmd[s].act[i], d.act[i], cmd[s].cancel)
    BY <2>1, <2>2 DEF ActionOK, ActionLater, Idle, Undecided
  <2>5. d.act[i].phase \in HeldPhases <=> cmd[s].act[i].phase \in HeldPhases
    BY <2>1, <2>2 DEF HeldPhases
  <2>6. Touch(s, d) /\ d.abort = cmd[s].abort
    BY <1>1, <2>1, <2>2 DEF Touch
  <2> QED BY <1>1, <2>1, <2>3, <2>4, <2>5, <2>6, DrivenSame
<1>2. ASSUME NEW d, d = AtPhase(c, i, "SUBMIT_READY"), Install(s, d), owned' = owned,
             AtAction(s, i, {"WAIT_DEP"})
      PROVE  Driven(s, i, d)
  <2>1. /\ c \in CommandRecord /\ Still(cmd[s], c) /\ c.cancel = cmd[s].cancel
        /\ c.abort = cmd[s].abort
        /\ c.act[i].phase = "WAIT_DEP" /\ cmd[s].act[i].phase = "WAIT_DEP"
        /\ c.act[i].term = cmd[s].act[i].term
        /\ c.act[i].accepted = cmd[s].act[i].accepted
        /\ ActionOK(cmd[s].act[i])
        /\ cmd[s].phase = "ACTIVE" /\ i \in OrdinalsOf(cmd[s])
    BY <1>2, AtActionPropagated, SMTT(60)
  <2> HIDE DEF c
  <2>2. /\ Moves(c, d, i) /\ d.abort = c.abort
        /\ d.act[i].phase = "SUBMIT_READY" /\ d.act[i].term = c.act[i].term
        /\ d.act[i].accepted = c.act[i].accepted
    BY <1>2, <2>1, PhaseMoves, SMTT(60) DEF ActionPhases
  <2>3. Moves(cmd[s], d, i)
    BY <2>1, <2>2, StillMoves
  <2>4. ActionOK(d.act[i]) /\ ActionLater(cmd[s].act[i], d.act[i], cmd[s].cancel)
    BY <2>1, <2>2 DEF ActionOK, ActionLater, Idle, Undecided
  <2>5. d.act[i].phase \in HeldPhases <=> cmd[s].act[i].phase \in HeldPhases
    BY <2>1, <2>2 DEF HeldPhases
  <2>6. Touch(s, d) /\ d.abort = cmd[s].abort
    BY <1>2, <2>1, <2>2 DEF Touch
  <2> QED BY <1>2, <2>1, <2>3, <2>4, <2>5, <2>6, DrivenSame
<1>3. AtAction(s, i, {"WAIT_DEP"}) \/ AtAction(s, i, {"SUBMIT_READY"})
         => AtAction(s, i, {"WAIT_DEP", "SUBMIT_READY"})
  BY DEF AtAction
<1>4. CASE WaitDep(s, i)
  <2>1. /\ AtAction(s, i, {"WAIT_DEP"}) /\ owned' = owned
        /\ \/ Install(s, status_synthetic(c, i, "CANCELLED"))
           \/ Install(s, AtPhase(c, i, "SUBMIT_READY"))
    BY <1>4 DEF WaitDep, AtPhase
  <2> QED BY <1>1, <1>2, <1>3, <2>1
<1>5. CASE SubmitCancelled(s, i)
  <2>1. /\ AtAction(s, i, {"SUBMIT_READY"}) /\ owned' = owned
        /\ Install(s, status_synthetic(c, i, "CANCELLED"))
    BY <1>5 DEF SubmitCancelled
  <2> QED BY <1>1, <1>3, <2>1
<1> QED BY <1>4, <1>5

\* A step that hands the action to a driver, and one that takes it back.
LEMMA DrivenGain ==
  ASSUME NEW s \in Slots, NEW i \in Ordinals, NEW d, cmd[s] \in CommandRecord,
         occupied(cmd[s]) => cmd[s].prog \in Programs, Sound(cmd[s]),
         cmd[s].phase = "ACTIVE", i \in OrdinalsOf(cmd[s]), ~cmd[s].cancel,
         Moves(cmd[s], d, i), ActionOK(d.act[i]),
         ActionLater(cmd[s].act[i], d.act[i], cmd[s].cancel),
         d.act[i].phase \in HeldPhases,
         d.abort = cmd[s].abort, Touch(s, d), owned' = owned \cup {Token(cmd[s], i)}
  PROVE Driven(s, i, d)
<1>1. /\ Later(cmd[s], d) /\ d.phase = cmd[s].phase /\ d.lease = cmd[s].lease
      /\ \A j \in OrdinalsOf(cmd[s]) \ {i} : j \in HeldOf(d) <=> j \in HeldOf(cmd[s])
      /\ HeldOf(d) \subseteq OrdinalsOf(cmd[s]) /\ i \in HeldOf(d)
  BY MovesLater
<1>2. HeldOf(cmd[s]) \subseteq OrdinalsOf(cmd[s])
  BY DEF HeldOf
<1>3. HeldOf(d) = HeldOf(cmd[s]) \cup {i}
  BY <1>1, <1>2
<1> QED BY <1>1, <1>3 DEF Driven, Handed

\* A change after which the driver no longer holds action i.
LEMMA DrivenLose ==
  ASSUME NEW s \in Slots, NEW i \in Ordinals, NEW d, cmd[s] \in CommandRecord,
         occupied(cmd[s]) => cmd[s].prog \in Programs, Sound(cmd[s]),
         cmd[s].phase = "ACTIVE", i \in OrdinalsOf(cmd[s]),
         Moves(cmd[s], d, i), ActionOK(d.act[i]),
         ActionLater(cmd[s].act[i], d.act[i], cmd[s].cancel),
         d.act[i].phase \notin HeldPhases,
         d.abort = cmd[s].abort, Touch(s, d), owned' = owned \ {Token(cmd[s], i)}
  PROVE Driven(s, i, d)
<1>1. /\ Later(cmd[s], d) /\ d.phase = cmd[s].phase /\ d.lease = cmd[s].lease
      /\ \A j \in OrdinalsOf(cmd[s]) \ {i} : j \in HeldOf(d) <=> j \in HeldOf(cmd[s])
      /\ HeldOf(d) \subseteq OrdinalsOf(cmd[s]) /\ i \notin HeldOf(d)
  BY MovesLater
<1>2. HeldOf(cmd[s]) \subseteq OrdinalsOf(cmd[s])
  BY DEF HeldOf
<1>3. HeldOf(d) = HeldOf(cmd[s]) \ {i}
  BY <1>1, <1>2
<1> QED BY <1>1, <1>3 DEF Driven, Handed

\* driver->ops->submit and its five answers.
LEMMA SubmitDriven ==
  ASSUME NEW s \in Slots, NEW i \in Ordinals, cmd[s] \in CommandRecord,
         occupied(cmd[s]) => cmd[s].prog \in Programs, Sound(cmd[s]), Submit(s, i)
  PROVE \E d : Driven(s, i, d)
<1> DEFINE c == cmd[s]
<1>1. /\ c.phase = "ACTIVE" /\ i \in OrdinalsOf(c) /\ c.act[i].phase = "SUBMIT_READY"
      /\ ~c.cancel /\ ActionOK(c.act[i])
  BY DEF Submit, AtAction, Sound
<1>2. \/ /\ env.lost \/ env.faults
         /\ Touch(s, AtPhase(c, i, "SUBMIT_UNKNOWN")) /\ owned' = owned \cup {Token(c, i)}
      \/ Touch(s, c) /\ owned' = owned
      \/ Touch(s, status_synthetic(c, i, "FAILED")) /\ owned' = owned
      \/ Touch(s, AcceptedAt(c, i, "ACCEPTED")) /\ owned' = owned \cup {Token(c, i)}
  BY DEF Submit, DriverError, Touch, AtPhase, AcceptedAt
<1>3. CASE /\ env.lost \/ env.faults
           /\ Touch(s, AtPhase(c, i, "SUBMIT_UNKNOWN")) /\ owned' = owned \cup {Token(c, i)}
  <2> DEFINE d == AtPhase(c, i, "SUBMIT_UNKNOWN")
  <2>1. /\ Moves(c, d, i) /\ d.abort = c.abort
        /\ d.act[i].phase = "SUBMIT_UNKNOWN" /\ d.act[i].term = c.act[i].term
        /\ d.act[i].accepted = c.act[i].accepted
    BY PhaseMoves, SMTT(60) DEF ActionPhases
  <2> HIDE DEF d
  <2>2. ActionOK(d.act[i]) /\ ActionLater(c.act[i], d.act[i], c.cancel)
    BY <1>1, <1>3, <2>1 DEF ActionOK, ActionLater, Idle, Undecided
  <2>3. d.act[i].phase \in HeldPhases
    BY <2>1 DEF HeldPhases
  <2>4. Driven(s, i, d)
    BY <1>1, <1>3, <2>1, <2>2, <2>3, DrivenGain DEF d
  <2> QED BY <2>4, SMTT(60)
<1>4. CASE Touch(s, c) /\ owned' = owned
  <2>1. Same(c, c)
    BY StillRefl, StillSame
  <2> QED BY <1>4, <2>1 DEF Driven, Same, Handed
<1>5. CASE Touch(s, status_synthetic(c, i, "FAILED")) /\ owned' = owned
  <2> DEFINE d == status_synthetic(c, i, "FAILED")
  <2>1. /\ Moves(c, d, i) /\ d.abort = c.abort
        /\ d.act[i].phase = "DRAINED" /\ d.act[i].term = "FAILED"
        /\ d.act[i].accepted = c.act[i].accepted
    BY SyntheticMoves, SMTT(60) DEF Terminals
  <2> HIDE DEF d
  <2>2. ActionOK(d.act[i]) /\ ActionLater(c.act[i], d.act[i], c.cancel)
    BY <1>1, <2>1 DEF ActionOK, ActionLater, Idle, Undecided
  <2>3. d.act[i].phase \in HeldPhases <=> c.act[i].phase \in HeldPhases
    BY <1>1, <2>1 DEF HeldPhases
  <2>4. Driven(s, i, d)
    BY <1>1, <1>5, <2>1, <2>2, <2>3, DrivenSame DEF d
  <2> QED BY <2>4
<1>6. CASE Touch(s, AcceptedAt(c, i, "ACCEPTED")) /\ owned' = owned \cup {Token(c, i)}
  <2> DEFINE d == AcceptedAt(c, i, "ACCEPTED")
  <2>0. "ACCEPTED" \in ActionPhases
    BY DEF ActionPhases
  <2>1. /\ Moves(c, d, i) /\ d.abort = c.abort
        /\ d.act[i].phase = "ACCEPTED" /\ d.act[i].term = c.act[i].term
        /\ d.act[i].accepted
    BY <2>0, AcceptMoves, SMTT(60)
  <2> HIDE DEF d
  <2>2. ActionOK(d.act[i]) /\ ActionLater(c.act[i], d.act[i], c.cancel)
    BY <1>1, <2>1 DEF ActionOK, ActionLater, Idle, Undecided
  <2>3. d.act[i].phase \in HeldPhases
    BY <2>1 DEF HeldPhases
  <2>4. Driven(s, i, d)
    BY <1>1, <1>6, <2>1, <2>2, <2>3, DrivenGain DEF d
  <2> QED BY <2>4
<1> QED BY <1>2, <1>3, <1>4, <1>5, <1>6

\* An answer that changes no fact of the action.
LEMMA KeptDriven ==
  ASSUME NEW s \in Slots, NEW i \in Ordinals, NEW ph, cmd[s] \in CommandRecord,
         occupied(cmd[s]) => cmd[s].prog \in Programs, Sound(cmd[s]), AtAction(s, i, ph),
         NEW d, Moves(propagate_cancel(cmd[s]), d, i),
         d.abort = propagate_cancel(cmd[s]).abort,
         d.act[i].phase = propagate_cancel(cmd[s]).act[i].phase,
         d.act[i].term = propagate_cancel(cmd[s]).act[i].term,
         d.act[i].accepted = propagate_cancel(cmd[s]).act[i].accepted,
         Touch(s, d), owned' = owned
  PROVE Driven(s, i, d)
<1> DEFINE c == propagate_cancel(cmd[s])
<1>1. /\ c \in CommandRecord /\ Still(cmd[s], c) /\ c.abort = cmd[s].abort
      /\ c.act[i].phase = cmd[s].act[i].phase
      /\ c.act[i].term = cmd[s].act[i].term
      /\ c.act[i].accepted = cmd[s].act[i].accepted /\ ActionOK(cmd[s].act[i])
      /\ cmd[s].phase = "ACTIVE" /\ i \in OrdinalsOf(cmd[s])
  BY AtActionPropagated
<1> HIDE DEF c
<1>2. Moves(cmd[s], d, i)
  BY <1>1, StillMoves DEF c
<1>3. /\ d.abort = cmd[s].abort /\ d.act[i].phase = cmd[s].act[i].phase
      /\ d.act[i].term = cmd[s].act[i].term
      /\ d.act[i].accepted = cmd[s].act[i].accepted
  BY <1>1 DEF c
<1>4. ActionOK(d.act[i]) /\ ActionLater(cmd[s].act[i], d.act[i], cmd[s].cancel)
  <2>1. ActionOK(cmd[s].act[i])
    BY <1>1
  <2>2. ActionOK(d.act[i])
    BY <1>3, <2>1 DEF ActionOK
  <2>3. ActionLater(cmd[s].act[i], d.act[i], cmd[s].cancel)
    BY <1>3 DEF ActionLater, Idle
  <2> QED BY <2>2, <2>3
<1>5. d.act[i].phase \in HeldPhases <=> cmd[s].act[i].phase \in HeldPhases
  BY <1>3
<1> QED BY <1>1, <1>2, <1>3, <1>4, <1>5, DrivenSame

\* An answer that moves an action a driver holds to a later phase, which the
\* driver still holds.
LEMMA HeldDriven ==
  ASSUME NEW s \in Slots, NEW i \in Ordinals, NEW ph, cmd[s] \in CommandRecord,
         occupied(cmd[s]) => cmd[s].prog \in Programs, Sound(cmd[s]), AtAction(s, i, ph),
         ph \subseteq HeldPhases,
         NEW d, Moves(propagate_cancel(cmd[s]), d, i),
         d.abort = propagate_cancel(cmd[s]).abort,
         d.act[i].phase \in HeldPhases, d.act[i].phase # "SUBMIT_UNKNOWN",
         ActionOK(d.act[i]),
         cmd[s].act[i].term # "NONE" => d.act[i].term = cmd[s].act[i].term,
         Touch(s, d), owned' = owned
  PROVE Driven(s, i, d)
<1> DEFINE c == propagate_cancel(cmd[s])
<1>1. /\ c \in CommandRecord /\ Still(cmd[s], c) /\ c.abort = cmd[s].abort
      /\ c.act[i].phase \in ph
      /\ c.act[i].phase = cmd[s].act[i].phase /\ ActionOK(cmd[s].act[i])
      /\ cmd[s].phase = "ACTIVE" /\ i \in OrdinalsOf(cmd[s])
  BY AtActionPropagated
<1> HIDE DEF c
<1>2. Moves(cmd[s], d, i) /\ d.abort = cmd[s].abort
  BY <1>1, StillMoves DEF c
<1>3. cmd[s].act[i].phase \in HeldPhases
  BY <1>1
<1>4. ActionLater(cmd[s].act[i], d.act[i], cmd[s].cancel)
  BY <1>1, <1>3 DEF ActionOK, ActionLater, Idle, HeldPhases
<1>5. d.act[i].phase \in HeldPhases <=> cmd[s].act[i].phase \in HeldPhases
  BY <1>3
<1> QED BY <1>1, <1>2, <1>4, <1>5, DrivenSame

\* driver->ops->cancel.
LEMMA CancelDriven ==
  ASSUME NEW s \in Slots, NEW i \in Ordinals, cmd[s] \in CommandRecord,
         occupied(cmd[s]) => cmd[s].prog \in Programs, Sound(cmd[s]), CancelAction(s, i)
  PROVE \E d : Driven(s, i, d)
<1> DEFINE c == propagate_cancel(cmd[s])
           e == CancelledAt(c, i)
           f == AckedAt(e, i)
<1>1. AtAction(s, i, {"ACCEPTED"}) /\ owned' = owned /\ (Touch(s, f) \/ Touch(s, e))
  BY DEF CancelAction, DriverError, Touch, CancelledAt, AckedAt
<1>2. c \in CommandRecord
  BY <1>1, AtActionPropagated
<1> HIDE DEF c
<1>3. /\ Moves(c, e, i) /\ e.abort = c.abort
      /\ e.act[i].phase = c.act[i].phase /\ e.act[i].term = c.act[i].term
      /\ e.act[i].accepted = c.act[i].accepted
  BY <1>2, CancelMoves
<1> HIDE DEF e
<1>4. e \in CommandRecord
  BY <1>3 DEF Moves
<1>5. /\ Moves(e, f, i) /\ f.abort = e.abort
      /\ f.act[i].phase = e.act[i].phase /\ f.act[i].term = e.act[i].term
      /\ f.act[i].accepted = e.act[i].accepted
  BY <1>4, AckedMoves
<1> HIDE DEF f
<1>6. Moves(c, f, i)
  BY <1>3, <1>5, MovesMoves
<1>7. /\ f.abort = c.abort /\ f.act[i].phase = c.act[i].phase
      /\ f.act[i].term = c.act[i].term /\ f.act[i].accepted = c.act[i].accepted
  BY <1>3, <1>5
<1>8. Touch(s, f) => Driven(s, i, f)
  BY <1>1, <1>6, <1>7, KeptDriven DEF c
<1>9. Touch(s, e) => Driven(s, i, e)
  BY <1>1, <1>3, KeptDriven DEF c
<1> QED BY <1>1, <1>8, <1>9

\* c with no change but the propagated cancel request.
LEMMA SelfMoves ==
  ASSUME NEW c \in CommandRecord, NEW i PROVE Moves(c, c, i)
  BY DEF Moves

\* driver->ops->query.
LEMMA QueryDriven ==
  ASSUME NEW s \in Slots, NEW i \in Ordinals, cmd[s] \in CommandRecord,
         occupied(cmd[s]) => cmd[s].prog \in Programs, Sound(cmd[s]), action_query(s, i)
  PROVE \E d : Driven(s, i, d)
<1> DEFINE c == propagate_cancel(cmd[s])
           ph == {"SUBMIT_UNKNOWN", "ACCEPTED"}
<1>1. /\ AtAction(s, i, ph) /\ owned' = owned
      /\ \/ Touch(s, c)
         \/ Touch(s, AcceptedAt(c, i, "ACCEPTED"))
         \/ \E k \in Terminals : Touch(s, AcceptedAt(accept_terminal(c, i, k), i, "TERMINAL"))
  BY DEF action_query, DriverError, Touch, AcceptedAt
<1>2. /\ c \in CommandRecord /\ cmd[s].act[i].phase \in ph /\ ActionOK(cmd[s].act[i])
      /\ c.act[i].term = cmd[s].act[i].term
  BY <1>1, AtActionPropagated, SMTT(60)
<1>3. cmd[s].act[i].term = "NONE" /\ ph \subseteq HeldPhases
  BY <1>2 DEF ActionOK, Undecided, HeldPhases
<1>a. c \in CommandRecord
  BY <1>2
<1> HIDE DEF c, ph
<1>4. CASE Touch(s, c)
  <2>1. Driven(s, i, c)
    BY <1>1, <1>2, <1>4, SelfMoves, KeptDriven DEF c
  <2> QED BY <2>1
<1>5. CASE Touch(s, AcceptedAt(c, i, "ACCEPTED"))
  <2> DEFINE d == AcceptedAt(c, i, "ACCEPTED")
  <2>0. "ACCEPTED" \in ActionPhases
    BY DEF ActionPhases
  <2>1. /\ Moves(c, d, i) /\ d.abort = c.abort
        /\ d.act[i].phase = "ACCEPTED" /\ d.act[i].term = c.act[i].term
        /\ d.act[i].accepted
    BY <1>a, <2>0, AcceptMoves, SMTT(60)
  <2> HIDE DEF d
  <2>2. /\ ActionOK(d.act[i]) /\ d.act[i].phase \in HeldPhases
        /\ d.act[i].phase # "SUBMIT_UNKNOWN"
    BY <1>2, <1>3, <2>1 DEF ActionOK, Undecided, HeldPhases
  <2>3. Touch(s, d)
    BY <1>5 DEF d
  <2>4. Driven(s, i, d)
    BY <1>1, <1>3, <2>1, <2>2, <2>3, HeldDriven DEF c
  <2> QED BY <2>4
<1>6. ASSUME NEW k \in Terminals, Touch(s, AcceptedAt(accept_terminal(c, i, k), i, "TERMINAL"))
      PROVE  \E d : Driven(s, i, d)
  <2> DEFINE d == AcceptedAt(accept_terminal(c, i, k), i, "TERMINAL")
  <2>1. /\ Moves(c, d, i) /\ d.abort = c.abort
        /\ d.act[i].phase = "TERMINAL" /\ d.act[i].term = k /\ d.act[i].accepted
    BY <1>a, <1>6, TerminalMoves, SMTT(60)
  <2> HIDE DEF d
  <2>2. /\ ActionOK(d.act[i]) /\ d.act[i].phase \in HeldPhases
        /\ d.act[i].phase # "SUBMIT_UNKNOWN"
    BY <2>1 DEF ActionOK, Undecided, HeldPhases, Terminals
  <2>3. Touch(s, d)
    BY <1>6 DEF d
  <2>4. Driven(s, i, d)
    BY <1>1, <1>3, <2>1, <2>2, <2>3, HeldDriven DEF c
  <2> QED BY <2>4
<1> QED BY <1>1, <1>4, <1>5, <1>6

\* driver->ops->retire_start and retire_query.
LEMMA RetireDriven ==
  ASSUME NEW s \in Slots, NEW i \in Ordinals, cmd[s] \in CommandRecord,
         occupied(cmd[s]) => cmd[s].prog \in Programs, Sound(cmd[s]),
         RetireStart(s, i) \/ RetireQuery(s, i)
  PROVE \E d : Driven(s, i, d)
<1> DEFINE c == propagate_cancel(cmd[s])
           ph == {"TERMINAL", "RETIRE_ISSUED", "DRAINING"}
<1>1. /\ AtAction(s, i, ph)
      /\ \/ Touch(s, c) /\ owned' = owned
         \/ \E p \in {"RETIRE_ISSUED", "DRAINING"} : Touch(s, AtPhase(c, i, p)) /\ owned' = owned
         \/ Touch(s, AtPhase(c, i, "DRAINED")) /\ owned' = owned \ {Token(c, i)}
  <2>1. AtAction(s, i, ph)
    BY DEF RetireStart, RetireQuery, AtAction
  <2>2. CASE RetireStart(s, i)
    BY <2>1, <2>2 DEF RetireStart, DriverError, Touch, AtPhase
  <2>3. CASE RetireQuery(s, i)
    BY <2>1, <2>3, SMTT(60) DEF RetireQuery, DriverError, Touch, AtPhase
  <2> QED BY <2>2, <2>3
<1>2. /\ c \in CommandRecord /\ cmd[s].act[i].phase \in ph /\ ActionOK(cmd[s].act[i])
      /\ c.act[i].term = cmd[s].act[i].term /\ Still(cmd[s], c) /\ c.abort = cmd[s].abort
      /\ c.act[i].accepted = cmd[s].act[i].accepted /\ Token(c, i) = Token(cmd[s], i)
      /\ cmd[s].phase = "ACTIVE" /\ i \in OrdinalsOf(cmd[s])
  BY <1>1, AtActionPropagated, SMTT(60)
<1>3. /\ cmd[s].act[i].term # "NONE" /\ ph \subseteq HeldPhases /\ cmd[s].act[i].accepted
      /\ c.act[i].accepted
  BY <1>2 DEF ActionOK, Undecided, HeldPhases
<1> HIDE DEF c, ph
<1>4. CASE Touch(s, c) /\ owned' = owned
  <2>1. Driven(s, i, c)
    BY <1>1, <1>2, <1>4, SelfMoves, KeptDriven DEF c
  <2> QED BY <2>1
<1>5. ASSUME NEW p \in {"RETIRE_ISSUED", "DRAINING"}, Touch(s, AtPhase(c, i, p)), owned' = owned
      PROVE  \E d : Driven(s, i, d)
  <2> DEFINE d == AtPhase(c, i, p)
  <2>0. p \in ActionPhases
    BY SMTT(60) DEF ActionPhases
  <2>1. /\ Moves(c, d, i) /\ d.abort = c.abort
        /\ d.act[i].phase = p /\ d.act[i].term = c.act[i].term
        /\ d.act[i].accepted = c.act[i].accepted
    BY <1>2, <2>0, PhaseMoves, SMTT(60)
  <2> HIDE DEF d
  <2>2. /\ ActionOK(d.act[i]) /\ d.act[i].phase \in HeldPhases
        /\ d.act[i].phase # "SUBMIT_UNKNOWN" /\ d.act[i].term = cmd[s].act[i].term
    BY <1>2, <1>3, <2>1 DEF ActionOK, Undecided, HeldPhases
  <2>3. Touch(s, d)
    BY <1>5 DEF d
  <2>4. Driven(s, i, d)
    BY <1>1, <1>3, <1>5, <2>1, <2>2, <2>3, HeldDriven DEF c
  <2> QED BY <2>4
<1>6. CASE Touch(s, AtPhase(c, i, "DRAINED")) /\ owned' = owned \ {Token(c, i)}
  <2> DEFINE d == AtPhase(c, i, "DRAINED")
  <2>1. /\ Moves(c, d, i) /\ d.abort = c.abort
        /\ d.act[i].phase = "DRAINED" /\ d.act[i].term = c.act[i].term
        /\ d.act[i].accepted = c.act[i].accepted
    BY <1>2, PhaseMoves, SMTT(60) DEF ActionPhases
  <2>3. Touch(s, d) /\ owned' = owned \ {Token(cmd[s], i)}
    BY <1>2, <1>6
  <2> HIDE DEF d
  <2>2. /\ ActionOK(d.act[i]) /\ d.act[i].phase \notin HeldPhases
        /\ ActionLater(cmd[s].act[i], d.act[i], cmd[s].cancel)
    BY <1>2, <1>3, <2>1 DEF ActionOK, ActionLater, Idle, Undecided, HeldPhases
  <2>4. Moves(cmd[s], d, i) /\ d.abort = cmd[s].abort
    BY <1>2, <2>1, StillMoves
  <2>5. Driven(s, i, d)
    BY <1>2, <2>2, <2>3, <2>4, DrivenLose
  <2> QED BY <2>5
<1> QED BY <1>1, <1>4, <1>5, <1>6

-----------------------------------------------------------------------------
(* process_abort.                                                          *)

\* The abort relation of c becomes ab.
Related(c, ab, b) == [c EXCEPT !.abort = ab, !.suppress = b]

\* A new abort relation changes nothing the accounts depend on.
LEMMA RelatedStill ==
  ASSUME NEW c \in CommandRecord, NEW ab \in AbortRecord, NEW b \in BOOLEAN,
         b \/ b = c.suppress
  PROVE Still(c, Related(c, ab, b)) /\ Related(c, ab, b).abort = ab
<1> DEFINE d == Related(c, ab, b)
<1>1. d \in CommandRecord
  BY DEF Related, CommandRecord
<1>2. /\ d.phase = c.phase /\ d.uid = c.uid /\ d.prog = c.prog /\ d.lease = c.lease
      /\ d.decision = c.decision /\ d.cancel = c.cancel /\ d.suppress = b
      /\ d.act = c.act /\ d.abort = ab
  BY SMTT(60) DEF Related, CommandRecord
<1> HIDE DEF d
<1>3. c.suppress => d.suppress
  BY <1>2
<1>4. Still(c, d)
  BY <1>1, <1>2, <1>3, FlagsStill
<1> QED BY <1>2, <1>4 DEF d

\* An abort relation that keeps its bound, mask and decision.
SameBond(a, b) == b.bound = a.bound /\ b.mask = a.mask /\ b.decision = a.decision

\* relation_source: only the relation of the reading command changes.
LEMMA ReadStill ==
  ASSUME NEW s \in Slots, cmd \in [Slots -> CommandRecord], ReadCandidate(s), next_uid \in Nat
  PROVE \E d : Touch(s, d) /\ Still(cmd[s], d) /\ SameBond(cmd[s].abort, d.abort)
<1> DEFINE c == propagate_cancel(cmd[s])
           a == c.abort
           failed == [a EXCEPT !.end = "SINK_FAILED"]
           late == [a EXCEPT !.end = "SUPERSEDED"]
           told(r) == [a EXCEPT !.report = r]
           found(u) == [a EXCEPT !.report = "FOUND", !.target = u]
<1>0. cmd[s] \in CommandRecord
  OBVIOUS
<1>1. Still(cmd[s], c) /\ a = cmd[s].abort
  BY <1>0, PropagateStill
<1>2. c \in CommandRecord
  BY <1>1 DEF Still
<1>3. \/ SinkFailed(s, [cmd EXCEPT ![s] = c])
      \/ Install(s, [c EXCEPT !.abort.end = "SUPERSEDED", !.suppress = TRUE])
      \/ Install(s, c)
      \/ \E r \in Reports \ {"FOUND"} : Install(s, [c EXCEPT !.abort.report = r])
      \/ \E u \in 1 .. next_uid - 1 :
           Install(s, [c EXCEPT !.abort.report = "FOUND", !.abort.target = u])
  BY DEF ReadCandidate
<1> HIDE DEF c
<1>4. c.suppress \in BOOLEAN /\ a \in AbortRecord
  BY <1>2 DEF CommandRecord
<1>5. \/ Touch(s, Related(c, failed, TRUE)) \/ Touch(s, Related(c, late, TRUE))
      \/ Touch(s, c)
      \/ \E r \in Reports : Touch(s, Related(c, told(r), c.suppress))
      \/ \E u \in 1 .. next_uid - 1 : Touch(s, Related(c, found(u), c.suppress))
  <2>1. CASE SinkFailed(s, [cmd EXCEPT ![s] = c])
    <3>1. [[cmd EXCEPT ![s] = c] EXCEPT ![s].abort.end = "SINK_FAILED", ![s].suppress = TRUE]
            = [cmd EXCEPT ![s] = Related(c, failed, TRUE)]
      BY <1>2 DEF Related, CommandRecord
    <3> QED BY <2>1, <3>1 DEF SinkFailed, Touch
  <2>2. CASE Install(s, [c EXCEPT !.abort.end = "SUPERSEDED", !.suppress = TRUE])
    <3>1. [c EXCEPT !.abort.end = "SUPERSEDED", !.suppress = TRUE] = Related(c, late, TRUE)
      BY <1>2 DEF Related, CommandRecord
    <3> QED BY <2>2, <3>1 DEF Touch
  <2>3. ASSUME NEW r \in Reports \ {"FOUND"}, Install(s, [c EXCEPT !.abort.report = r])
        PROVE  Touch(s, Related(c, told(r), c.suppress))
    <3>1. [c EXCEPT !.abort.report = r] = Related(c, told(r), c.suppress)
      BY <1>2 DEF Related, CommandRecord
    <3> QED BY <2>3, <3>1 DEF Touch
  <2>4. ASSUME NEW u \in 1 .. next_uid - 1,
               Install(s, [c EXCEPT !.abort.report = "FOUND", !.abort.target = u])
        PROVE  Touch(s, Related(c, found(u), c.suppress))
    <3>1. [c EXCEPT !.abort.report = "FOUND", !.abort.target = u]
            = Related(c, found(u), c.suppress)
      BY <1>2, <1>4 DEF Related, CommandRecord, AbortRecord
    <3> QED BY <2>4, <3>1 DEF Touch
  <2>5. Install(s, c) => Touch(s, c)
    BY DEF Touch
  <2> QED BY <1>3, <2>1, <2>2, <2>3, <2>4, <2>5
<1>6. /\ failed \in AbortRecord /\ SameBond(a, failed)
      /\ late \in AbortRecord /\ SameBond(a, late)
  BY <1>4, SMTT(60) DEF AbortRecord, SameBond
<1>7. \A r \in Reports : told(r) \in AbortRecord /\ SameBond(a, told(r))
  BY <1>4, SMTT(60) DEF AbortRecord, SameBond
<1>8. \A u \in 1 .. next_uid - 1 : found(u) \in AbortRecord /\ SameBond(a, found(u))
  <2> SUFFICES ASSUME NEW u \in 1 .. next_uid - 1
               PROVE  found(u) \in AbortRecord /\ SameBond(a, found(u))
    OBVIOUS
  <2>1. u \in Nat /\ "FOUND" \in Reports
    BY SMTT(60) DEF Reports
  <2>2. found(u) \in AbortRecord
    BY <1>4, <2>1 DEF AbortRecord
  <2>3. SameBond(a, found(u))
    BY <1>4, SMTT(60) DEF AbortRecord, SameBond
  <2> QED BY <2>2, <2>3
<1> HIDE DEF a, failed, late, told, found
<1>9. ASSUME NEW ab \in AbortRecord, SameBond(a, ab), NEW b \in BOOLEAN, b \/ b = c.suppress,
             Touch(s, Related(c, ab, b))
      PROVE  \E d : Touch(s, d) /\ Still(cmd[s], d) /\ SameBond(cmd[s].abort, d.abort)
  <2>1. Still(c, Related(c, ab, b)) /\ Related(c, ab, b).abort = ab
    BY <1>2, <1>9, RelatedStill
  <2>2. Still(cmd[s], Related(c, ab, b)) /\ SameBond(cmd[s].abort, Related(c, ab, b).abort)
    BY <1>1, <1>9, <2>1, StillTrans
  <2> QED BY <1>9, <2>2
<1>10. CASE Touch(s, c)
  BY <1>1, <1>10 DEF SameBond, a
<1> QED BY <1>4, <1>5, <1>6, <1>7, <1>8, <1>9, <1>10

\* The relation of s binds an active command with work, which learns of it.
NewBond(s, a, b, ds) ==
  \E t \in Slots \ {s} :
    /\ a.bound = NoSlot /\ b.bound = t
    /\ b.mask = {i \in OrdinalsOf(cmd[t]) : cmd[t].act[i].accepted}
    /\ cmd[t].phase = "ACTIVE" /\ OrdinalsOf(cmd[t]) # {} /\ ds[t].cancel

SameBound(a, b) == b.bound = a.bound /\ b.mask = a.mask

\* bind_target: the relation binds, is refused, or stays.
LEMMA BindStill ==
  ASSUME NEW s \in Slots, cmd \in [Slots -> CommandRecord],
         \A t \in Slots : occupied(cmd[t]) => cmd[t].prog \in Programs,
         NEW c, Still(cmd[s], c), c.abort = cmd[s].abort, NEW cs, cs = [cmd EXCEPT ![s] = c]
  PROVE LET b == bind_target(cs, s)
        IN /\ b \in [Slots -> CommandRecord]
           /\ \A t \in Slots : Still(cmd[t], b[t])
           /\ \A t \in Slots \ {s} : b[t].abort = cmd[t].abort
           /\ \/ SameBond(cmd[s].abort, b[s].abort)
              \/ SameBound(cmd[s].abort, b[s].abort) /\ b[s].abort.decision = "NOT_ABORTED"
              \/ /\ NewBond(s, cmd[s].abort, b[s].abort, b)
                 /\ b[s].abort.decision = cmd[s].abort.decision
<1> DEFINE ab == cs[s].abort
           a == c.abort
           found == {t \in find_ticket(ab.target) : Abortable(s, t)}
           b == bind_target(cs, s)
<1>1. c \in CommandRecord
  BY DEF Still
<1>2. a \in AbortRecord /\ c.suppress \in BOOLEAN
  BY <1>1 DEF CommandRecord
<1>3. /\ cs \in [Slots -> CommandRecord] /\ cs[s] = c
      /\ \A t \in Slots \ {s} : cs[t] = cmd[t]
  BY <1>1, SMTT(60)
<1>4. \A t \in Slots : Still(cmd[t], cs[t])
  BY <1>3, StillRefl
<1>5. CASE ab.decision # "NONE" \/ ab.bound # NoSlot
  <2>1. b = cs
    BY <1>5 DEF bind_target
  <2>2. SameBond(cmd[s].abort, cs[s].abort)
    BY <1>3 DEF SameBond
  <2> HIDE DEF b
  <2>3. \A t \in Slots \ {s} : b[t].abort = cmd[t].abort
    BY <1>3, <2>1
  <2> QED BY <1>3, <1>4, <2>1, <2>2, <2>3 DEF b
<1>6. CASE ~(ab.decision # "NONE" \/ ab.bound # NoSlot) /\ (ab.report # "FOUND" \/ found = {})
  <2> DEFINE no == [a EXCEPT !.decision = "NOT_ABORTED"]
             d == Related(c, no, c.suppress)
  <2>1. bind_target(cs, s) = [cs EXCEPT ![s] = d]
    <3>1. bind_target(cs, s) = [cs EXCEPT ![s].abort.decision = "NOT_ABORTED"]
      BY <1>6 DEF bind_target
    <3>2. [c EXCEPT !.abort.decision = "NOT_ABORTED"] = d
      BY <1>1 DEF CommandRecord, Related
    <3> HIDE DEF d
    <3>3. [cs EXCEPT ![s].abort.decision = "NOT_ABORTED"] = [cs EXCEPT ![s] = d]
      BY <1>3, <3>2
    <3> QED BY <3>1, <3>3
  <2>2. no \in AbortRecord /\ SameBound(a, no) /\ no.decision = "NOT_ABORTED"
    BY <1>2, SMTT(60) DEF AbortRecord, SameBound
  <2> HIDE DEF no, b
  <2>3. Still(c, d) /\ d.abort = no
    BY <1>1, <1>2, <2>2, RelatedStill
  <2> HIDE DEF d
  <2>4. Still(cmd[s], d) /\ d \in CommandRecord
    BY <2>3, StillTrans, SMTT(60) DEF Still
  <2>5. b \in [Slots -> CommandRecord] /\ b[s] = d /\ \A t \in Slots \ {s} : b[t] = cmd[t]
    <3>1. b = [cs EXCEPT ![s] = d]
      BY <2>1 DEF b
    <3> QED BY <1>3, <2>4, <3>1
  <2>6. \A t \in Slots : Still(cmd[t], b[t])
    BY <2>4, <2>5, StillRefl
  <2> QED BY <2>2, <2>3, <2>5, <2>6 DEF b
<1>7. CASE ~(ab.decision # "NONE" \/ ab.bound # NoSlot) /\ ~(ab.report # "FOUND" \/ found = {})
  <2> DEFINE t == CHOOSE x \in found : TRUE
             mask == {i \in OrdinalsOf(cs[t]) : cs[t].act[i].accepted}
             ba == [a EXCEPT !.bound = t, !.mask = mask]
             d == Related(c, ba, c.suppress)
             k == cancel_all(cs[t])
             e == [k EXCEPT !.incoming = c.uid]
  <2>1. t \in found
    BY <1>7
  <2> HIDE DEF t
  <2>2. /\ t \in Slots \ {s} /\ cs[t] = cmd[t] /\ cmd[t].phase = "ACTIVE"
        /\ Count[cmd[t].prog] # 0
    BY <1>3, <2>1 DEF find_ticket, Abortable
  <2>3. OrdinalsOf(cmd[t]) # {} /\ OrdinalsOf(cmd[t]) \subseteq Ordinals
    <3>1. occupied(cmd[t])
      BY <2>2 DEF occupied
    <3>2. Count[cmd[t].prog] \in 1 .. MaxActions
      BY <2>2, <3>1, SpineConstants, SMTT(60)
    <3>3. OrdinalsOf(cmd[t]) = 1 .. Count[cmd[t].prog]
      BY <3>1 DEF OrdinalsOf
    <3> QED BY <3>2, <3>3, SpineConstants, SMTT(60) DEF Ordinals
  <2>4. mask \in SUBSET Ordinals
    BY <2>2, <2>3
  <2> HIDE DEF mask, b
  <2>5. ba \in AbortRecord
    BY <1>2, <2>2, <2>4 DEF AbortRecord
  <2>6. ba.bound = t /\ ba.mask = mask /\ ba.decision = a.decision
    BY <1>2, SMTT(60) DEF AbortRecord
  <2>7. bind_target(cs, s) = [cs EXCEPT ![t] = e, ![s] = d]
    <3>1. bind_target(cs, s) = [cs EXCEPT ![t] = bound_by(cs[t], cs[s].uid),
                                          ![s].abort.bound = t,
                                          ![s].abort.mask = mask]
      BY <1>7 DEF bind_target, t, mask
    <3>2. bound_by(cs[t], cs[s].uid) = e
      BY <1>3 DEF bound_by
    <3> DEFINE c1 == [c EXCEPT !.abort.bound = t]
    <3>3. [c1 EXCEPT !.abort.mask = mask] = d
      BY <1>1, <1>2 DEF CommandRecord, AbortRecord, Related
    <3> HIDE DEF e
    <3>4. [cs EXCEPT ![t] = e, ![s].abort.bound = t, ![s].abort.mask = mask]
            = [[cs EXCEPT ![t] = e, ![s] = c1] EXCEPT ![s] = [c1 EXCEPT !.abort.mask = mask]]
      BY <1>3, <2>2
    <3> HIDE DEF c1, d
    <3>5. [[cs EXCEPT ![t] = e, ![s] = c1] EXCEPT ![s] = d] = [cs EXCEPT ![t] = e, ![s] = d]
      BY <1>3, <2>2
    <3> QED BY <3>1, <3>2, <3>3, <3>4, <3>5
  <2> HIDE DEF ba
  <2>8. Still(c, d) /\ d.abort = ba
    BY <1>1, <1>2, <2>5, RelatedStill
  <2> HIDE DEF d
  <2>9. Still(cmd[s], d) /\ d \in CommandRecord
    BY <2>8, StillTrans, SMTT(60) DEF Still
  <2>10. Still(cmd[t], k) /\ k.cancel = TRUE /\ k.abort = cmd[t].abort /\ k \in CommandRecord
    <3>1. cs[t] \in CommandRecord
      BY <1>3, <2>2
    <3>2. Still(cs[t], k) /\ k.cancel = TRUE /\ k.abort = cs[t].abort
      BY <3>1, CancelAllStill
    <3> HIDE DEF k
    <3>3. k \in CommandRecord
      BY <3>2 DEF Still
    <3> QED BY <2>2, <3>2, <3>3
  <2> HIDE DEF k
  <2>11. Still(k, e) /\ e.cancel /\ e.abort = k.abort /\ e \in CommandRecord
    <3>1. c.uid \in Nat
      BY <1>1 DEF CommandRecord
    <3>2. e \in CommandRecord
      BY <2>10, <3>1 DEF CommandRecord
    <3>3. /\ e.phase = k.phase /\ e.uid = k.uid /\ e.prog = k.prog /\ e.lease = k.lease
          /\ e.decision = k.decision /\ e.cancel = k.cancel /\ e.suppress = k.suppress
          /\ e.act = k.act /\ e.abort = k.abort
      BY <2>10, SMTT(60) DEF CommandRecord
    <3> HIDE DEF e
    <3>4. Still(k, e)
      BY <2>10, <3>2, <3>3, FlagsStill
    <3> QED BY <2>10, <3>2, <3>3, <3>4
  <2> HIDE DEF e
  <2>12. /\ b \in [Slots -> CommandRecord] /\ b[s] = d /\ b[t] = e
         /\ \A x \in Slots \ {s, t} : b[x] = cmd[x]
    <3>1. b = [cs EXCEPT ![t] = e, ![s] = d]
      BY <2>7 DEF b
    <3> QED BY <1>3, <2>2, <2>9, <2>11, <3>1
  <2>13. Still(cmd[t], e)
    BY <2>10, <2>11, StillTrans
  <2>14. \A x \in Slots : Still(cmd[x], b[x])
    BY <2>9, <2>12, <2>13, StillRefl
  <2>15. \A x \in Slots \ {s} : b[x].abort = cmd[x].abort
    BY <2>10, <2>11, <2>12
  <2>16. cmd[s].abort.bound = NoSlot
    BY <1>3, <1>7
  <2>17. mask = {i \in OrdinalsOf(cmd[t]) : cmd[t].act[i].accepted}
    BY <2>2 DEF mask
  <2>18. NewBond(s, cmd[s].abort, b[s].abort, b)
    BY <2>2, <2>3, <2>6, <2>8, <2>11, <2>12, <2>16, <2>17, SMTT(60) DEF NewBond
  <2>19. b[s].abort.decision = cmd[s].abort.decision
    BY <2>6, <2>8, <2>12
  <2> QED BY <2>12, <2>14, <2>15, <2>18, <2>19 DEF b
<1> QED BY <1>5, <1>6, <1>7

\* The decision of relation a over commands cs, as relation b records it.
Decided(a, b, cs) ==
  \/ b.decision = a.decision
  \/ b.decision = "NOT_ABORTED"
  \/ /\ b.decision = "ABORT_WON" /\ b.bound # NoSlot
     /\ target_abort_won(b, cs[b.bound])

\* decide_target: the relation is decided over its drained target.
LEMMA DecideStill ==
  ASSUME NEW cs \in [Slots -> CommandRecord], NEW s \in Slots
  PROVE LET ds == decide_target(cs, s)
        IN /\ ds \in [Slots -> CommandRecord]
           /\ Still(cs[s], ds[s]) /\ \A t \in Slots \ {s} : ds[t] = cs[t]
           /\ SameBound(cs[s].abort, ds[s].abort) /\ Decided(cs[s].abort, ds[s].abort, cs)
<1> DEFINE a == cs[s].abort
           won == target_abort_won(a, cs[a.bound])
           r == IF won THEN "ABORT_WON" ELSE "NOT_ABORTED"
           ab == [a EXCEPT !.decision = r]
           d == Related(cs[s], ab, cs[s].suppress)
           ds == decide_target(cs, s)
<1>0. cs[s] \in CommandRecord
  OBVIOUS
<1>1. a \in AbortRecord /\ cs[s].suppress \in BOOLEAN
  BY <1>0 DEF CommandRecord
<1>2. ds = cs \/ (ds = [cs EXCEPT ![s] = d] /\ a.bound # NoSlot)
  BY <1>0 DEF decide_target, CommandRecord, Related
<1>3. r = "NOT_ABORTED" \/ (r = "ABORT_WON" /\ won)
  OBVIOUS
<1> HIDE DEF r
<1>4. ab \in AbortRecord
  BY <1>1, <1>3 DEF AbortRecord
<1>5. SameBound(a, ab) /\ ab.decision = r
  BY <1>1, SMTT(60) DEF AbortRecord, SameBound
<1> HIDE DEF ab
<1>6. Still(cs[s], d) /\ d.abort = ab
  BY <1>1, <1>4, RelatedStill
<1>7. CASE ds = cs
  <2>1. SameBound(a, a) /\ Decided(a, a, cs)
    BY DEF SameBound, Decided
  <2> HIDE DEF ds
  <2> QED BY <1>7, <2>1, StillRefl DEF ds
<1>8. CASE ds = [cs EXCEPT ![s] = d] /\ a.bound # NoSlot
  <2> HIDE DEF d, ds
  <2>1. d \in CommandRecord
    BY <1>6 DEF Still
  <2>2. ds \in [Slots -> CommandRecord] /\ ds[s] = d /\ \A t \in Slots \ {s} : ds[t] = cs[t]
    BY <1>8, <2>1
  <2>3. won => target_abort_won(ab, cs[ab.bound])
    BY <1>5 DEF SameBound, target_abort_won
  <2> HIDE DEF won
  <2>4. Decided(a, ab, cs)
    BY <1>3, <1>5, <1>8, <2>3 DEF Decided, SameBound
  <2> QED BY <1>5, <1>6, <2>2, <2>4 DEF ds
<1> QED BY <1>2, <1>7, <1>8

\* The verdict over a target is the same over a target that only learnt of a
\* cancel request.
LEMMA WonStill ==
  ASSUME NEW c, NEW d, Still(c, d), NEW ab \in AbortRecord, OrdinalsOf(c) \subseteq Ordinals
  PROVE target_abort_won(ab, c) <=> target_abort_won(ab, d)
<1>1. OrdinalsOf(d) = OrdinalsOf(c)
  BY DEF Still, OrdinalsOf, occupied
<1>2. ab.mask \subseteq Ordinals
  BY DEF AbortRecord
<1> QED BY <1>1, <1>2, SMTT(60) DEF target_abort_won, all_actions_drained, Still

\* What AbortDecide does: every command stays what it is, one relation may bind
\* an active command with work, or decide.
LEMMA AbortStill ==
  ASSUME NEW s \in Slots, cmd \in [Slots -> CommandRecord],
         \A t \in Slots : occupied(cmd[t]) => cmd[t].prog \in Programs, AbortDecide(s)
  PROVE \E ds \in [Slots -> CommandRecord] :
          /\ (cmd' = ds /\ gates' = gates) \/ Poison(ds)
          /\ \A t \in Slots : Still(cmd[t], ds[t])
          /\ \A t \in Slots \ {s} : ds[t].abort = cmd[t].abort
          /\ \/ SameBound(cmd[s].abort, ds[s].abort)
             \/ NewBond(s, cmd[s].abort, ds[s].abort, ds)
          /\ Decided(cmd[s].abort, ds[s].abort, ds)
<1> DEFINE c == propagate_cancel(cmd[s])
           cs == [cmd EXCEPT ![s] = c]
           b == bind_target(cs, s)
           e == decide_target(b, s)
           acked == [e[s].abort EXCEPT !.end = "SINK_ACKED"]
           failed == [e[s].abort EXCEPT !.end = "SINK_FAILED"]
           da == Related(e[s], acked, e[s].suppress)
           df == Related(e[s], failed, TRUE)
<1>0. cmd[s] \in CommandRecord
  OBVIOUS
<1>1. Still(cmd[s], c) /\ c.abort = cmd[s].abort
  BY <1>0, PropagateStill
<1>2. \/ cmd' = e /\ gates' = gates
      \/ cmd' = [e EXCEPT ![s].abort.end = "SINK_ACKED"] /\ gates' = gates
      \/ Poison([e EXCEPT ![s].abort.end = "SINK_FAILED", ![s].suppress = TRUE])
  BY DEF AbortDecide, SinkFailed
<1> HIDE DEF c
<1>3. /\ b \in [Slots -> CommandRecord]
      /\ \A t \in Slots : Still(cmd[t], b[t])
      /\ \A t \in Slots \ {s} : b[t].abort = cmd[t].abort
      /\ \/ SameBond(cmd[s].abort, b[s].abort)
         \/ SameBound(cmd[s].abort, b[s].abort) /\ b[s].abort.decision = "NOT_ABORTED"
         \/ /\ NewBond(s, cmd[s].abort, b[s].abort, b)
            /\ b[s].abort.decision = cmd[s].abort.decision
  BY <1>1, BindStill
<1> HIDE DEF b
<1>4. /\ e \in [Slots -> CommandRecord]
      /\ Still(b[s], e[s]) /\ \A t \in Slots \ {s} : e[t] = b[t]
      /\ SameBound(b[s].abort, e[s].abort) /\ Decided(b[s].abort, e[s].abort, b)
  BY <1>3, DecideStill
<1> HIDE DEF e
<1>5. /\ e[s] \in CommandRecord /\ e[s].abort \in AbortRecord /\ e[s].suppress \in BOOLEAN
  BY <1>4 DEF CommandRecord
<1>6. /\ acked \in AbortRecord /\ SameBond(e[s].abort, acked)
      /\ failed \in AbortRecord /\ SameBond(e[s].abort, failed)
  BY <1>5, SMTT(60) DEF AbortRecord, SameBond
<1>7. /\ [e EXCEPT ![s].abort.end = "SINK_ACKED"] = [e EXCEPT ![s] = da]
      /\ [e EXCEPT ![s].abort.end = "SINK_FAILED", ![s].suppress = TRUE]
           = [e EXCEPT ![s] = df]
  BY <1>4, <1>5 DEF CommandRecord, Related
<1> HIDE DEF acked, failed
<1>8. Still(e[s], da) /\ da.abort = acked /\ Still(e[s], df) /\ df.abort = failed
  BY <1>5, <1>6, RelatedStill
<1> HIDE DEF da, df
<1> DEFINE Result(ds) ==
      /\ ds \in [Slots -> CommandRecord]
      /\ \A t \in Slots : Still(cmd[t], ds[t])
      /\ \A t \in Slots \ {s} : ds[t].abort = cmd[t].abort
      /\ \/ SameBound(cmd[s].abort, ds[s].abort)
         \/ NewBond(s, cmd[s].abort, ds[s].abort, ds)
      /\ Decided(cmd[s].abort, ds[s].abort, ds)
<1>9. ASSUME NEW d, Still(e[s], d), SameBond(e[s].abort, d.abort)
      PROVE  Result([e EXCEPT ![s] = d])
  <2> DEFINE ds == [e EXCEPT ![s] = d]
  <2>1. d \in CommandRecord
    BY <1>9 DEF Still
  <2>2. ds \in [Slots -> CommandRecord] /\ ds[s] = d /\ \A t \in Slots \ {s} : ds[t] = b[t]
    BY <1>4, <2>1
  <2> HIDE DEF ds
  <2>3. Still(b[s], d)
    BY <1>4, <1>9, StillTrans
  <2>4. \A t \in Slots : Still(b[t], ds[t])
    BY <1>3, <2>2, <2>3, StillRefl
  <2>5. \A t \in Slots : Still(cmd[t], ds[t])
    BY <1>3, <2>4, StillTrans
  <2>6. \A t \in Slots \ {s} : ds[t].abort = cmd[t].abort
    BY <1>3, <2>2
  <2>7. SameBound(b[s].abort, d.abort) /\ d.abort.decision = e[s].abort.decision
    BY <1>4, <1>9 DEF SameBond, SameBound
  <2>8. SameBound(cmd[s].abort, d.abort) \/ NewBond(s, cmd[s].abort, d.abort, ds)
    <3>1. CASE SameBond(cmd[s].abort, b[s].abort) \/ SameBound(cmd[s].abort, b[s].abort)
      BY <2>7, <3>1 DEF SameBond, SameBound
    <3>2. CASE NewBond(s, cmd[s].abort, b[s].abort, b)
      BY <2>2, <2>7, <3>2 DEF NewBond, SameBound
    <3> QED BY <1>3, <3>1, <3>2
  <2>9. Decided(cmd[s].abort, d.abort, ds)
    <3>1. d.abort \in AbortRecord
      BY <2>1 DEF CommandRecord
    <3>2. CASE e[s].abort.decision = b[s].abort.decision
      BY <1>3, <2>7, <3>2 DEF Decided, SameBond
    <3>3. CASE e[s].abort.decision = "NOT_ABORTED"
      BY <2>7, <3>3 DEF Decided
    <3>4. CASE /\ e[s].abort.decision = "ABORT_WON" /\ e[s].abort.bound # NoSlot
               /\ target_abort_won(e[s].abort, b[e[s].abort.bound])
      <4>1. d.abort.bound = e[s].abort.bound /\ d.abort.mask = e[s].abort.mask
        BY <1>9 DEF SameBond
      <4>2. d.abort.bound \in Slots
        BY <3>1, <3>4, <4>1 DEF AbortRecord
      <4> DEFINE t == d.abort.bound
      <4>3. target_abort_won(d.abort, b[t])
        BY <3>4, <4>1 DEF target_abort_won
      <4>4. Still(cmd[t], b[t]) /\ Still(b[t], ds[t]) /\ cmd[t] \in CommandRecord
        BY <1>3, <2>4, <4>2
      <4>5. OrdinalsOf(cmd[t]) \subseteq Ordinals
        BY <4>2, <4>4, OrdinalsIn
      <4>6. OrdinalsOf(b[t]) \subseteq Ordinals
        BY <4>4, <4>5 DEF Still, OrdinalsOf, occupied
      <4>7. target_abort_won(d.abort, ds[t])
        BY <3>1, <4>3, <4>4, <4>6, WonStill
      <4> QED BY <2>7, <3>4, <4>1, <4>7 DEF Decided
    <3> QED BY <1>4, <3>2, <3>3, <3>4 DEF Decided
  <2>10. Result(ds)
    BY <2>2, <2>5, <2>6, <2>8, <2>9
  <2> QED BY <2>10 DEF ds
<1>10. e = [e EXCEPT ![s] = e[s]] /\ Still(e[s], e[s]) /\ SameBond(e[s].abort, e[s].abort)
  BY <1>4, <1>5, StillRefl DEF SameBond
<1>11. Result(e)
  <2>1. Result([e EXCEPT ![s] = e[s]])
    BY <1>9, <1>10
  <2> HIDE DEF Result
  <2> QED BY <1>10, <2>1
<1>12. Result([e EXCEPT ![s] = da]) /\ Result([e EXCEPT ![s] = df])
  BY <1>6, <1>8, <1>9
<1> QED BY <1>2, <1>7, <1>11, <1>12

=============================================================================
