------------------------ MODULE SpineLifecycleProofs ------------------------
(***************************************************************************)
(* The identity of the commands of the lifecycle, for every capacity, set  *)
(* of programs and bound.  A step of step_one other than the binding of an *)
(* abort rewrites the record of one command and leaves its identity alone: *)
(* Kept says so, and the identity invariant is preserved by every step     *)
(* that keeps every command.  Binding a target, admission, publication and *)
(* fini are treated one by one.                                            *)
(***************************************************************************)
EXTENDS SpineInvariants, TLAPS

\* A leaf is left to Zenon unless it names the SMT solver.
USE ZenonT(60)

-----------------------------------------------------------------------------
(* A command that keeps its identity.                                      *)

\* d is command c with its identity, its abort relation and its place kept.
Kept(c, d) ==
  /\ d \in CommandRecord
  /\ occupied(d) <=> occupied(c)
  /\ d.uid = c.uid /\ d.prog = c.prog /\ d.incoming = c.incoming
  /\ d.abort.bound = c.abort.bound
  /\ c.abort.bound # NoSlot => d.abort.target = c.abort.target
  /\ (d.abort.end = "OPEN" /\ d.abort.report = "NONE") =>
       (c.abort.end = "OPEN" /\ c.abort.report = "NONE")

-----------------------------------------------------------------------------
(* The helpers of the handlers keep a command.                             *)

\* A record is kept by itself, and keeping composes.
LEMMA KeptRefl == ASSUME NEW c \in CommandRecord PROVE Kept(c, c)
  BY DEF Kept

\* Kept is transitive.
LEMMA KeptTrans ==
  ASSUME NEW c, NEW d, NEW e, Kept(c, d), Kept(d, e)
  PROVE Kept(c, e)
  BY DEF Kept, occupied

\* Replacing the actions and the control flags of a command keeps it.
LEMMA KeptFields ==
  ASSUME NEW c \in CommandRecord, NEW d \in CommandRecord,
         d.phase = c.phase, d.uid = c.uid, d.prog = c.prog,
         d.incoming = c.incoming, d.abort = c.abort
  PROVE Kept(c, d)
  BY DEF Kept, occupied

\* cancel_all keeps the command.
LEMMA CancelAllKept ==
  ASSUME NEW c \in CommandRecord
  PROVE Kept(c, cancel_all(c))
<1> DEFINE a == [i \in Ordinals |-> IF i \in OrdinalsOf(c)
                                        THEN [c.act[i] EXCEPT !.cancel = TRUE]
                                        ELSE c.act[i]]
<1>1. a \in [Ordinals -> ActionRecord]
  BY ZenonT(60), SMTT(60) DEF CommandRecord, ActionRecord
<1>2. cancel_all(c) = [c EXCEPT !.cancel = TRUE, !.act = a]
  BY DEF cancel_all
<1> HIDE DEF a
<1>3. cancel_all(c) \in CommandRecord
  BY <1>1, <1>2, ZenonT(60) DEF CommandRecord
<1> QED BY <1>2, <1>3, KeptFields, ZenonT(60) DEF CommandRecord

\* What a cancel request leaves alone.
LEMMA CancelAllFields ==
  ASSUME NEW c \in CommandRecord
  PROVE /\ cancel_all(c).phase = c.phase /\ cancel_all(c).abort = c.abort
<1> DEFINE a == [i \in Ordinals |-> IF i \in OrdinalsOf(c)
                                        THEN [c.act[i] EXCEPT !.cancel = TRUE]
                                        ELSE c.act[i]]
<1>1. cancel_all(c) = [c EXCEPT !.cancel = TRUE, !.act = a]
  BY DEF cancel_all
<1> HIDE DEF a
<1> QED BY <1>1 DEF CommandRecord

\* propagate_cancel keeps the command.
LEMMA PropagateKept ==
  ASSUME NEW c \in CommandRecord
  PROVE Kept(c, propagate_cancel(c))
  BY CancelAllKept, KeptRefl DEF propagate_cancel

\* The updates the handlers make to one action.
LEMMA ActionKept ==
  ASSUME NEW c \in CommandRecord, NEW i \in Ordinals, NEW ph \in ActionPhases,
         NEW k \in Terminals
  PROVE /\ Kept(c, [c EXCEPT !.act[i].phase = ph])
        /\ Kept(c, [c EXCEPT !.act[i].phase = ph, !.act[i].accepted = TRUE])
        /\ Kept(c, [c EXCEPT !.act[i].term = k, !.act[i].phase = ph])
        /\ Kept(c, [c EXCEPT !.act[i].cancel = TRUE])
        /\ Kept(c, [c EXCEPT !.act[i].acked = TRUE])
<1>1. ASSUME NEW a \in ActionRecord
      PROVE Kept(c, [c EXCEPT !.act[i] = a])
  <2>1. [c EXCEPT !.act[i] = a] \in CommandRecord
    BY <1>1 DEF CommandRecord
  <2> QED BY <2>1, KeptFields DEF CommandRecord
<1>2. c.act[i] \in ActionRecord
  BY DEF CommandRecord
<1>3. /\ [c.act[i] EXCEPT !.phase = ph] \in ActionRecord
      /\ [c.act[i] EXCEPT !.phase = ph, !.accepted = TRUE] \in ActionRecord
      /\ [c.act[i] EXCEPT !.term = k, !.phase = ph] \in ActionRecord
      /\ [c.act[i] EXCEPT !.cancel = TRUE] \in ActionRecord
      /\ [c.act[i] EXCEPT !.acked = TRUE] \in ActionRecord
  BY <1>2, ZenonT(60) DEF ActionRecord
<1>4. /\ [c EXCEPT !.act[i].phase = ph] = [c EXCEPT !.act[i] = [c.act[i] EXCEPT !.phase = ph]]
      /\ [c EXCEPT !.act[i].cancel = TRUE] = [c EXCEPT !.act[i] = [c.act[i] EXCEPT !.cancel = TRUE]]
      /\ [c EXCEPT !.act[i].acked = TRUE] = [c EXCEPT !.act[i] = [c.act[i] EXCEPT !.acked = TRUE]]
  OBVIOUS
<1>5. [c EXCEPT !.act[i].phase = ph, !.act[i].accepted = TRUE]
        = [c EXCEPT !.act[i] = [c.act[i] EXCEPT !.phase = ph, !.accepted = TRUE]]
  BY ZenonT(60) DEF CommandRecord
<1>6. [c EXCEPT !.act[i].term = k, !.act[i].phase = ph]
        = [c EXCEPT !.act[i] = [c.act[i] EXCEPT !.term = k, !.phase = ph]]
  BY ZenonT(60) DEF CommandRecord
<1> QED BY <1>1, <1>3, <1>4, <1>5, <1>6, ZenonT(60)

\* note_failure keeps the command.
LEMMA NoteFailureKept ==
  ASSUME NEW c \in CommandRecord, NEW i \in Ordinals
  PROVE Kept(c, note_failure(c, i))
<1> DEFINE a == [j \in Ordinals |-> IF j \in OrdinalsOf(c) \ {i}
                                    THEN [c.act[j] EXCEPT !.cancel = TRUE]
                                    ELSE c.act[j]]
           d == [c EXCEPT !.first_failure = TRUE, !.cancel = TRUE, !.act = a]
<1>1. a \in [Ordinals -> ActionRecord]
  BY ZenonT(60), SMTT(60) DEF CommandRecord, ActionRecord
<1>2. note_failure(c, i) \in {c, d}
  BY DEF note_failure
<1> HIDE DEF a
<1>3. d \in CommandRecord
  BY <1>1, ZenonT(60) DEF CommandRecord
<1>4. Kept(c, d)
  BY <1>3, KeptFields, ZenonT(60) DEF CommandRecord
<1> QED BY <1>2, <1>4, KeptRefl

\* A synthetic status keeps the command.
LEMMA SyntheticKept ==
  ASSUME NEW c \in CommandRecord, NEW i \in Ordinals, NEW k \in Terminals
  PROVE Kept(c, status_synthetic(c, i, k))
<1>1. Kept(c, [c EXCEPT !.act[i].term = k, !.act[i].phase = "DRAINED"])
  BY ActionKept, ZenonT(60) DEF ActionPhases
<1> QED BY <1>1, NoteFailureKept, KeptTrans, ZenonT(60), SMTT(60) DEF status_synthetic, Kept

\* accept_terminal keeps the command.
LEMMA AcceptKept ==
  ASSUME NEW c \in CommandRecord, NEW i \in Ordinals, NEW k \in Terminals
  PROVE Kept(c, accept_terminal(c, i, k))
<1> DEFINE r == c.resolved \/ (k = "SUCCEEDED" /\ ~close_started /\ Role[c.prog] = "ABORT")
           a == [c.act EXCEPT ![i].term = k]
           d == [c EXCEPT !.act = a, !.resolved = r]
<1>1. a \in [Ordinals -> ActionRecord]
  BY SMTT(60) DEF CommandRecord, ActionRecord
<1>2. accept_terminal(c, i, k) = note_failure(d, i)
  BY DEF accept_terminal, CommandRecord
<1>3. r \in BOOLEAN
  BY DEF CommandRecord
<1> HIDE DEF a, r
<1>4. d \in CommandRecord
  BY <1>1, <1>3, ZenonT(60) DEF CommandRecord
<1>5. Kept(c, d)
  BY <1>4, KeptFields, ZenonT(60) DEF CommandRecord
<1> QED BY <1>2, <1>4, <1>5, NoteFailureKept, KeptTrans

-----------------------------------------------------------------------------
(* Steps that keep every command.                                          *)

\* ArenaOK without the commands and the service cursor.
TypeOther ==
  /\ lane \in [LaneSet -> [acked : BOOLEAN, quiescent : BOOLEAN]]
  /\ receipt \in [Slots -> [uid : Nat, lease : Nat,
                            decision : {"NONE", "COMMITTED", "DISCARDED"}]]
  /\ publication_cursor \in Slots
  /\ next_uid \in 1 .. MaxUid + 1 /\ next_lease \in 1 .. MaxLease + 1
  /\ {active_commands, retained_intents, completion_leases} \subseteq Nat
  /\ {admission_closed, close_started, poisoned, alive} \subseteq BOOLEAN
  /\ owned \subseteq Nat \X Ordinals \X LaneSet
  /\ published \subseteq Nat \X {"COMMITTED", "DISCARDED"}

AllKept ==
  /\ cmd' \in [Slots -> CommandRecord]
  /\ \A t \in Slots : Kept(cmd[t], cmd'[t])

\* Commands that are all kept keep Ident.
LEMMA KeptIdent ==
  ASSUME NEW cs \in [Slots -> CommandRecord], NEW ds \in [Slots -> CommandRecord],
         NEW n \in Nat, NEW pub, Ident(cs, n, pub), \A t \in Slots : Kept(cs[t], ds[t])
  PROVE Ident(ds, n, pub)
<1>1. ProgramKnown(ds)
  BY DEF Ident, Kept, ProgramKnown
<1>2. TicketsDistinct(ds, n)
  BY SMTT(60) DEF Ident, Kept, TicketsDistinct
<1>3. PublishedGone(ds, n, pub)
  BY DEF Ident, Kept, PublishedGone
<1>4. ReadBeforeBound(ds)
  BY DEF Ident, Kept, ReadBeforeBound
<1>5. Bound(ds)
  <2> SUFFICES ASSUME NEW s \in Slots, occupied(ds[s]), ds[s].abort.bound # NoSlot
               PROVE  /\ occupied(ds[ds[s].abort.bound])
                      /\ ds[ds[s].abort.bound].uid = ds[s].abort.target
                      /\ ds[ds[s].abort.bound].incoming = ds[s].uid
    BY DEF Bound
  <2>1. Kept(cs[s], ds[s]) /\ ds[s] \in CommandRecord
    OBVIOUS
  <2>2. cs[s].abort.bound = ds[s].abort.bound /\ ds[s].abort.bound \in Slots
    BY <2>1 DEF Kept, CommandRecord, AbortRecord
  <2>3. Kept(cs[cs[s].abort.bound], ds[cs[s].abort.bound])
    BY <2>2
  <2> QED BY <2>1, <2>2, <2>3, ZenonT(60), SMTT(60) DEF Ident, Bound, Kept
<1> QED BY <1>1, <1>2, <1>3, <1>4, <1>5 DEF Ident

\* Writing one kept command keeps all of them.
LEMMA InstallKept ==
  ASSUME cmd \in [Slots -> CommandRecord], NEW s \in Slots, NEW c, Kept(cmd[s], c),
         cmd' = [cmd EXCEPT ![s] = c]
  PROVE AllKept
<1>1. c \in CommandRecord
  BY DEF Kept
<1> QED BY <1>1, KeptRefl DEF AllKept

\* poison_lifecycle keeps every command.
LEMMA PoisonKept ==
  ASSUME NEW cs \in [Slots -> CommandRecord], \A t \in Slots : Kept(cmd[t], cs[t]),
         cmd' = poison_lifecycle(cs)
  PROVE AllKept
<1> SUFFICES ASSUME NEW t \in Slots
             PROVE /\ poison_lifecycle(cs)[t] \in CommandRecord
                   /\ Kept(cmd[t], poison_lifecycle(cs)[t])
  BY ZenonT(60) DEF AllKept, poison_lifecycle
<1>1. cs[t] \in CommandRecord
  OBVIOUS
<1> DEFINE d == [cs[t] EXCEPT !.cancel = TRUE, !.suppress = TRUE]
<1>2. d \in CommandRecord
  BY <1>1, ZenonT(60) DEF CommandRecord
<1>3. Kept(cs[t], d)
  BY <1>1, <1>2, KeptFields, ZenonT(60) DEF CommandRecord
<1>4. poison_lifecycle(cs)[t] \in {d, cs[t]}
  BY ZenonT(60) DEF poison_lifecycle
<1> QED BY <1>1, <1>2, <1>3, <1>4, KeptTrans, SMTT(60)

-----------------------------------------------------------------------------
(* The steps of step_one.                                                  *)

\* What a step that keeps every command has to show.
Good == AllKept /\ TypeOther' /\ UNCHANGED <<next_uid, published>>

\* A step that installs one kept command.
LEMMA InstallGood ==
  ASSUME cmd \in [Slots -> CommandRecord], TypeOther, NEW s \in Slots, NEW c,
         Kept(cmd[s], c), Install(s, c), StepRest,
         owned' \subseteq Nat \X Ordinals \X LaneSet
  PROVE Good
<1>1. AllKept
  BY InstallKept, ZenonT(60) DEF Install
<1>2. TypeOther' /\ UNCHANGED <<next_uid, published>>
  BY DEF TypeOther, Install, StepRest, gates, ring, ids, counters
<1> QED BY <1>1, <1>2 DEF Good

\* A driver error, with the poison it ends in.
LEMMA ErrorGood ==
  ASSUME cmd \in [Slots -> CommandRecord], TypeOther, NEW s \in Slots, NEW c,
         Kept(cmd[s], c), DriverError(s, c), StepRest,
         owned' \subseteq Nat \X Ordinals \X LaneSet
  PROVE Good
<1>1. [cmd EXCEPT ![s] = c] \in [Slots -> CommandRecord]
  BY DEF Kept
<1>2. \A t \in Slots : Kept(cmd[t], [cmd EXCEPT ![s] = c][t])
  BY KeptRefl
<1>3. AllKept
  BY <1>1, <1>2, PoisonKept, ZenonT(60) DEF DriverError, Poison
<1>4. TypeOther' /\ UNCHANGED <<next_uid, published>>
  BY DEF TypeOther, DriverError, Poison, StepRest, ring, ids, counters
<1> QED BY <1>3, <1>4 DEF Good

\* process_action, every phase.
LEMMA ActionGood ==
  ASSUME cmd \in [Slots -> CommandRecord], TypeOther, ProgramKnown(cmd),
         NEW s \in Slots, NEW i \in Ordinals,
         \/ WaitDep(s, i) \/ SubmitCancelled(s, i) \/ Submit(s, i) \/ CancelAction(s, i)
         \/ action_query(s, i) \/ RetireStart(s, i) \/ RetireQuery(s, i)
  PROVE Good
<1> DEFINE c == propagate_cancel(cmd[s])
<1>0. cmd[s] \in CommandRecord
  OBVIOUS
<1>1. Kept(cmd[s], c) /\ c \in CommandRecord
  BY <1>0, PropagateKept DEF Kept
<1>2. \A d : Kept(c, d) => Kept(cmd[s], d)
  BY <1>1, KeptTrans
<1>3. owned \subseteq Nat \X Ordinals \X LaneSet
  BY DEF TypeOther
<1>4. ASSUME NEW k \in Terminals, NEW d \in CommandRecord, Kept(cmd[s], d)
      PROVE /\ \A ph \in ActionPhases :
                 /\ Kept(cmd[s], [d EXCEPT !.act[i].phase = ph])
                 /\ Kept(cmd[s], [d EXCEPT !.act[i].phase = ph, !.act[i].accepted = TRUE])
            /\ Kept(cmd[s], status_synthetic(d, i, k))
            /\ Kept(cmd[s], accept_terminal(d, i, k))
            /\ Kept(cmd[s], [d EXCEPT !.act[i].cancel = TRUE])
            /\ Kept(cmd[s], [d EXCEPT !.act[i].acked = TRUE])
  <2>1. \A e : Kept(d, e) => Kept(cmd[s], e)
    BY <1>4, KeptTrans
  <2>2. /\ Kept(d, status_synthetic(d, i, k))
        /\ Kept(d, accept_terminal(d, i, k))
    BY <1>4, SyntheticKept, AcceptKept
  <2>3. ASSUME NEW ph \in ActionPhases
        PROVE /\ Kept(d, [d EXCEPT !.act[i].phase = ph])
              /\ Kept(d, [d EXCEPT !.act[i].phase = ph, !.act[i].accepted = TRUE])
    BY <1>4, ActionKept, ZenonT(60)
  <2>4. /\ Kept(d, [d EXCEPT !.act[i].cancel = TRUE])
        /\ Kept(d, [d EXCEPT !.act[i].acked = TRUE])
    BY <1>4, ActionKept, ZenonT(60) DEF ActionPhases
  <2> QED BY <2>1, <2>2, <2>3, <2>4, ZenonT(60)
<1> HIDE DEF c
<1>5. CASE WaitDep(s, i)
  <2>1. \/ Install(s, status_synthetic(c, i, "CANCELLED"))
        \/ Install(s, [c EXCEPT !.act[i].phase = "SUBMIT_READY"])
    BY <1>5 DEF WaitDep, c
  <2>2. UNCHANGED owned /\ StepRest
    BY <1>5 DEF WaitDep
  <2> QED BY <1>1, <1>3, <1>4, <2>1, <2>2, InstallGood, ZenonT(60) DEF Terminals, ActionPhases
<1>6. CASE SubmitCancelled(s, i)
  <2>1. Install(s, status_synthetic(c, i, "CANCELLED")) /\ UNCHANGED owned /\ StepRest
    BY <1>6 DEF SubmitCancelled, c
  <2> QED BY <1>1, <1>3, <1>4, <2>1, InstallGood, ZenonT(60) DEF Terminals
<1>7. CASE Submit(s, i)
  <2>1. Token(cmd[s], i) \in Nat \X Ordinals \X LaneSet
    <3>1. cmd[s].prog \in Programs /\ cmd[s].uid \in Nat
      BY <1>0, <1>7 DEF Submit, AtAction, ProgramKnown, occupied, CommandRecord
    <3> QED BY <3>1, SpineConstants, SMTT(60) DEF Token
  <2>2. owned' \subseteq Nat \X Ordinals \X LaneSet /\ StepRest
    BY <1>3, <1>7, <2>1 DEF Submit
  <2>3. \/ Install(s, [cmd[s] EXCEPT !.act[i].phase = "SUBMIT_UNKNOWN"])
        \/ DriverError(s, [cmd[s] EXCEPT !.act[i].phase = "SUBMIT_UNKNOWN"])
        \/ Install(s, cmd[s])
        \/ Install(s, status_synthetic(cmd[s], i, "FAILED"))
        \/ Install(s, [cmd[s] EXCEPT !.act[i].phase = "ACCEPTED", !.act[i].accepted = TRUE])
    BY <1>7 DEF Submit
  <2>4. Kept(cmd[s], cmd[s])
    BY <1>0, KeptRefl
  <2> QED BY <1>0, <1>4, <2>2, <2>3, <2>4, InstallGood, ErrorGood, ZenonT(60) DEF Terminals, ActionPhases
<1>8. CASE CancelAction(s, i)
  <2> DEFINE c1 == [c EXCEPT !.act[i].cancel = TRUE]
  <2>1. Kept(cmd[s], c1) /\ c1 \in CommandRecord
    BY <1>1, <1>4, ZenonT(60) DEF Kept, Terminals
  <2>2. UNCHANGED owned /\ StepRest
    BY <1>8 DEF CancelAction
  <2>3. \/ Install(s, [c1 EXCEPT !.act[i].acked = TRUE])
        \/ Install(s, c1)
        \/ DriverError(s, c1)
    BY <1>8 DEF CancelAction, c
  <2> HIDE DEF c1
  <2>4. Kept(cmd[s], [c1 EXCEPT !.act[i].acked = TRUE])
    BY <1>4, <2>1, ZenonT(60) DEF Terminals
  <2> QED BY <1>3, <2>1, <2>2, <2>3, <2>4, InstallGood, ErrorGood
<1>9. CASE action_query(s, i)
  <2>1. UNCHANGED owned /\ StepRest
    BY <1>9, ZenonT(60) DEF action_query
  <2>2. \/ Install(s, c)
        \/ Install(s, [c EXCEPT !.act[i].phase = "ACCEPTED", !.act[i].accepted = TRUE])
        \/ \E k \in Terminals :
             Install(s, [accept_terminal(c, i, k) EXCEPT
                           !.act[i].phase = "TERMINAL", !.act[i].accepted = TRUE])
        \/ DriverError(s, c)
    BY <1>9, ZenonT(60) DEF action_query, c
  <2>3. ASSUME NEW k \in Terminals
        PROVE Kept(cmd[s], [accept_terminal(c, i, k) EXCEPT
                              !.act[i].phase = "TERMINAL", !.act[i].accepted = TRUE])
    <3>1. Kept(cmd[s], accept_terminal(c, i, k)) /\ accept_terminal(c, i, k) \in CommandRecord
      BY <1>1, <1>4, ZenonT(60), SMTT(60) DEF Kept
    <3> QED BY <1>4, <3>1, ZenonT(60) DEF ActionPhases
  <2> QED BY <1>1, <1>3, <1>4, <2>1, <2>2, <2>3, InstallGood, ErrorGood, ZenonT(60) DEF ActionPhases, Terminals
<1>10. CASE RetireStart(s, i)
  <2>1. UNCHANGED owned /\ StepRest
    BY <1>10 DEF RetireStart
  <2>2. \/ Install(s, [c EXCEPT !.act[i].phase = "RETIRE_ISSUED"])
        \/ Install(s, [c EXCEPT !.act[i].phase = "DRAINING"])
        \/ DriverError(s, c)
    BY <1>10 DEF RetireStart, c
  <2> QED BY <1>1, <1>3, <1>4, <2>1, <2>2, InstallGood, ErrorGood, ZenonT(60) DEF ActionPhases, Terminals
<1>11. CASE RetireQuery(s, i)
  <2>1. owned' \subseteq Nat \X Ordinals \X LaneSet /\ StepRest
    BY <1>3, <1>11 DEF RetireQuery
  <2>2. \/ Install(s, c)
        \/ Install(s, [c EXCEPT !.act[i].phase = "DRAINED"])
        \/ DriverError(s, c)
    BY <1>11 DEF RetireQuery, c
  <2> QED BY <1>1, <1>4, <2>1, <2>2, InstallGood, ErrorGood, ZenonT(60) DEF ActionPhases, Terminals
<1> QED BY <1>5, <1>6, <1>7, <1>8, <1>9, <1>10, <1>11

\* The updates process_abort and finalize_command make outside the actions.
LEMMA AbortFieldsKept ==
  ASSUME NEW c \in CommandRecord, NEW ab \in AbortRecord, NEW b \in BOOLEAN,
         NEW ph \in CommandPhases \ {"FREE"}, occupied(c),
         ab.bound = c.abort.bound,
         c.abort.bound # NoSlot => ab.target = c.abort.target,
         (ab.end = "OPEN" /\ ab.report = "NONE") =>
            (c.abort.end = "OPEN" /\ c.abort.report = "NONE")
  PROVE Kept(c, [c EXCEPT !.abort = ab, !.suppress = b, !.phase = ph])
<1>1. [c EXCEPT !.abort = ab, !.suppress = b, !.phase = ph] \in CommandRecord
  BY ZenonT(60) DEF CommandRecord
<1> QED BY <1>1 DEF Kept, occupied, CommandRecord

\* relation_source
LEMMA ReadCandidateGood ==
  ASSUME cmd \in [Slots -> CommandRecord], TypeOther, ReadBeforeBound(cmd),
         NEW s \in Slots, ReadCandidate(s)
  PROVE Good
<1> DEFINE c == propagate_cancel(cmd[s])
           failed == [c EXCEPT !.abort.end = "SINK_FAILED", !.suppress = TRUE]
<1>0. cmd[s] \in CommandRecord /\ occupied(cmd[s]) /\ cmd[s].abort.bound = NoSlot
      /\ cmd[s].abort.report = "NONE" /\ cmd[s].abort.end = "OPEN"
      /\ cmd[s].phase = "ACTIVE"
  BY ZenonT(60) DEF ReadCandidate, AtAbort, ReadBeforeBound, occupied
<1>1. /\ Kept(cmd[s], c) /\ c \in CommandRecord
      /\ c.phase = "ACTIVE" /\ c.abort = cmd[s].abort /\ c.suppress = cmd[s].suppress
  BY <1>0, PropagateKept, ZenonT(60), SMTT(60) DEF Kept, propagate_cancel, cancel_all, CommandRecord
<1>2. UNCHANGED owned /\ StepRest /\ owned' \subseteq Nat \X Ordinals \X LaneSet
  BY ZenonT(60) DEF ReadCandidate, TypeOther
<1>3. \/ SinkFailed(s, [cmd EXCEPT ![s] = c])
      \/ Install(s, [c EXCEPT !.abort.end = "SUPERSEDED", !.suppress = TRUE])
      \/ Install(s, c)
      \/ \E r \in Reports \ {"FOUND"} : Install(s, [c EXCEPT !.abort.report = r])
      \/ \E u \in 1 .. next_uid - 1 :
           Install(s, [c EXCEPT !.abort.report = "FOUND", !.abort.target = u])
  BY ZenonT(60) DEF ReadCandidate
<1> HIDE DEF c
<1>4. c.abort \in AbortRecord /\ occupied(c) /\ c.suppress \in BOOLEAN
  BY <1>0, <1>1 DEF CommandRecord, occupied
<1>5. ASSUME NEW ab \in AbortRecord, NEW b \in BOOLEAN, ab.bound = NoSlot
      PROVE Kept(cmd[s], [c EXCEPT !.abort = ab, !.suppress = b, !.phase = "ACTIVE"])
  <2>1. Kept(c, [c EXCEPT !.abort = ab, !.suppress = b, !.phase = "ACTIVE"])
    BY <1>0, <1>1, <1>4, <1>5, AbortFieldsKept, ZenonT(60) DEF CommandPhases
  <2> QED BY <1>1, <2>1, KeptTrans
<1>6. CASE SinkFailed(s, [cmd EXCEPT ![s] = c])
  <2>1. failed = [c EXCEPT !.abort = [c.abort EXCEPT !.end = "SINK_FAILED"],
                           !.suppress = TRUE, !.phase = "ACTIVE"]
    BY <1>1, ZenonT(60) DEF CommandRecord
  <2>2. [c.abort EXCEPT !.end = "SINK_FAILED"] \in AbortRecord
    BY <1>4 DEF AbortRecord
  <2>3. Kept(cmd[s], failed)
    BY <1>0, <1>1, <1>4, <1>5, <2>1, <2>2, ZenonT(60) DEF AbortRecord
  <2>4. DriverError(s, failed)
    BY <1>0, <1>6, ZenonT(60) DEF SinkFailed, DriverError
  <2> QED BY <1>2, <2>3, <2>4, ErrorGood
<1>7. CASE Install(s, [c EXCEPT !.abort.end = "SUPERSEDED", !.suppress = TRUE])
  <2>1. [c EXCEPT !.abort.end = "SUPERSEDED", !.suppress = TRUE]
          = [c EXCEPT !.abort = [c.abort EXCEPT !.end = "SUPERSEDED"],
                      !.suppress = TRUE, !.phase = "ACTIVE"]
    BY <1>1, ZenonT(60) DEF CommandRecord
  <2>2. [c.abort EXCEPT !.end = "SUPERSEDED"] \in AbortRecord
    BY <1>4 DEF AbortRecord
  <2>3. Kept(cmd[s], [c EXCEPT !.abort.end = "SUPERSEDED", !.suppress = TRUE])
    BY <1>0, <1>1, <1>4, <1>5, <2>1, <2>2, ZenonT(60) DEF AbortRecord
  <2> QED BY <1>2, <1>7, <2>3, InstallGood
<1>8. CASE Install(s, c)
  BY <1>1, <1>2, <1>8, InstallGood
<1>9. ASSUME NEW r \in Reports \ {"FOUND"}, Install(s, [c EXCEPT !.abort.report = r])
      PROVE Good
  <2>1. [c EXCEPT !.abort.report = r]
          = [c EXCEPT !.abort = [c.abort EXCEPT !.report = r],
                      !.suppress = c.suppress, !.phase = "ACTIVE"]
    BY <1>1, ZenonT(60) DEF CommandRecord
  <2>2. [c.abort EXCEPT !.report = r] \in AbortRecord
        /\ [c.abort EXCEPT !.report = r].bound = NoSlot
    BY <1>0, <1>1, <1>4 DEF AbortRecord
  <2>3. Kept(cmd[s], [c EXCEPT !.abort.report = r])
    BY <1>4, <1>5, <2>1, <2>2, ZenonT(60)
  <2> QED BY <1>2, <1>9, <2>3, InstallGood
<1>10. ASSUME NEW u \in 1 .. next_uid - 1,
              Install(s, [c EXCEPT !.abort.report = "FOUND", !.abort.target = u])
       PROVE Good
  <2> DEFINE ab == [c.abort EXCEPT !.report = "FOUND", !.target = u]
  <2>1. [c EXCEPT !.abort.report = "FOUND", !.abort.target = u]
          = [c EXCEPT !.abort = ab, !.suppress = c.suppress, !.phase = "ACTIVE"]
    BY <1>1, ZenonT(60) DEF CommandRecord
  <2>2. u \in Nat
    BY <1>10, SMTT(60)
  <2>3. ab \in AbortRecord /\ ab.bound = NoSlot
    BY <1>0, <1>1, <1>4, <2>2, ZenonT(60) DEF AbortRecord, Reports
  <2> HIDE DEF ab
  <2>4. Kept(cmd[s], [c EXCEPT !.abort.report = "FOUND", !.abort.target = u])
    BY <1>4, <1>5, <2>1, <2>3, ZenonT(60)
  <2> QED BY <1>2, <1>10, <2>4, InstallGood
<1> QED BY <1>3, <1>6, <1>7, <1>8, <1>9, <1>10, ZenonT(60)

\* finalize_command changes two counters as well.
LEMMA FinalizeGood ==
  ASSUME cmd \in [Slots -> CommandRecord], TypeOther, NEW s \in Slots, finalize_command(s)
  PROVE Good
<1> DEFINE c == propagate_cancel(cmd[s])
           e == abort_settled(c)
<1>0. cmd[s] \in CommandRecord /\ cmd[s].phase = "ACTIVE"
  BY DEF finalize_command
<1>1. /\ Kept(cmd[s], c) /\ c \in CommandRecord /\ c.phase = "ACTIVE"
  BY <1>0, PropagateKept, ZenonT(60) DEF Kept, propagate_cancel, cancel_all, CommandRecord
<1>2. active_after(e) \in Nat /\ retained_intents + 1 \in Nat
  BY SMTT(60) DEF active_after, TypeOther
<1>3. /\ \/ /\ Install(s, [e EXCEPT !.phase = "QUARANTINED"])
            /\ UNCHANGED retained_intents
         \/ /\ env.faults
            /\ Poison([cmd EXCEPT ![s] = [e EXCEPT !.phase = "QUARANTINED"]])
            /\ UNCHANGED retained_intents
         \/ /\ Install(s, [e EXCEPT !.phase = "INTENT"])
            /\ retained_intents' = retained_intents + 1
      /\ active_commands' = active_after(e)
      /\ UNCHANGED <<lane, ring, ids, completion_leases, alive, owned, published>>
  BY DEF finalize_command
<1> HIDE DEF c
<1>4. ASSUME NEW ph \in {"QUARANTINED", "INTENT"}
      PROVE Kept(cmd[s], [e EXCEPT !.phase = ph])
  <2>1. c.abort \in AbortRecord /\ occupied(c) /\ c.suppress \in BOOLEAN
    BY <1>1 DEF CommandRecord, occupied
  <2>2. \E ab \in AbortRecord, b \in BOOLEAN :
          /\ [e EXCEPT !.phase = ph] = [c EXCEPT !.abort = ab, !.suppress = b, !.phase = ph]
          /\ ab.bound = c.abort.bound /\ ab.target = c.abort.target
          /\ ab = c.abort \/ ab.end # "OPEN"
    <3>1. CASE e = c
      <4>1. [e EXCEPT !.phase = ph] = [c EXCEPT !.abort = c.abort, !.suppress = c.suppress, !.phase = ph]
        BY <1>1, <3>1, ZenonT(60) DEF CommandRecord
      <4> QED BY <2>1, <4>1, ZenonT(60)
    <3>2. CASE e = [c EXCEPT !.abort.end = "ABANDONED", !.abort.report = "NONE"]
      <4> DEFINE ab == [c.abort EXCEPT !.end = "ABANDONED", !.report = "NONE"]
      <4>1. ab \in AbortRecord /\ ab.bound = c.abort.bound /\ ab.target = c.abort.target
            /\ ab.end # "OPEN"
        BY <2>1, ZenonT(60) DEF AbortRecord
      <4>2. [e EXCEPT !.phase = ph] = [c EXCEPT !.abort = ab, !.suppress = c.suppress, !.phase = ph]
        BY <1>1, <3>2, ZenonT(60) DEF CommandRecord
      <4> HIDE DEF ab
      <4> QED BY <2>1, <4>1, <4>2, ZenonT(60)
    <3>3. CASE e = [c EXCEPT !.abort.end = "SUPERSEDED", !.suppress = TRUE]
      <4> DEFINE ab == [c.abort EXCEPT !.end = "SUPERSEDED"]
      <4>1. ab \in AbortRecord /\ ab.bound = c.abort.bound /\ ab.target = c.abort.target
            /\ ab.end # "OPEN"
        BY <2>1 DEF AbortRecord
      <4>2. [e EXCEPT !.phase = ph] = [c EXCEPT !.abort = ab, !.suppress = TRUE, !.phase = ph]
        BY <1>1, <3>3 DEF CommandRecord
      <4> HIDE DEF ab
      <4> QED BY <4>1, <4>2, ZenonT(60)
    <3> QED BY <3>1, <3>2, <3>3, ZenonT(60) DEF abort_settled
  <2>3. PICK ab \in AbortRecord, b \in BOOLEAN :
          /\ [e EXCEPT !.phase = ph] = [c EXCEPT !.abort = ab, !.suppress = b, !.phase = ph]
          /\ ab.bound = c.abort.bound /\ ab.target = c.abort.target
          /\ ab = c.abort \/ ab.end # "OPEN"
    BY <2>2, ZenonT(60)
  <2>4. Kept(c, [c EXCEPT !.abort = ab, !.suppress = b, !.phase = ph])
    BY <1>1, <2>1, <2>3, AbortFieldsKept, ZenonT(60) DEF CommandPhases
  <2> QED BY <1>1, <2>3, <2>4, KeptTrans
<1> HIDE DEF e
<1>5. AllKept
  <2>1. CASE \E ph \in {"QUARANTINED", "INTENT"} : Install(s, [e EXCEPT !.phase = ph])
    BY <1>4, <2>1, InstallKept, ZenonT(60) DEF Install
  <2>2. CASE Poison([cmd EXCEPT ![s] = [e EXCEPT !.phase = "QUARANTINED"]])
    <3> DEFINE cs == [cmd EXCEPT ![s] = [e EXCEPT !.phase = "QUARANTINED"]]
    <3>1. Kept(cmd[s], [e EXCEPT !.phase = "QUARANTINED"])
      BY <1>4
    <3>2. cs \in [Slots -> CommandRecord] /\ \A t \in Slots : Kept(cmd[t], cs[t])
      BY <3>1, KeptRefl DEF Kept
    <3> QED BY <2>2, <3>2, PoisonKept, ZenonT(60) DEF Poison
  <2> QED BY <1>3, <2>1, <2>2
<1>6. TypeOther' /\ UNCHANGED <<next_uid, published>>
  <2>1. admission_closed' \in BOOLEAN /\ close_started' \in BOOLEAN /\ poisoned' \in BOOLEAN
    BY <1>3, ZenonT(60) DEF TypeOther, Install, Poison, gates
  <2>2. active_commands' \in Nat /\ retained_intents' \in Nat
    BY <1>2, <1>3 DEF TypeOther
  <2> QED BY <1>3, <2>1, <2>2 DEF TypeOther, ring, ids
<1> QED BY <1>5, <1>6 DEF Good

\* Calls that change no command, or poison them.
LEMMA PoisonOrNothing ==
  ASSUME cmd \in [Slots -> CommandRecord], TypeOther,
         (UNCHANGED <<cmd, gates>>) \/ Poison(cmd)
  PROVE AllKept /\ {admission_closed, close_started, poisoned}' \subseteq BOOLEAN
<1>1. CASE UNCHANGED <<cmd, gates>>
  BY <1>1, KeptRefl DEF AllKept, gates, TypeOther
<1>2. CASE Poison(cmd)
  BY <1>2, KeptRefl, PoisonKept DEF Poison, TypeOther
<1> QED BY <1>1, <1>2

\* process_driver_close keeps every command.
LEMMA DriverCloseGood ==
  ASSUME cmd \in [Slots -> CommandRecord], TypeOther, NEW l \in LaneSet,
         process_driver_close(l)
  PROVE Good
<1>1. (UNCHANGED <<cmd, gates>>) \/ Poison(cmd)
  BY DEF process_driver_close
<1>2. lane' \in [LaneSet -> [acked : BOOLEAN, quiescent : BOOLEAN]]
  <2> DEFINE q == \A t \in owned : t[3] # l
  <2>1. q \in BOOLEAN /\ lane[l] \in [acked : BOOLEAN, quiescent : BOOLEAN]
    BY DEF TypeOther
  <2>2. \/ lane' = lane
        \/ lane' = [lane EXCEPT ![l].acked = TRUE]
        \/ lane' = [lane EXCEPT ![l].quiescent = q]
    BY DEF process_driver_close
  <2> HIDE DEF q
  <2>3. ASSUME NEW a \in [acked : BOOLEAN, quiescent : BOOLEAN]
        PROVE  [lane EXCEPT ![l] = a] \in [LaneSet -> [acked : BOOLEAN, quiescent : BOOLEAN]]
    BY DEF TypeOther
  <2>4. /\ [lane[l] EXCEPT !.acked = TRUE] \in [acked : BOOLEAN, quiescent : BOOLEAN]
        /\ [lane[l] EXCEPT !.quiescent = q] \in [acked : BOOLEAN, quiescent : BOOLEAN]
    BY <2>1, ZenonT(60)
  <2>5. \/ lane' = lane
        \/ lane' = [lane EXCEPT ![l] = [lane[l] EXCEPT !.acked = TRUE]]
        \/ lane' = [lane EXCEPT ![l] = [lane[l] EXCEPT !.quiescent = q]]
    BY <2>2
  <2> QED BY <2>3, <2>4, <2>5, ZenonT(60) DEF TypeOther
<1>3. UNCHANGED <<ring, ids, counters, alive, owned, published>>
  BY DEF process_driver_close
<1> QED BY <1>1, <1>2, <1>3, PoisonOrNothing DEF Good, TypeOther, ring, ids, counters

-----------------------------------------------------------------------------
(* process_abort: binding a target.                                        *)

\* What AbortDecide reads before it binds: the command's own slot is settled.
LEMMA BindIdent ==
  ASSUME cmd \in [Slots -> CommandRecord], NEW n \in Nat, NEW pub, Ident(cmd, n, pub),
         NEW s \in Slots, AtAbort(s), cmd[s].abort.report # "NONE",
         NEW cs, cs = [cmd EXCEPT ![s] = propagate_cancel(cmd[s])]
  PROVE /\ bind_target(cs, s) \in [Slots -> CommandRecord]
        /\ Ident(bind_target(cs, s), n, pub)
        /\ bind_target(cs, s)[s].abort.report # "NONE"
        /\ bind_target(cs, s)[s].phase = "ACTIVE"
<1> DEFINE c == propagate_cancel(cmd[s])
           ab == cs[s].abort
           found == {t \in find_ticket(ab.target) : Abortable(s, t)}
<1>0. cmd[s] \in CommandRecord /\ cmd[s].phase = "ACTIVE"
  BY DEF AtAbort
<1>1. /\ Kept(cmd[s], c) /\ c \in CommandRecord
      /\ c.phase = "ACTIVE" /\ c.abort = cmd[s].abort
  BY <1>0, PropagateKept, ZenonT(60) DEF Kept, propagate_cancel, cancel_all, CommandRecord
<1> HIDE DEF c
<1>2. /\ cs \in [Slots -> CommandRecord] /\ cs[s] = c
      /\ \A t \in Slots : Kept(cmd[t], cs[t])
      /\ \A t \in Slots \ {s} : cs[t] = cmd[t]
  BY <1>1, KeptRefl DEF c
<1>3. Ident(cs, n, pub)
  BY <1>2, KeptIdent, ZenonT(60)
<1>4. CASE ab.decision # "NONE" \/ ab.bound # NoSlot
  <2>1. bind_target(cs, s) = cs
    BY <1>4, ZenonT(60) DEF bind_target
  <2> QED BY <1>1, <1>2, <1>3, <2>1, ZenonT(60)
<1>5. CASE ~(ab.decision # "NONE" \/ ab.bound # NoSlot) /\ (ab.report # "FOUND" \/ found = {})
  <2> DEFINE d == [c EXCEPT !.abort = [c.abort EXCEPT !.decision = "NOT_ABORTED"]]
  <2>1. bind_target(cs, s) = [cs EXCEPT ![s] = d]
    BY <1>1, <1>2, <1>5, ZenonT(60) DEF bind_target, CommandRecord
  <2>2. [c.abort EXCEPT !.decision = "NOT_ABORTED"] \in AbortRecord
    BY <1>1 DEF CommandRecord, AbortRecord
  <2>3. d \in CommandRecord
    BY <1>1, <2>2, ZenonT(60) DEF CommandRecord
  <2>4. Kept(c, d) /\ d.phase = "ACTIVE" /\ d.abort.report # "NONE"
    BY <1>1, <2>3, SMTT(60) DEF Kept, CommandRecord, AbortRecord, occupied
  <2> HIDE DEF d
  <2>5. /\ [cs EXCEPT ![s] = d] \in [Slots -> CommandRecord]
        /\ \A t \in Slots : Kept(cs[t], [cs EXCEPT ![s] = d][t])
    BY <1>2, <2>3, <2>4, KeptRefl
  <2>6. Ident([cs EXCEPT ![s] = d], n, pub)
    BY <1>2, <1>3, <2>5, KeptIdent, ZenonT(60)
  <2> QED BY <1>2, <2>1, <2>4, <2>5, <2>6, ZenonT(60)
<1>6. CASE ~(ab.decision # "NONE" \/ ab.bound # NoSlot) /\ ~(ab.report # "FOUND" \/ found = {})
  <2> DEFINE t == CHOOSE x \in found : TRUE
             mask == {i \in OrdinalsOf(cs[t]) : cs[t].act[i].accepted}
             d == [c EXCEPT !.abort = [c.abort EXCEPT !.bound = t, !.mask = mask]]
             e == [cancel_all(cs[t]) EXCEPT !.incoming = c.uid]
             ds == [cs EXCEPT ![t] = e, ![s] = d]
  <2>1. t \in found
    BY <1>6
  <2> HIDE DEF t
  <2>2. /\ t \in Slots /\ t # s /\ cs[t] = cmd[t]
        /\ occupied(cmd[t]) /\ cmd[t].uid = c.abort.target /\ cmd[t].incoming = 0
        /\ cmd[t].prog \in Programs
    BY <1>2, <2>1 DEF find_ticket, Abortable, Ident, ProgramKnown
  <2>3. mask \in SUBSET Ordinals
    BY <2>2, SpineConstants, SMTT(60) DEF OrdinalsOf, Ordinals
  <2> HIDE DEF mask
  <2>4. bind_target(cs, s) = ds
    <3>1. bind_target(cs, s) = [cs EXCEPT ![t] = bound_by(cs[t], cs[s].uid),
                                          ![s].abort.bound = t,
                                          ![s].abort.mask = mask]
      BY <1>6 DEF bind_target, t, mask
    <3>2. bound_by(cs[t], cs[s].uid) = e
      BY <1>2 DEF bound_by
    <3> HIDE DEF e
    <3>3. [cs EXCEPT ![t] = e, ![s].abort.bound = t, ![s].abort.mask = mask] = ds
      <4>1. c.abort \in AbortRecord
        BY <1>1 DEF CommandRecord
      <4>2. [[c EXCEPT !.abort.bound = t] EXCEPT !.abort.mask = mask] = d
        BY <1>1, <4>1, ZenonT(60) DEF CommandRecord, AbortRecord
      <4> DEFINE c1 == [c EXCEPT !.abort.bound = t]
      <4>3. [cs EXCEPT ![t] = e, ![s].abort.bound = t, ![s].abort.mask = mask]
             = [[cs EXCEPT ![t] = e, ![s] = c1] EXCEPT ![s] = [c1 EXCEPT !.abort.mask = mask]]
        BY <1>2, <2>2, ZenonT(60)
      <4>4. [c1 EXCEPT !.abort.mask = mask] = d
        BY <4>2
      <4> HIDE DEF c1, d
      <4>5. [[cs EXCEPT ![t] = e, ![s] = c1] EXCEPT ![s] = d] = [cs EXCEPT ![t] = e, ![s] = d]
        BY <1>2, <2>2, ZenonT(60)
      <4> QED BY <4>3, <4>4, <4>5, ZenonT(60)
    <3> QED BY <3>1, <3>2, <3>3, ZenonT(60)
  <2>5. [c.abort EXCEPT !.bound = t, !.mask = mask] \in AbortRecord
    BY <1>1, <2>2, <2>3, ZenonT(60) DEF CommandRecord, AbortRecord
  <2>6. /\ d \in CommandRecord /\ d.phase = "ACTIVE" /\ d.uid = c.uid /\ d.prog = c.prog
        /\ d.incoming = c.incoming /\ d.abort.bound = t /\ d.abort.target = c.abort.target
        /\ d.abort.report = c.abort.report
    BY <1>1, <2>5, ZenonT(60), SMTT(60) DEF CommandRecord, AbortRecord
  <2>7. Kept(cs[t], cancel_all(cs[t])) /\ cancel_all(cs[t]).phase = cs[t].phase
        /\ cancel_all(cs[t]).abort = cs[t].abort
    BY <1>2, <2>2, CancelAllKept, CancelAllFields
  <2>8. /\ e \in CommandRecord /\ occupied(e) /\ e.uid = cs[t].uid /\ e.prog = cs[t].prog
        /\ e.incoming = c.uid /\ e.abort = cs[t].abort
    <3> DEFINE k == cancel_all(cs[t])
    <3>1. /\ k \in CommandRecord /\ k.phase = cs[t].phase /\ k.abort = cs[t].abort
          /\ k.uid = cs[t].uid /\ k.prog = cs[t].prog /\ c.uid \in Nat
      BY <1>1, <2>7 DEF Kept, CommandRecord
    <3> HIDE DEF k
    <3>2. e = [k EXCEPT !.incoming = c.uid]
      BY DEF k
    <3> HIDE DEF e
    <3> QED BY <2>2, <3>1, <3>2 DEF CommandRecord, occupied
  <2> HIDE DEF d, e
  <2>9. /\ ds \in [Slots -> CommandRecord] /\ ds[t] = e /\ ds[s] = d
        /\ \A x \in Slots \ {s, t} : ds[x] = cmd[x]
    BY <1>2, <2>2, <2>6, <2>8, SMTT(60)
  <2> HIDE DEF ds
  <2>10. /\ \A x \in Slots : /\ occupied(ds[x]) <=> occupied(cmd[x])
                             /\ ds[x].uid = cmd[x].uid /\ ds[x].prog = cmd[x].prog
         /\ \A x \in Slots \ {s} : ds[x].abort = cmd[x].abort
         /\ \A x \in Slots \ {t} : ds[x].incoming = cmd[x].incoming
    BY <1>0, <1>1, <2>2, <2>6, <2>8, <2>9, SMTT(60) DEF Kept, occupied
  <2>11. ProgramKnown(ds) /\ TicketsDistinct(ds, n) /\ PublishedGone(ds, n, pub)
    BY <2>10, SMTT(60) DEF Ident, ProgramKnown, TicketsDistinct, PublishedGone
  <2>12. ReadBeforeBound(ds)
    BY <1>1, <2>6, <2>9, <2>10, SMTT(60) DEF Ident, ReadBeforeBound
  <2>13. Bound(ds)
    <3> SUFFICES ASSUME NEW x \in Slots, occupied(ds[x]), ds[x].abort.bound # NoSlot
                 PROVE  /\ occupied(ds[ds[x].abort.bound])
                        /\ ds[ds[x].abort.bound].uid = ds[x].abort.target
                        /\ ds[ds[x].abort.bound].incoming = ds[x].uid
      BY DEF Bound
    <3>1. CASE x = s
      BY <1>1, <2>2, <2>6, <2>8, <2>9, <3>1
    <3>2. CASE x # s
      <4> DEFINE y == cmd[x].abort.bound
      <4>1. /\ occupied(cmd[x]) /\ ds[x].abort.bound = y /\ y # NoSlot
            /\ cmd[x].uid > 0 /\ ds[x].abort.target = cmd[x].abort.target
        BY <2>10, <3>2, SMTT(60) DEF Ident, TicketsDistinct
      <4>2. y \in Slots
        BY <4>1 DEF CommandRecord, AbortRecord
      <4>3. occupied(cmd[y]) /\ cmd[y].uid = cmd[x].abort.target /\ cmd[y].incoming = cmd[x].uid
        BY <4>1 DEF Ident, Bound
      <4>4. y # t
        BY <2>2, <4>1, <4>3, SMTT(60)
      <4> HIDE DEF y
      <4> QED BY <2>10, <4>1, <4>2, <4>3, <4>4
    <3> QED BY <3>1, <3>2
  <2> QED BY <1>1, <2>4, <2>6, <2>9, <2>11, <2>12, <2>13, ZenonT(60) DEF Ident
<1> QED BY <1>4, <1>5, <1>6, ZenonT(60)

\* poison_lifecycle keeps every command.
LEMMA PoisonKeeps ==
  ASSUME NEW cs \in [Slots -> CommandRecord]
  PROVE /\ poison_lifecycle(cs) \in [Slots -> CommandRecord]
        /\ \A t \in Slots : Kept(cs[t], poison_lifecycle(cs)[t])
<1> SUFFICES ASSUME NEW t \in Slots
             PROVE  /\ poison_lifecycle(cs)[t] \in CommandRecord
                    /\ Kept(cs[t], poison_lifecycle(cs)[t])
  BY ZenonT(60) DEF poison_lifecycle
<1>1. cs[t] \in CommandRecord
  OBVIOUS
<1>2. [cs[t] EXCEPT !.cancel = TRUE, !.suppress = TRUE] \in CommandRecord
  BY <1>1, ZenonT(60) DEF CommandRecord
<1>3. Kept(cs[t], [cs[t] EXCEPT !.cancel = TRUE, !.suppress = TRUE])
  BY <1>1, <1>2, KeptFields, ZenonT(60) DEF CommandRecord
<1> QED BY <1>1, <1>2, <1>3, KeptRefl DEF poison_lifecycle

\* Deciding, acknowledging or failing the relation keeps the commands.
LEMMA DecideKept ==
  ASSUME NEW cs \in [Slots -> CommandRecord], NEW s \in Slots,
         cs[s].phase = "ACTIVE", cs[s].abort.report # "NONE"
  PROVE /\ decide_target(cs, s) \in [Slots -> CommandRecord]
        /\ \A t \in Slots : Kept(cs[t], decide_target(cs, s)[t])
        /\ decide_target(cs, s)[s].phase = "ACTIVE"
        /\ decide_target(cs, s)[s].abort.report # "NONE"
<1> DEFINE won == target_abort_won(cs[s].abort, cs[cs[s].abort.bound])
           r == IF won THEN "ABORT_WON" ELSE "NOT_ABORTED"
           ab == [cs[s].abort EXCEPT !.decision = r]
           d == [cs[s] EXCEPT !.abort = ab]
<1>1. decide_target(cs, s) = cs \/ decide_target(cs, s) = [cs EXCEPT ![s] = d]
  BY DEF decide_target
<1>2. r \in {"ABORT_WON", "NOT_ABORTED"}
  OBVIOUS
<1> HIDE DEF r
<1>3. /\ cs[s] \in CommandRecord /\ cs[s].abort \in AbortRecord
  BY DEF CommandRecord
<1>4. /\ ab \in AbortRecord /\ ab.bound = cs[s].abort.bound
      /\ ab.target = cs[s].abort.target /\ ab.report = cs[s].abort.report
  BY <1>2, <1>3 DEF AbortRecord
<1> HIDE DEF ab
<1>5. d \in CommandRecord
  BY <1>3, <1>4 DEF CommandRecord
<1>6. Kept(cs[s], d) /\ d.phase = "ACTIVE" /\ d.abort.report # "NONE"
  BY <1>3, <1>4, <1>5 DEF Kept, occupied, CommandRecord
<1> HIDE DEF d
<1>7. CASE decide_target(cs, s) = cs
  BY <1>7, KeptRefl
<1>8. CASE decide_target(cs, s) = [cs EXCEPT ![s] = d]
  BY <1>5, <1>6, <1>8, KeptRefl
<1> QED BY <1>1, <1>7, <1>8

Acked(cs, s) == [cs EXCEPT ![s].abort.end = "SINK_ACKED"]
Failed(cs, s) == [cs EXCEPT ![s].abort.end = "SINK_FAILED", ![s].suppress = TRUE]

\* The sink's answer to an abort keeps every command.
LEMMA AbortEndKept ==
  ASSUME NEW cs \in [Slots -> CommandRecord], NEW s \in Slots,
         cs[s].phase = "ACTIVE", NEW ds \in {Acked(cs, s), Failed(cs, s)}
  PROVE /\ ds \in [Slots -> CommandRecord]
        /\ \A t \in Slots : Kept(cs[t], ds[t])
<1>1. /\ cs[s] \in CommandRecord /\ cs[s].abort \in AbortRecord
  BY DEF CommandRecord
<1> DEFINE acked == [cs[s].abort EXCEPT !.end = "SINK_ACKED"]
           failed == [cs[s].abort EXCEPT !.end = "SINK_FAILED"]
<1>2. /\ acked \in AbortRecord /\ acked.bound = cs[s].abort.bound
      /\ acked.target = cs[s].abort.target /\ acked.end # "OPEN"
      /\ failed \in AbortRecord /\ failed.bound = cs[s].abort.bound
      /\ failed.target = cs[s].abort.target /\ failed.end # "OPEN"
  BY <1>1 DEF AbortRecord
<1>3. \/ ds = [cs EXCEPT ![s] = [cs[s] EXCEPT !.abort = acked]]
      \/ ds = [cs EXCEPT ![s] = [cs[s] EXCEPT !.abort = failed, !.suppress = TRUE]]
  BY <1>1, ZenonT(60) DEF CommandRecord, Acked, Failed
<1> HIDE DEF acked, failed
<1> DEFINE d1 == [cs[s] EXCEPT !.abort = acked]
           d2 == [cs[s] EXCEPT !.abort = failed, !.suppress = TRUE]
<1>4. d1 \in CommandRecord /\ d2 \in CommandRecord
  BY <1>1, <1>2, ZenonT(60) DEF CommandRecord
<1>5. Kept(cs[s], d1) /\ Kept(cs[s], d2)
  BY <1>1, <1>2, <1>4 DEF Kept, occupied, CommandRecord
<1> HIDE DEF d1, d2
<1>6. ASSUME NEW d \in CommandRecord, Kept(cs[s], d)
      PROVE  /\ [cs EXCEPT ![s] = d] \in [Slots -> CommandRecord]
             /\ \A t \in Slots : Kept(cs[t], [cs EXCEPT ![s] = d][t])
  BY <1>6, KeptRefl
<1> QED BY <1>3, <1>4, <1>5, <1>6 DEF d1, d2

\* process_abort binds at most one target, which nobody else has bound.
LEMMA AbortDecideIdent ==
  ASSUME cmd \in [Slots -> CommandRecord], TypeOther, Ident(cmd, next_uid, published),
         NEW s \in Slots, AbortDecide(s)
  PROVE /\ cmd' \in [Slots -> CommandRecord] /\ TypeOther'
        /\ Ident(cmd', next_uid', published')
<1> DEFINE b == bind_target([cmd EXCEPT ![s] = propagate_cancel(cmd[s])], s)
           cs == decide_target(b, s)
           acked == Acked(cs, s)
           failed == Failed(cs, s)
<1>0. next_uid \in Nat
  BY SpineConstants, SMTT(60) DEF TypeOther
<1>1. /\ b \in [Slots -> CommandRecord] /\ Ident(b, next_uid, published)
      /\ b[s].abort.report # "NONE" /\ b[s].phase = "ACTIVE"
  BY <1>0, BindIdent, ZenonT(60) DEF AbortDecide
<1>2. /\ cs \in [Slots -> CommandRecord] /\ cs[s].phase = "ACTIVE"
      /\ \A t \in Slots : Kept(b[t], cs[t])
  <2> HIDE DEF b
  <2> QED BY <1>1, DecideKept
<1>3. Ident(cs, next_uid, published)
  <2> HIDE DEF b, cs
  <2> QED BY <1>0, <1>1, <1>2, KeptIdent
<1>4. /\ UNCHANGED <<owned, lane, ring, ids, counters, alive, published>>
      /\ \/ cmd' = cs /\ UNCHANGED gates
         \/ cmd' = acked /\ UNCHANGED gates
         \/ Poison(failed)
  BY ZenonT(60) DEF AbortDecide, SinkFailed, StepRest, Acked, Failed
<1> HIDE DEF b, cs
<1>5. /\ acked \in [Slots -> CommandRecord] /\ \A t \in Slots : Kept(cs[t], acked[t])
      /\ failed \in [Slots -> CommandRecord] /\ \A t \in Slots : Kept(cs[t], failed[t])
  BY <1>2, AbortEndKept
<1>6. /\ Ident(acked, next_uid, published) /\ Ident(failed, next_uid, published)
  <2> HIDE DEF acked, failed
  <2> QED BY <1>0, <1>2, <1>3, <1>5, KeptIdent
<1> HIDE DEF acked, failed
<1>7. /\ poison_lifecycle(failed) \in [Slots -> CommandRecord]
      /\ Ident(poison_lifecycle(failed), next_uid, published)
  BY <1>0, <1>5, <1>6, PoisonKeeps, KeptIdent
<1>8. cmd' \in [Slots -> CommandRecord] /\ Ident(cmd', next_uid, published)
  BY <1>2, <1>3, <1>4, <1>5, <1>6, <1>7 DEF Poison
<1>9. TypeOther' /\ UNCHANGED <<next_uid, published>>
  BY <1>4, ZenonT(60) DEF TypeOther, Poison, gates, ring, ids, counters
<1> QED BY <1>8, <1>9

-----------------------------------------------------------------------------
(* step_one and the entry points.                                          *)

\* A good step preserves the invariant, but for the cursor.
LEMMA GoodStep ==
  ASSUME IInv, Good
  PROVE /\ cmd' \in [Slots -> CommandRecord] /\ TypeOther'
        /\ Ident(cmd', next_uid', published')
<1>1. next_uid \in Nat /\ cmd \in [Slots -> CommandRecord]
  BY SpineConstants, SMTT(60) DEF IInv, ArenaOK
<1> QED BY <1>1, KeptIdent DEF Good, AllKept, IInv

\* ArenaOK in the three parts the steps preserve.
LEMMA TypeSplit == ArenaOK <=> /\ cmd \in [Slots -> CommandRecord] /\ TypeOther
                              /\ cursor \in 0 .. N + Lanes - 1
  BY DEF ArenaOK, TypeOther

\* The service cursor wraps within slots and lanes.
LEMMA CursorInRange ==
  ASSUME ArenaOK, NEW j \in 0 .. Span - 1
  PROVE after(j) \in 0 .. N + Lanes - 1
<1>1. Span \in Nat /\ Span > 0 /\ Span <= N + Lanes
  BY SpineConstants, SMTT(60) DEF Span
<1>2. (j + 1) % Span \in 0 .. Span - 1
  BY <1>1, SMTT(60)
<1> QED BY <1>1, <1>2, SpineConstants, SMTT(60) DEF after

\* step_one serves one slot or one lane.
LEMMA StepOneInv ==
  ASSUME IInv, step_one
  PROVE IInv'
<1>0. /\ cmd \in [Slots -> CommandRecord] /\ TypeOther
      /\ Ident(cmd, next_uid, published) /\ ProgramKnown(cmd) /\ ReadBeforeBound(cmd)
  BY TypeSplit DEF IInv, Ident
<1>1. cursor' \in 0 .. N + Lanes - 1
  BY CursorInRange DEF step_one, IInv, ArenaOK
<1>2. \/ StepIdle
      \/ \E s \in Slots : StepCommand(s)
      \/ \E l \in LaneSet : process_driver_close(l)
  BY DEF step_one
<1>3. /\ cmd' \in [Slots -> CommandRecord] /\ TypeOther'
      /\ Ident(cmd', next_uid', published')
  <2>1. CASE StepIdle
    <3>1. Good
      BY <1>0, <2>1, KeptRefl
         DEF StepIdle, Good, AllKept, TypeOther, ring, ids, counters, gates
    <3> QED BY <3>1, GoodStep
  <2>2. CASE \E s \in Slots : StepCommand(s)
    <3>1. PICK s \in Slots : StepCommand(s)
      BY <2>2
    <3>2. CASE AbortDecide(s)
      BY <1>0, <3>2, AbortDecideIdent
    <3>3. CASE ReadCandidate(s) \/ finalize_command(s)
      BY <1>0, <3>3, ReadCandidateGood, FinalizeGood, GoodStep
    <3>4. CASE \E i \in Ordinals :
                 \/ WaitDep(s, i) \/ SubmitCancelled(s, i) \/ Submit(s, i)
                 \/ CancelAction(s, i) \/ action_query(s, i) \/ RetireStart(s, i)
                 \/ RetireQuery(s, i)
      BY <1>0, <3>4, ActionGood, GoodStep
    <3> QED BY <3>1, <3>2, <3>3, <3>4 DEF StepCommand
  <2>3. CASE \E l \in LaneSet : process_driver_close(l)
    BY <1>0, <2>3, DriverCloseGood, GoodStep
  <2> QED BY <1>2, <2>1, <2>2, <2>3
<1>4. ArenaOK'
  BY <1>1, <1>3 DEF ArenaOK, TypeOther
<1> QED BY <1>3, <1>4 DEF IInv

-----------------------------------------------------------------------------
(* The entry points.                                                       *)

\* The records a slot starts from.
LEMMA NewRecords ==
  /\ FreeCommand \in CommandRecord /\ ~occupied(FreeCommand)
  /\ \A p \in Programs, u \in Nat : NewCommand(p, u) \in CommandRecord
<1>1. [i \in Ordinals |-> NewAction] \in [Ordinals -> ActionRecord]
  BY DEF NewAction, ActionRecord, ActionPhases
<1>2. NewAbort \in AbortRecord
  BY DEF NewAbort, AbortRecord
<1>3. ASSUME NEW p \in Programs \cup {NoProgram}, NEW u \in Nat
      PROVE  NewCommand(p, u) \in CommandRecord
  <2> DEFINE a == [i \in Ordinals |-> NewAction]
             b == NewAbort
  <2>1. a \in [Ordinals -> ActionRecord] /\ b \in AbortRecord
    BY <1>1, <1>2
  <2>2. NewCommand(p, u) =
          [prog |-> p, uid |-> u, phase |-> "ACTIVE", cancel |-> FALSE,
           first_failure |-> FALSE, suppress |-> FALSE, incoming |-> 0,
           resolved |-> FALSE, lease |-> 0, decision |-> "NONE", retired |-> FALSE,
           act |-> a, abort |-> b]
    BY DEF NewCommand
  <2> HIDE DEF a, b
  <2> QED BY <1>3, <2>1, <2>2, SMTT(60) DEF CommandRecord, CommandPhases
<1>4. NewCommand(NoProgram, 0) \in CommandRecord
  BY <1>3
<1> DEFINE c == NewCommand(NoProgram, 0)
<1> HIDE DEF c
<1>5. FreeCommand = [c EXCEPT !.phase = "FREE"] /\ c \in CommandRecord
  BY <1>4 DEF FreeCommand, c
<1>6. FreeCommand \in CommandRecord /\ ~occupied(FreeCommand)
  BY <1>5 DEF CommandRecord, CommandPhases, occupied
<1> QED BY <1>3, <1>6

\* admit_start draws a ticket no slot holds and no receipt names.
LEMMA AdmitInv ==
  ASSUME IInv, env \in Environments, NEW p \in Programs, admit_start(p)
  PROVE IInv'
<1> DEFINE n == next_uid
           c == NewCommand(p, n)
<1>1. n \in Nat /\ n > 0 /\ cmd \in [Slots -> CommandRecord] /\ n' = n + 1
  <2>1. ArenaOK
    BY DEF IInv
  <2>2. next_uid \in 1 .. MaxUid + 1 /\ cmd \in [Slots -> CommandRecord]
    BY <2>1 DEF ArenaOK
  <2>3. next_uid' = next_uid + 1
    BY DEF admit_start
  <2> QED BY <2>2, <2>3, SpineConstants, SMTT(60)
<1>2. PICK s \in Slots : ~occupied(cmd[s]) /\ cmd' = [cmd EXCEPT ![s] = c]
  BY ZenonT(60) DEF admit_start, Install
<1>3. /\ c \in CommandRecord /\ occupied(c) /\ c.uid = n /\ c.prog = p
      /\ c.abort.bound = NoSlot
  <2>1. c \in CommandRecord
    BY <1>1, NewRecords
  <2> QED BY <2>1, ZenonT(60) DEF NewCommand, NewAbort, occupied
<1> HIDE DEF c
<1>4. /\ cmd' \in [Slots -> CommandRecord] /\ cmd'[s] = c
      /\ \A t \in Slots \ {s} : cmd'[t] = cmd[t]
  BY <1>1, <1>2, <1>3
<1>5. Ident(cmd, n, published)
  BY DEF IInv
<1>6. ProgramKnown(cmd')
  BY <1>3, <1>4, <1>5 DEF Ident, ProgramKnown
<1>7. \A t \in Slots : occupied(cmd[t]) => cmd[t].uid \in 1 .. n - 1
  BY <1>5 DEF Ident, TicketsDistinct
<1>8. TicketsDistinct(cmd', n + 1)
  <2> SUFFICES ASSUME NEW t \in Slots, occupied(cmd'[t])
               PROVE  /\ cmd'[t].uid \in 1 .. (n + 1) - 1
                      /\ \A x \in Slots : (occupied(cmd'[x]) /\ cmd'[x].uid = cmd'[t].uid) => x = t
    BY DEF TicketsDistinct
  <2>1. CASE t = s
    BY <1>1, <1>3, <1>4, <1>7, <2>1, SMTT(60)
  <2>2. CASE t # s
    <3>1. cmd'[t].uid \in 1 .. n - 1
      BY <1>4, <1>7, <2>2
    <3>2. ASSUME NEW x \in Slots, occupied(cmd'[x]), cmd'[x].uid = cmd'[t].uid
          PROVE  x = t
      <4>1. x # s
        BY <1>1, <1>3, <1>4, <3>1, <3>2, SMTT(60)
      <4> QED BY <1>4, <1>5, <2>2, <3>2, <4>1 DEF Ident, TicketsDistinct
    <3> QED BY <1>1, <3>1, <3>2, SMTT(60)
  <2> QED BY <2>1, <2>2
<1>9. PublishedGone(cmd', n + 1, published)
  <2> SUFFICES ASSUME NEW e \in published
               PROVE  /\ e[1] < n + 1
                      /\ \A t \in Slots : occupied(cmd'[t]) => cmd'[t].uid # e[1]
    BY DEF PublishedGone
  <2>1. e[1] < n /\ e[1] \in Nat /\ \A t \in Slots : occupied(cmd[t]) => cmd[t].uid # e[1]
    BY <1>5 DEF Ident, PublishedGone, IInv, ArenaOK
  <2> QED BY <1>1, <1>3, <1>4, <2>1, SMTT(60)
<1>10. ReadBeforeBound(cmd')
  BY <1>3, <1>4, <1>5 DEF Ident, ReadBeforeBound
<1>11. Bound(cmd')
  <2> SUFFICES ASSUME NEW t \in Slots, occupied(cmd'[t]), cmd'[t].abort.bound # NoSlot
               PROVE  /\ occupied(cmd'[cmd'[t].abort.bound])
                      /\ cmd'[cmd'[t].abort.bound].uid = cmd'[t].abort.target
                      /\ cmd'[cmd'[t].abort.bound].incoming = cmd'[t].uid
    BY DEF Bound
  <2> DEFINE y == cmd[t].abort.bound
  <2>1. t # s /\ cmd'[t] = cmd[t] /\ occupied(cmd[t]) /\ y # NoSlot
    BY <1>3, <1>4
  <2>2. y \in Slots
    BY <1>1, <2>1 DEF CommandRecord, AbortRecord
  <2>3. occupied(cmd[y]) /\ cmd[y].uid = cmd[t].abort.target /\ cmd[y].incoming = cmd[t].uid
    BY <1>5, <2>1 DEF Ident, Bound
  <2> QED BY <1>2, <1>4, <2>1, <2>2, <2>3
<1>12. ArenaOK'
  <2>1. ArenaOK
    BY DEF IInv
  <2>2. next_uid <= MaxUid /\ next_uid' = next_uid + 1 /\ active_commands' = active_commands + 1
    <3>1. next_uid <= env.uids /\ next_uid' = next_uid + 1 /\ active_commands' = active_commands + 1
      BY DEF admit_start
    <3>2. env.uids \in 0 .. MaxUid
      BY SpineConstants
    <3> QED BY <2>1, <3>1, <3>2, SpineConstants, SMTT(60) DEF ArenaOK
  <2>3. UNCHANGED <<lane, receipt, publication_cursor, next_lease, cursor, retained_intents,
                    completion_leases, alive, owned, published>>
    BY DEF admit_start, ring
  <2>4. UNCHANGED <<admission_closed, close_started, poisoned>>
    BY DEF admit_start, Install, gates
  <2>5. next_uid' \in 1 .. MaxUid + 1
    BY <2>1, <2>2, SpineConstants, SMTT(60) DEF ArenaOK
  <2>6. {active_commands', retained_intents', completion_leases'} \subseteq Nat
    BY <2>1, <2>2, <2>3, SMTT(60) DEF ArenaOK
  <2> QED BY <1>4, <2>1, <2>3, <2>4, <2>5, <2>6 DEF ArenaOK
<1>13. UNCHANGED published
  BY DEF admit_start
<1> QED BY <1>1, <1>6, <1>8, <1>9, <1>10, <1>11, <1>12, <1>13 DEF IInv, Ident

\* publication_finish frees a slot no abort has bound.
LEMMA FreeInv ==
  ASSUME IInv, NEW s \in Slots, NEW d, cmd[s].incoming = 0, occupied(cmd[s]),
         cmd' = [cmd EXCEPT ![s] = FreeCommand],
         published' = published \cup {<<cmd[s].uid, d>>}, UNCHANGED next_uid
  PROVE cmd' \in [Slots -> CommandRecord] /\ Ident(cmd', next_uid', published')
<1>1. /\ cmd \in [Slots -> CommandRecord] /\ next_uid \in Nat
      /\ Ident(cmd, next_uid, published)
  BY SpineConstants, SMTT(60) DEF IInv, ArenaOK
<1>2. /\ cmd' \in [Slots -> CommandRecord] /\ ~occupied(cmd'[s])
      /\ \A t \in Slots \ {s} : cmd'[t] = cmd[t]
  BY <1>1, NewRecords
<1>3. /\ ProgramKnown(cmd') /\ TicketsDistinct(cmd', next_uid) /\ ReadBeforeBound(cmd')
  BY <1>1, <1>2 DEF Ident, ProgramKnown, TicketsDistinct, ReadBeforeBound
<1>4. PublishedGone(cmd', next_uid, published')
  <2> SUFFICES ASSUME NEW e \in published'
               PROVE  /\ e[1] < next_uid
                      /\ \A t \in Slots : occupied(cmd'[t]) => cmd'[t].uid # e[1]
    BY DEF PublishedGone
  <2>1. CASE e \in published
    BY <1>1, <1>2, <2>1 DEF Ident, PublishedGone
  <2>2. CASE e = <<cmd[s].uid, d>>
    <3>1. cmd[s].uid \in 1 .. next_uid - 1 /\ e[1] = cmd[s].uid
      BY <1>1, <2>2 DEF Ident, TicketsDistinct
    <3>2. \A t \in Slots \ {s} : occupied(cmd[t]) => cmd[t].uid # cmd[s].uid
      BY <1>1 DEF Ident, TicketsDistinct
    <3> QED BY <1>1, <1>2, <3>1, <3>2, SMTT(60)
  <2> QED BY <2>1, <2>2
<1>5. Bound(cmd')
  <2> SUFFICES ASSUME NEW t \in Slots, occupied(cmd'[t]), cmd'[t].abort.bound # NoSlot
               PROVE  /\ occupied(cmd'[cmd'[t].abort.bound])
                      /\ cmd'[cmd'[t].abort.bound].uid = cmd'[t].abort.target
                      /\ cmd'[cmd'[t].abort.bound].incoming = cmd'[t].uid
    BY DEF Bound
  <2> DEFINE y == cmd[t].abort.bound
  <2>1. t # s /\ cmd'[t] = cmd[t] /\ occupied(cmd[t]) /\ y # NoSlot
    BY <1>2
  <2>2. y \in Slots
    BY <1>1, <2>1 DEF CommandRecord, AbortRecord
  <2>3. occupied(cmd[y]) /\ cmd[y].uid = cmd[t].abort.target /\ cmd[y].incoming = cmd[t].uid
    BY <1>1, <2>1, ZenonT(60) DEF Ident, Bound
  <2>4. cmd[t].uid > 0
    BY <1>1, <2>1, SMTT(60) DEF Ident, TicketsDistinct
  <2>5. y # s
    BY <2>3, <2>4, SMTT(60)
  <2> HIDE DEF y
  <2> QED BY <1>2, <2>1, <2>2, <2>3, <2>5 DEF y
<1> QED BY <1>2, <1>3, <1>4, <1>5 DEF Ident

\* publication_finish preserves the invariant: the ticket is published and
\* leaves its slot.
LEMMA FinishInv ==
  ASSUME IInv, NEW s \in Slots, NEW d \in {"COMMITTED", "DISCARDED"},
         publication_finish(s, d)
  PROVE IInv'
<1>0. /\ cmd \in [Slots -> CommandRecord] /\ TypeOther /\ cmd[s] \in CommandRecord
      /\ cmd[s].phase = "INTENT" /\ cmd[s].incoming = 0
      /\ UNCHANGED <<lane, ids, cursor, active_commands, alive, owned>>
  BY TypeSplit DEF IInv, publication_finish
<1> DEFINE c == [cmd[s] EXCEPT !.decision = d]
<1>1. Kept(cmd[s], c) /\ c \in CommandRecord
  BY <1>0, KeptFields, SMTT(60) DEF CommandRecord
<1>2. \/ /\ UNCHANGED <<ring, retained_intents, completion_leases, published>>
         /\ \/ Poison(cmd)
            \/ Install(s, c)
            \/ Poison([cmd EXCEPT ![s] = c])
      \/ /\ completion_leases # 0 /\ retained_intents # 0
         /\ receipt' = [receipt EXCEPT ![publication_cursor] =
                          [uid |-> cmd[s].uid, lease |-> cmd[s].lease, decision |-> d]]
         /\ publication_cursor' = (publication_cursor + 1) % N
         /\ completion_leases' = completion_leases - 1
         /\ retained_intents' = retained_intents - 1
         /\ published' = published \cup {<<cmd[s].uid, d>>}
         /\ Install(s, FreeCommand)
  BY DEF publication_finish
<1> HIDE DEF c
<1>3. CASE /\ UNCHANGED <<ring, retained_intents, completion_leases, published>>
           /\ \/ Poison(cmd)
              \/ Install(s, c)
              \/ Poison([cmd EXCEPT ![s] = c])
  <2>2. AllKept
    <3>1. CASE Poison(cmd)
      BY <1>0, <3>1, PoisonOrNothing
    <3>2. CASE Install(s, c)
      BY <1>0, <1>1, <3>2, InstallKept, ZenonT(60) DEF Install
    <3>3. CASE Poison([cmd EXCEPT ![s] = c])
      <4> DEFINE cs == [cmd EXCEPT ![s] = c]
      <4>1. cs \in [Slots -> CommandRecord] /\ \A t \in Slots : Kept(cmd[t], cs[t])
        BY <1>0, <1>1, KeptRefl
      <4> HIDE DEF cs
      <4>2. cmd' = poison_lifecycle(cs)
        BY <3>3 DEF Poison, cs
      <4> QED BY <4>1, <4>2, PoisonKept
    <3> QED BY <1>3, <3>1, <3>2, <3>3
  <2>3. TypeOther' /\ UNCHANGED <<next_uid, published>> /\ UNCHANGED cursor
    BY <1>0, <1>3, ZenonT(60) DEF TypeOther, Poison, Install, ring, ids, gates
  <2>4. Good
    BY <2>2, <2>3 DEF Good
  <2>5. /\ cmd' \in [Slots -> CommandRecord] /\ TypeOther'
        /\ Ident(cmd', next_uid', published')
    BY <2>4, GoodStep
  <2> QED BY <2>3, <2>5 DEF IInv, ArenaOK, TypeOther
<1>4. CASE /\ completion_leases # 0 /\ retained_intents # 0
           /\ receipt' = [receipt EXCEPT ![publication_cursor] =
                            [uid |-> cmd[s].uid, lease |-> cmd[s].lease, decision |-> d]]
           /\ publication_cursor' = (publication_cursor + 1) % N
           /\ completion_leases' = completion_leases - 1
           /\ retained_intents' = retained_intents - 1
           /\ published' = published \cup {<<cmd[s].uid, d>>}
           /\ Install(s, FreeCommand)
  <2>1. cmd' \in [Slots -> CommandRecord] /\ Ident(cmd', next_uid', published')
    BY <1>0, <1>4, FreeInv, ZenonT(60) DEF Install, ids, occupied
  <2>2. /\ cmd[s].uid \in Nat /\ cmd[s].lease \in Nat
    BY <1>0 DEF CommandRecord
  <2>3. receipt' \in [Slots -> [uid : Nat, lease : Nat,
                                decision : {"NONE", "COMMITTED", "DISCARDED"}]]
    BY <1>0, <1>4, <2>2 DEF TypeOther
  <2>4. publication_cursor' \in Slots
    <3>1. publication_cursor \in Nat /\ N \in Nat /\ N > 0
      BY <1>0, SpineConstants, SMTT(60) DEF TypeOther, Slots
    <3>2. (publication_cursor + 1) % N \in 0 .. N - 1
      BY <3>1, SMTT(60)
    <3> QED BY <1>4, <3>2 DEF Slots
  <2>5. {active_commands, retained_intents, completion_leases}' \subseteq Nat
    <3>1. /\ active_commands \in Nat /\ retained_intents \in Nat /\ completion_leases \in Nat
      BY <1>0 DEF TypeOther
    <3>2. /\ active_commands' \in Nat /\ retained_intents' \in Nat
          /\ completion_leases' \in Nat
      BY <1>0, <1>4, <3>1, SMTT(60)
    <3> QED BY <3>2
  <2>6. published' \subseteq Nat \X {"COMMITTED", "DISCARDED"}
    <3>1. published \subseteq Nat \X {"COMMITTED", "DISCARDED"}
      BY <1>0 DEF TypeOther
    <3>2. <<cmd[s].uid, d>> \in Nat \X {"COMMITTED", "DISCARDED"}
      BY <2>2
    <3>3. published' = published \cup {<<cmd[s].uid, d>>}
      BY <1>4
    <3> QED BY <3>1, <3>2, <3>3
  <2>7. ArenaOK'
    BY <1>0, <1>4, <2>1, <2>3, <2>4, <2>5, <2>6, ZenonT(60)
       DEF IInv, ArenaOK, Install, ids, gates
  <2> QED BY <2>1, <2>7 DEF IInv
<1> QED BY <1>2, <1>3, <1>4

\* The entry points that only write control flags.
LEMMA OtherEntriesInv ==
  ASSUME IInv,
         \/ \E p \in Programs : AdmitConflict(p)
         \/ epoch_close_start
         \/ \E s \in Slots : publication_acquire(s)
         \/ FinishConflict
         \/ fini
         \/ UNCHANGED vars
  PROVE IInv'
<1>0. cmd \in [Slots -> CommandRecord] /\ TypeOther
  BY TypeSplit DEF IInv
<1>1. ASSUME Good, UNCHANGED cursor PROVE IInv'
  BY <1>1, GoodStep DEF IInv, ArenaOK, TypeOther
<1>2. ASSUME NEW p \in Programs, AdmitConflict(p) PROVE IInv'
  <2>1. AllKept
    BY <1>0, <1>2, PoisonOrNothing DEF AdmitConflict
  <2>2. TypeOther' /\ UNCHANGED <<next_uid, published, cursor>>
    BY <1>0, <1>2, ZenonT(60) DEF AdmitConflict, Poison, TypeOther, ring, ids, counters
  <2> QED BY <1>1, <2>1, <2>2 DEF Good
<1>3. CASE epoch_close_start
  <2>1. AllKept
    BY <1>0, <1>3, CancelAllKept, KeptRefl, ZenonT(60) DEF AllKept, epoch_close_start, Kept
  <2>2. TypeOther' /\ UNCHANGED <<next_uid, published, cursor>>
    BY <1>0, <1>3, ZenonT(60) DEF epoch_close_start, TypeOther, ring, ids, counters
  <2> QED BY <1>1, <2>1, <2>2 DEF Good
<1>4. ASSUME NEW s \in Slots, publication_acquire(s) PROVE IInv'
  <2> DEFINE c == [cmd[s] EXCEPT !.lease = next_lease]
  <2>1. Kept(cmd[s], c)
    <3>1. cmd[s] \in CommandRecord /\ next_lease \in Nat
      BY <1>0, SpineConstants, SMTT(60) DEF TypeOther
    <3>2. c \in CommandRecord
      BY <3>1 DEF CommandRecord
    <3> QED BY <3>1, <3>2, KeptFields DEF CommandRecord
  <2>2. cmd' = [cmd EXCEPT ![s] = c]
    BY <1>4 DEF publication_acquire
  <2> HIDE DEF c
  <2>3. AllKept
    BY <1>0, <2>1, <2>2, InstallKept, ZenonT(60)
  <2>4. TypeOther' /\ UNCHANGED <<next_uid, published, cursor>>
    BY <1>0, <1>4, SpineConstants, SMTT(60) DEF publication_acquire, TypeOther, ring, gates
  <2> QED BY <1>1, <2>3, <2>4 DEF Good
<1>5. CASE FinishConflict
  <2>1. AllKept
    BY <1>0, <1>5, PoisonOrNothing DEF FinishConflict
  <2>2. TypeOther' /\ UNCHANGED <<next_uid, published, cursor>>
    BY <1>0, <1>5 DEF FinishConflict, Poison, TypeOther, ring, ids, counters
  <2> QED BY <1>1, <2>1, <2>2 DEF Good
<1>6. CASE fini
  <2>1. \/ UNCHANGED <<cmd, gates>> \/ Poison(cmd)
        \/ \E s \in Slots : Install(s, [cmd[s] EXCEPT !.retired = TRUE])
    BY <1>6, ZenonT(60) DEF fini
  <2>2. AllKept
    <3>1. ASSUME NEW s \in Slots, Install(s, [cmd[s] EXCEPT !.retired = TRUE])
          PROVE  AllKept
      <4> DEFINE c == [cmd[s] EXCEPT !.retired = TRUE]
      <4>1. cmd[s] \in CommandRecord
        BY <1>0
      <4>2. c \in CommandRecord
        BY <4>1, ZenonT(60) DEF CommandRecord
      <4>3. Kept(cmd[s], c)
        BY <4>1, <4>2, KeptFields DEF CommandRecord
      <4>4. cmd' = [cmd EXCEPT ![s] = c]
        BY <3>1 DEF Install
      <4> HIDE DEF c
      <4> QED BY <1>0, <4>3, <4>4, InstallKept, ZenonT(60)
    <3> QED BY <1>0, <2>1, <3>1, PoisonOrNothing, ZenonT(60)
  <2>3. TypeOther' /\ UNCHANGED <<next_uid, published, cursor>>
    <3>1. {admission_closed, close_started, poisoned, alive}' \subseteq BOOLEAN
      BY <1>0, <1>6, ZenonT(60) DEF fini, Poison, Install, gates, TypeOther
    <3> QED BY <1>0, <1>6, <3>1 DEF fini, TypeOther, ring, ids, counters
  <2> QED BY <1>1, <2>2, <2>3 DEF Good
<1>7. CASE UNCHANGED vars
  BY <1>7, ZenonT(60) DEF vars, IInv, ArenaOK, Ident, ProgramKnown, TicketsDistinct, PublishedGone,
       ReadBeforeBound, Bound, ring, ids, counters, gates
<1> QED BY <1>2, <1>3, <1>4, <1>5, <1>6, <1>7

-----------------------------------------------------------------------------
(* The theorems.                                                           *)

\* The invariant holds after init.
LEMMA InitInv == Init => SpineInv
<1> SUFFICES ASSUME Init PROVE IInv
  BY ZenonT(60) DEF SpineInv, Init
<1>1. cmd \in [Slots -> CommandRecord] /\ \A s \in Slots : ~occupied(cmd[s])
  BY NewRecords DEF Init
<1>2. receipt \in [Slots -> [uid : Nat, lease : Nat,
                             decision : {"NONE", "COMMITTED", "DISCARDED"}]]
  BY DEF Init, NoReceipt
<1>3. ArenaOK
  <2>1. publication_cursor \in Slots /\ cursor \in 0 .. N + Lanes - 1
        /\ next_uid \in 1 .. MaxUid + 1 /\ next_lease \in 1 .. MaxLease + 1
    BY SpineConstants, SMTT(60) DEF Init, Slots
  <2>2. lane \in [LaneSet -> [acked : BOOLEAN, quiescent : BOOLEAN]]
    BY DEF Init
  <2>3. /\ {active_commands, retained_intents, completion_leases} \subseteq Nat
        /\ owned = {} /\ published = {}
    BY SMTT(60) DEF Init
  <2>4. {admission_closed, close_started, poisoned, alive} \subseteq BOOLEAN
    BY Zenon DEF Init
  <2> QED BY <1>1, <1>2, <2>1, <2>2, <2>3, <2>4 DEF ArenaOK
<1>4. published = {}
  BY DEF Init
<1> QED BY <1>1, <1>3, <1>4, ZenonT(60) DEF IInv, Ident, ProgramKnown, TicketsDistinct,
       PublishedGone, ReadBeforeBound, Bound

\* Every step preserves the invariant.
LEMMA NextInv == SpineInv /\ [Next]_vars => SpineInv'
<1> SUFFICES ASSUME IInv, env \in Environments, [Next]_vars PROVE IInv' /\ UNCHANGED env
  BY DEF SpineInv
<1>0. UNCHANGED env
  BY DEF Next, vars
<1>1. CASE step_one
  BY <1>0, <1>1, StepOneInv
<1>2. ASSUME NEW p \in env.programs, admit_start(p) PROVE IInv'
  <2>1. p \in Programs
    BY <1>2, SpineConstants
  <2> QED BY <1>2, <2>1, AdmitInv
<1>3. CASE \E s \in Slots, d \in {"COMMITTED", "DISCARDED"} : publication_finish(s, d)
  BY <1>0, <1>3, FinishInv
<1>4. ASSUME NEW p \in env.programs, AdmitConflict(p) PROVE IInv'
  <2>1. p \in Programs
    BY <1>4, SpineConstants
  <2> QED BY <1>4, <2>1, OtherEntriesInv
<1>5. CASE \/ epoch_close_start
           \/ \E s \in Slots : publication_acquire(s)
           \/ FinishConflict
           \/ fini
           \/ UNCHANGED vars
  BY <1>0, <1>5, OtherEntriesInv
<1> QED BY <1>0, <1>1, <1>2, <1>3, <1>4, <1>5 DEF Next, Finished

\* spine_lifecycle.c keeps every field of its arena in range, whatever the
\* drivers, the sinks and the profile answer: in particular service_cursor
\* stays below the number of slots and lanes and publication_cursor inside the
\* receipt ring.
THEOREM TypeCorrect == Spec => []TypeOK
<1>1. SpineInv => TypeOK
  BY ZenonT(60) DEF SpineInv, IInv, TypeOK
<1> QED BY <1>1, InitInv, NextInv, PTL DEF Spec

\* process_abort keeps only the slot index of its target between two steps.
\* The slot cannot be freed and reused under it: publication_v1_finish refuses
\* a command with incoming_abort_uid set, and no second abort binds it.
THEOREM TargetStays == Spec => []BoundTargetStays
<1>1. SpineInv => BoundTargetStays
  BY ZenonT(60) DEF SpineInv, IInv, Ident, Bound, BoundTargetStays
<1> QED BY <1>1, InitInv, NextInv, PTL DEF Spec

\* A command bound by an abort is never published, in whatever order bind,
\* publication_v1_acquire and publication_v1_finish are called.
THEOREM TargetNeverPublished == Spec => []AbortedNeverPublished
<1>1. SpineInv => AbortedNeverPublished
  <2> SUFFICES ASSUME IInv, NEW s \in Slots, occupied(cmd[s]), cmd[s].abort.bound # NoSlot,
                      NEW d \in {"COMMITTED", "DISCARDED"},
                      <<cmd[s].abort.target, d>> \in published
               PROVE  FALSE
    BY ZenonT(60) DEF SpineInv, AbortedNeverPublished
  <2> DEFINE y == cmd[s].abort.bound
  <2>1. cmd[s] \in CommandRecord /\ cmd[s].abort \in AbortRecord
    BY DEF IInv, ArenaOK, CommandRecord
  <2>2. y \in Slots
    BY <2>1 DEF AbortRecord
  <2>3. occupied(cmd[y]) /\ cmd[y].uid = cmd[s].abort.target
    BY ZenonT(60) DEF IInv, Ident, Bound
  <2>4. cmd[y].uid # cmd[s].abort.target
    BY <2>2, <2>3, ZenonT(60) DEF IInv, Ident, PublishedGone
  <2> QED BY <2>3, <2>4
<1> QED BY <1>1, InitInv, NextInv, PTL DEF Spec

=============================================================================
