------------------------------- MODULE MCCore -------------------------------
(* The portable cores on small instances, one behaviour for each setting:  *)
(* the command graph (C4.3), the persistence model (C3.2), the lifecycle   *)
(* core (C3.1) and the crash-consistent mapping (C3.4).  They share the    *)
(* names of their variables and nothing else; a behaviour is one of the    *)
(* four for ever.                                                          *)
VARIABLES set, dev, env
vars == <<set, dev, env>>

GraphCase == INSTANCE MCCommandGraph WITH Settings <- {}
LifeCase == INSTANCE MCPortableLifecycle WITH Settings <- {}
CrashCase == INSTANCE MCCrashMapping WITH Settings <- {}
Graph == INSTANCE CommandGraph WITH Settings <- GraphCase!GraphSettings
Persist == INSTANCE Persistence
Life == INSTANCE PortableLifecycle WITH Settings <- LifeCase!LifeSettings
Crash == INSTANCE CrashMapping WITH Settings <- CrashCase!CrashSettings

\* The settings of the persistence model are its scenario's, which have a family.
Kind == IF "family" \in DOMAIN set THEN "persist" ELSE set.kind

Init == Graph!Init \/ Persist!Init \/ Life!Init \/ Crash!Init
Next == \/ Kind = "graph" /\ Graph!Next
        \/ Kind = "persist" /\ Persist!Next
        \/ Kind = "life" /\ Life!Next
        \/ Kind = "c34" /\ Crash!Next

\* The owner's loop calls the core's step for ever; the Host takes and returns
\* what it is given, and a core that drains asks its provider for quiescence.
OwnerStep == \/ Kind = "graph" /\ Graph!Step
             \/ Kind = "life" /\ Life!Step
             \/ Kind = "c34" /\ Crash!Poll
Answer == \/ Kind = "life" /\ Life!HostDuty
          \/ Kind = "c34" /\ Crash!Quiescent
Spec == Init /\ [][Next]_vars /\ WF_vars(OwnerStep) /\ WF_vars(Answer)

\* C4.3: graph_validate accepts every graph the operations leave, a prepared
\* command stays admissible, every queue and abort effect happens once and the
\* graph's view of the queues, its answers and its owner agree with what was done.
GraphSound == Kind = "graph" => Graph!GraphSound /\ Graph!EffectsTrue

\* C3.2: after a cut at any event recovery finds a version the facts allow, and
\* every cut and every generated action leaves a state the scenario checks accept.
RecoveryTruthful == Kind = "persist" => Persist!RecoveryTruthful /\ Persist!ScenarioSound

\* C3.1: slots and provider entries own each other one to one, drains leave
\* nothing behind, and every completion, consumed or not, tells the outcome.
LifecycleSound == Kind = "life" => Life!LifecycleSound /\ Life!CompletionsTrue

\* C3.4: power lost in any state leaves media from which recovery finds, for
\* each atom, a content the Host may still expect.
CutsRecover == Kind = "c34" => Crash!CutsRecover

\* C3.4: the mapping, page and block tables of the running core agree with the
\* media and with the cache overlay.
TablesAgree == Kind = "c34" => Crash!TablesAgree

\* What a core has said stands: a publication has its witness (C3.2), a
\* completion is not changed before it is taken (C3.1), and a result is true of
\* what the mapping holds when it is given (C3.4).
SaidStands ==
  [][/\ Kind = "persist" => Persist!PublishedAsWitnessed
     /\ Kind = "life" => Life!IntentsStand
     /\ Kind = "c34" => Crash!ResultsTrue]_vars

Waiting == \/ Kind = "graph" /\ \E i \in Graph!Slots : Graph!Pending(i)
           \/ Kind = "life" /\ Life!Waiting
           \/ Kind = "c34" /\ Crash!Busy
\* Every admitted command, drain, abort and maintenance operation ends: the
\* cores' bounded steps always reach a completion, whatever the providers do
\* within their contract.
Progress == Waiting ~> ~Waiting
=============================================================================
