-------------------------- MODULE MCSpineLifecycle --------------------------
(* Small instances of SpineLifecycle: one two-action command, one single-   *)
(* action command that shares its handle with a third program, one abort.   *)
EXTENDS SpineLifecycle

MCRole == [p \in Programs |-> IF p = "abort" THEN "ABORT" ELSE "NORMAL"]
MCCount == [p \in Programs |-> IF p = "write" THEN 2 ELSE 1]
MCDeps == [p \in Programs |-> [i \in Ordinals |-> IF i = 2 THEN {1} ELSE {}]]
MCKind == [p \in Programs |-> [i \in Ordinals |->
             IF p = "abort" THEN 0 ELSE Lanes - 1]]
MCHandle == [p \in Programs |-> IF p = "twin" THEN "read" ELSE p]

Env(programs, uids, slow, lost, faults) ==
  [programs |-> programs, uids |-> uids, slow |-> slow, lost |-> lost, faults |-> faults]
\* An abort racing a command over slow drivers; every call failing; drivers
\* that answer, where the commands must finish.
MCEnvironments ==
  {Env({"read", "abort"}, 3, TRUE, FALSE, FALSE),
   Env({"write", "twin", "read"}, 2, FALSE, TRUE, TRUE),
   Env({"write", "read"}, 2, FALSE, TRUE, FALSE)}
\* A command and its abort, over drivers that always answer at once.
MCCloseAbort == {Env({"read", "abort"}, 2, FALSE, FALSE, FALSE)}
=============================================================================
