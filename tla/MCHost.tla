------------------------------- MODULE MCHost -------------------------------
(* The two host interfaces on small instances, one behaviour for each       *)
(* setting: the native function with its worker and driver, and the queue   *)
(* HIF (C4.2).  A behaviour is one of the two for ever; the queue HIF has   *)
(* no use for the last two variables.                                       *)
VARIABLES set, dev, env, wrk, call
vars == <<set, dev, env, wrk, call>>

Small == 3
NativeCase == INSTANCE MCNativeHif WITH Settings <- {}, Depth <- Small, k <- dev, host <- env
QueueCase == INSTANCE MCQueueHif WITH Settings <- {}
Native == INSTANCE NativeHif WITH Settings <- NativeCase!MCSettings, Depth <- Small, k <- dev, host <- env
Queue == INSTANCE QueueHif WITH Settings <- QueueCase!MCSettings

\* Only the native function's settings have a profile.
IsNative == "profile" \in DOMAIN set

Init == Native!Init \/ (Queue!Init /\ wrk = <<>> /\ call = <<>>)
Next == \/ IsNative /\ Native!Next
        \/ ~IsNative /\ Queue!Next /\ UNCHANGED <<wrk, call>>

\* The BAR thread and the firmware loop run for ever, the Host handles what it
\* is sent, and the layer above takes notifications and gives its targets back.
Serve == \/ IsNative /\ UNCHANGED set /\ Native!Service
         \/ ~IsNative /\ Queue!Step /\ UNCHANGED <<wrk, call>>
Respond == \/ IsNative /\ UNCHANGED set /\ (Native!HostWaits \/ Native!Interrupt \/ Native!Worker)
           \/ ~IsNative /\ Queue!Host /\ UNCHANGED <<wrk, call>>
Spec == /\ Init /\ [][Next]_vars /\ WF_vars(Serve) /\ WF_vars(Respond)
        /\ WF_vars(~IsNative /\ Queue!Notification /\ UNCHANGED <<wrk, call>>)
        /\ WF_vars(~IsNative /\ Queue!TargetRelease /\ UNCHANGED <<wrk, call>>)

\* Native function: holder counts, pending entries, frames and interrupt state
\* agree with the captured requests, and a reset or owner change touches nothing.
HifSound == IsNative => Native!HifSound

\* Native function: a completion the driver finds is for a command it waits for,
\* once, with its data already in place.
HostSeesTruth == IsNative => Native!HostSeesTruth

\* Native function: the device writes only memory lent to it at that moment and
\* fetches no command twice.
TouchesOnlyLent == [][IsNative => Native!DeviceTouches]_vars

\* Queue HIF: both sides' indices, phases and reservations agree, and a command
\* the Host submitted is in the ring, in a record or in a completion it has yet
\* to take.
QueuesAgree == ~IsNative => Queue!QueuesAgree /\ Queue!NothingLost

\* Queue HIF: without a wrong answer of a provider the controller never faults
\* and neither a reset nor a teardown is poisoned.
HealthyNeverFaults == ~IsNative => Queue!HealthyNeverFaults

Waiting == IF IsNative THEN Native!Waiting ELSE Queue!Waiting
\* A driver that waits, for ready, disable, shutdown, reset, grant or a
\* completion, is served; a deletion, reset and teardown of the queue HIF ends.
Progress == Waiting ~> ~Waiting
=============================================================================
