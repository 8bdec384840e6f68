SPECIFICATION Spec
INVARIANTS HifSound HostSeesTruth QueuesAgree HealthyNeverFaults
PROPERTIES TouchesOnlyLent Progress
CHECK_DEADLOCK FALSE
