SPECIFICATION Spec
INVARIANTS GraphSound RecoveryTruthful LifecycleSound CutsRecover TablesAgree
PROPERTIES SaidStands Progress
CHECK_DEADLOCK FALSE
