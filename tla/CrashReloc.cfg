SPECIFICATION Spec
CONSTANT Settings <- CareLess
INVARIANT SafeVictimErase
CHECK_DEADLOCK FALSE
