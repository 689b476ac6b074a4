-------------------------- MODULE MCLoopSupervisor --------------------------
EXTENDS LoopSupervisor, TLC


CONSTANTS p1, p2

MCProc == {p1, p2}

=============================================================================
