\* Seven guards and a counter of three bits: the largest number of guards the
\* counter can tell apart from none.
CONSTANTS
    Guard = {g1, g2, g3, g4, g5, g6, g7}
    CounterMod = 8
SPECIFICATION Spec
INVARIANTS
    TypeOK
    SuspendedIffGuarded
