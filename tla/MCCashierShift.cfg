SPECIFICATION ShiftSpec
CONSTANTS
    Staff = {ann, mia}
    Supervisors = {mia}
    Calls = {x1, x2, x3, x4}
    Keys = {k1, k2}
    MaxTime = 2
    None = None
CHECK_DEADLOCK FALSE
SYMMETRY Symmetry
INVARIANTS OneOpenShift OneShiftPerKey SnapshotInWindow SettledMoneyIsCounted
PROPERTIES ClosedShiftIsFrozen
