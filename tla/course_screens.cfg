SPECIFICATION Spec
CONSTANTS
    Teachers = {t1, t2}
    None = None
SYMMETRY SameTeachers
INVARIANTS TypeOK OutlineHolds SettingsHold ChunksHold
\* Nothing is left to do once the clicks are spent.
CHECK_DEADLOCK FALSE
