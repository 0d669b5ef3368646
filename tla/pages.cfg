SPECIFICATION Spec
CONSTANTS
    viewer = viewer
    other = other
    Chunks = {c1, c2}
    None = None
SYMMETRY SameChunks
INVARIANTS TypeOK PageHolds TabHolds
\* Nothing is left to do once the clicks are spent.
CHECK_DEADLOCK FALSE
