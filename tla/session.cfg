SPECIFICATION Spec
CONSTANTS
    Tabs = {t1, t2}
    Slots = {s1, s2}
    Users = {alice, bob}
    MaxTokens = 3
    MaxClicks = 3
    MaxFaults = 1
    MaxLost = 1
    None = None
SYMMETRY MCSymmetry
INVARIANTS TypeOK CallsHold
 
CHECK_DEADLOCK FALSE
