SPECIFICATION Spec
CONSTANTS
    i1 = i1
    i2 = i2
    i3 = i3
    s1 = s1
    s2 = s2
    RoundRow = {i1, i2}
    Session = {s1, s2}
    NoRow = NoRow
    LastRound = 2
INVARIANT LiveRoundHasSeasonInProgress
CHECK_DEADLOCK FALSE
