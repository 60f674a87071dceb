SPECIFICATION Spec
CONSTANTS
    A = A
    B = B
    r1 = r1
    r2 = r2
    r3 = r3
    s1 = s1
    s2 = s2
    s3 = s3
    Ride = {r1, r2, r3}
    Match = {1}
    Team = {A, B}
    Session = {s1, s2, s3}
    NoTeam = NoTeam
    NoMatch = NoMatch
    NoRide = NoRide
    NotEnded = NotEnded
    LastRound = 1
    MaxTime = 4
    Editable = {}
    MaxVersion = 1
    Slots = {}
    RoundOf <- MCRoundOf
    HomeTeam <- MCHomeTeam
    AwayTeam <- MCAwayTeam
    StartsAt <- MCStartsAt
SYMMETRY Interchangeable
INVARIANT NoStandstill
CHECK_DEADLOCK FALSE
