SPECIFICATION Spec
CONSTANTS
    A = A
    B = B
    r1 = r1
    r2 = r2
    s1 = s1
    s2 = s2
    Ride = {r1}
    Match = {1, 3}
    Team = {A, B}
    Session = {s1, s2}
    NoTeam = NoTeam
    NoMatch = NoMatch
    NoRide = NoRide
    NotEnded = NotEnded
    LastRound = 2
    MaxTime = 7
    Editable = {1}
    MaxVersion = 4
    Slots = {2, 4}
    RoundOf <- MCRoundOf
    HomeTeam <- MCHomeTeam
    AwayTeam <- MCAwayTeam
    StartsAt <- MCStartsAt
SYMMETRY Interchangeable
INVARIANT EndsAfterStart
PROPERTY ImplementsRules
CHECK_DEADLOCK FALSE
