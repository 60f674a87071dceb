SPECIFICATION FairSpec
CONSTANTS
    A = A
    B = B
    r1 = r1
    r2 = r2
    s1 = s1
    s2 = s2
    Ride = {r1, r2}
    Match = {1}
    Team = {A, B}
    Session = {s1, s2}
    NoTeam = NoTeam
    NoMatch = NoMatch
    NoRide = NoRide
    NotEnded = NotEnded
    LastRound = 1
    MaxTime = 4
    Editable = {}
    MaxVersion = 4
    Slots = {}
    RoundOf <- MCRoundOf
    HomeTeam <- MCHomeTeam
    AwayTeam <- MCAwayTeam
    StartsAt <- MCStartsAt
PROPERTY RequestsDrain
CHECK_DEADLOCK FALSE
