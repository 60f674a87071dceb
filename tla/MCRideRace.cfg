SPECIFICATION Spec
CONSTANTS
    A = A
    B = B
    r1 = r1
    r2 = r2
    s1 = s1
    s2 = s2
    Ride = {r1, r2}
    Match = {1, 2}
    Team = {A, B}
    Session = {s1, s2}
    NoTeam = NoTeam
    NoMatch = NoMatch
    NoRide = NoRide
    NotEnded = NotEnded
    LastRound = 2
    MaxTime = 4
    Editable = {}
    MaxVersion = 4
    Slots = {}
    RoundOf <- MCRoundOf
    HomeTeam <- MCHomeTeam
    AwayTeam <- MCAwayTeam
    StartsAt <- MCStartsAt
INVARIANT TypeOK
CHECK_DEADLOCK FALSE
SYMMETRY Interchangeable
INVARIANTS
    NoLostUpdate
    GateNeverRefuses
    ClosedRoundIsDecided
    FreshRidesArePlayable
    NoStandstill
PROPERTIES
    SettledWithItsMatch
    OneDecider
    ImplementsRules
