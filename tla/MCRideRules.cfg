SPECIFICATION Spec
CONSTANTS
    A = A
    B = B
    r1 = r1
    r2 = r2
    Ride = {r1, r2}
    Match = {1, 2, 3}
    Team = {A, B}
    NoTeam = NoTeam
    NoMatch = NoMatch
    NotEnded = NotEnded
    LastRound = 3
    RoundOf <- MCRoundOf
    HomeTeam <- MCHomeTeam
    AwayTeam <- MCAwayTeam
    StartsAt <- MCStartsAt
SYMMETRY Interchangeable
CONSTRAINT ShortStreaks
INVARIANTS
    ClosedRoundIsDecided
    UndecidedOnClosedMatch
    StreakCountsContinuations
    RoundsInOrder
PROPERTY TerminalStaysTerminal
CHECK_DEADLOCK FALSE
