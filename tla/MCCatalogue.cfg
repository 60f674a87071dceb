SPECIFICATION Spec
CONSTANTS
  Season = {S}
  Round = {R}
  Match = {M}
  A = A
  Team = {A, B}
  Player = {p, q}
  User = {u, admin}
  Admin = {admin}
  Session = {s1, s2}
  None = None
  Gone = Gone
  LastHour = 1
  MaxVersion = 2
  Editable = {A, p, M}
CONSTRAINT Few
SYMMETRY Interchangeable
INVARIANTS TypeOK ReferencesHold
PROPERTIES NoLostEdit OnlyItsOwner LiveSeasonIsKept
CHECK_DEADLOCK FALSE
