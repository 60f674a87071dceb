SPECIFICATION HistorySpec
CONSTANTS
  Season = {S}
  Round = {R}
  Match = {M}
  Team = {A, B}
  Player = {}
  User = {u}
  Admin = {u}
  Session = {s1}
  None = None
  Gone = Gone
  LastHour = 1
  MaxVersion = 3
  Editable = {M}
PROPERTY PlayedIsKept
CHECK_DEADLOCK FALSE
