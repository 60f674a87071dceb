SPECIFICATION Spec
CONSTANTS
  User = {u1}
  Mailed = {t1, t2}
  Answered = {a1}
  Session = {s1, s2}
  Null = Null
  ActivationTTL = 1
  AuthenticationTTL = 1
  MaxVersion = 3
INVARIANTS TypeOK ProofOfMailbox
PROPERTIES TokenIsSpent CleanupIsTheFlip NobodyLockedOut
CHECK_DEADLOCK FALSE
