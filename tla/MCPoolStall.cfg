SPECIFICATION Spec
CONSTANTS
    k1 = k1
    k2 = k2
    q1 = q1
    q2 = q2
    s1 = s1
    s2 = s2
    s3 = s3
    Key = {k1}
    Request = {q1, q2}
    Session = {s1, s2, s3}
    NoKey = NoKey
    NoRequest = NoRequest
    MaxConns = 3
    Reads <- MCReads
INVARIANT SomebodyProceeds
CHECK_DEADLOCK FALSE
