SPECIFICATION Spec
CONSTANTS
    None = None
    Keys = {k1}
    Callers = {c1, c2}
    cache_ttl = 2
    MaxLatency = 1
    MaxTime = 4
SYMMETRY CallerSymmetry
INVARIANTS AuthTypeOK AnswersRecent DenialStands
