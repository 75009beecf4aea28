SPECIFICATION Spec
CONSTANTS
    p1 = p1
    p2 = p2
    Processes = {p1, p2}
    Nobody = Nobody
    Nothing = Nothing
    Torn = Torn
    Values = {5}
    Ttls = {0}
    Lifetime = 1
    MaxCalls = 3
    MaxTime = 1
    MaxFiles = 4
INVARIANTS TypeOK AnswersAreCurrent AloneMeansDone
PROPERTY CallsReturn
CHECK_DEADLOCK FALSE
