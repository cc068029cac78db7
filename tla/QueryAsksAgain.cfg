SPECIFICATION Spec

CONSTANTS
    q1 = q1
    q2 = q2
    q3 = q3
    Requests = {q1, q2, q3}
    NoRequest = NoRequest
    Chunks = {1, 2}
    Reads <- MCReads
    Key <- MCKey
    Explicit <- MCAskBoth
    Keyword <- MCKeyword
    MaxTries = 2
    MaxFaults = 1

INVARIANTS
    CacheAvoidsCalls

\* All requests end.
CHECK_DEADLOCK FALSE
