SPECIFICATION FairSpec
CONSTANTS
    Calls = {c1, c2}
    NoCall = none
    Tokens = {1, 2}
    Lifetime = 3
    Margin = 2
    Timeout = 1
    MaxTime = 3
INVARIANTS
    TypeOK
    BearersOutliveTheirCalls
    OneRevocationIsSurvived
PROPERTIES
    TokenIsKept
    SubmissionSpec
    EveryCallEnds
\* The calls of the instance end.
CHECK_DEADLOCK FALSE
