\* Any of five requests make every call fail that they are in; other calls fail
\* at random, and answers are partial or malformed.
SPECIFICATION Spec
CONSTANTS
    N = 5
    Retries = 2
    FirstIds <- MCFirstIds
    NoId = NoId
    NoAnswer = NoAnswer
INVARIANTS
    TypeOK
    NeverMismatched
    Complete
    OnlyPoisonIsLost
PROPERTIES
    Terminates
CHECK_DEADLOCK FALSE
