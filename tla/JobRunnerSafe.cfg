SPECIFICATION Spec
CONSTANTS
    MaxNest = 2
    MaxDeaths = 1
    MaxLost = 1
    MaxForeign = 1
    MaxExecs = 2
    Jobs <- MCJobs
CONSTRAINT KindBounds
ACTION_CONSTRAINT OneKind
INVARIANTS
    TypeOK
    DoneWereActedOn
    SentInOrder
    NoOverrun
    CompleteMeansConfigured
    ClosedAfterReconfigure
    OneOutstanding
    AnswersMatch
    MetricsFollowFont
PROPERTIES
    StoppedIsFinal
    ErrorStays
    IsFontJob
CHECK_DEADLOCK FALSE
