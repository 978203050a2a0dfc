SPECIFICATION Spec
CONSTANTS
    Rows = {r1}
    Queries = {q1, q2}
    Selects <- MCSelects
    Keys <- MCKeys
    Retention = 1
    MaxTime = 2
    MaxCalls = 2
    MaxFaults = 1

INVARIANTS
    TypeOK
    RowsAsCalled
    AnswersAsOfCall
    ReferencesBalance
    WaitingIsUnderWay
    ExpiredAtSyncIsGone
    MarkIsKept
PROPERTIES
    QueryIsAnswered
