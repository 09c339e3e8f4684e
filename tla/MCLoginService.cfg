SPECIFICATION FairGreeterSpec
CONSTANTS
    Conns = {c1, c2}
    Users = {u1}
    MaxConnections = 2
    MaxAttempts = 1
    MaxPrompts = 2
    MaxRequests = 2
CHECK_DEADLOCK FALSE
INVARIANTS
    RateLimitOvershoot
    SeatHeldByALogin
    PreCommitWhileInLogin
    AnswerIsForItsPrompt
PROPERTIES
    OnlyVerdictsAreCharged
    DeadlineIsFinal
    LoginEnds
