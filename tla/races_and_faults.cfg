\* Two gate calls, LOW or HIGH, with their background judgings, one complete,
\* release or terminate, and an outage or a crash.  The loop rule fires on
\* the second identical proposal, so a call can be contained by its own rule,
\* by the other call's, or ended by the request.
SPECIFICATION Spec
CONSTANTS
    None = None
    search = search
    payment = payment
    Tools = {search, payment}
    Unnamed = blank
    ToolRisks <- MCToolRisks
    Args = {a1}
    Calls = {c1, c2}
    Requests = {q1}
    Reports = {}
    Reapers = {}
    Usage <- MCUsage
    MaxClock = 0
    MaxFaults = 1
    MaxCounter = 3
    LoopRepeats = 2
    LoopWindow = 10
    ErrorStreakLimit = 9
    CallRatePerMinute = 60
    Minute = 1
    FlapDegradations = 9
    FlapWindow = 9
    BudgetTokens = 9
    BudgetCost = 9
    Deadline = 9
    RecoveryInterval = 0
    HeartbeatTimeout = 0
    JudgeTrajectory = 20
    JudgeEvery = 1
    JudgeWorkers = 1
    JudgeAnswers = {"clear", "concern"}
SYMMETRY MCSymmetry
INVARIANTS
    TypeOK
    AuditExplainsState
    AnswersFitTheRun
PROPERTIES
    RefinesLadder
