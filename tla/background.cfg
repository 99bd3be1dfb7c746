\* Three LOW calls, every second proposal queued for the one judging worker,
\* which always objects, while the worker reports once.  A proposal that
\* repeats the one before it fires the loop rule.
SPECIFICATION Spec
CONSTANTS
    None = None
    search = search
    payment = payment
    Tools = {search}
    Unnamed = blank
    ToolRisks <- MCToolRisks
    Args = {a1}
    Calls = {c1, c2, c3}
    Requests = {}
    Reports = {p1}
    Reapers = {}
    Usage <- MCLargeUsage
    MaxClock = 0
    MaxFaults = 0
    MaxCounter = 3
    LoopRepeats = 2
    LoopWindow = 1
    ErrorStreakLimit = 9
    CallRatePerMinute = 60
    Minute = 1
    FlapDegradations = 9
    FlapWindow = 9
    BudgetTokens = 1
    BudgetCost = 9
    Deadline = 9
    RecoveryInterval = 0
    HeartbeatTimeout = 2
    JudgeTrajectory = 20
    JudgeEvery = 2
    JudgeWorkers = 1
    JudgeAnswers = {"concern"}
SYMMETRY MCSymmetry
INVARIANTS
    CadenceExact
    LoopFiringsAreReal
PROPERTIES
    AdverseVerdictBinds
