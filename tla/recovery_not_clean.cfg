\* Three HIGH calls: a first objection degrades the run, a second one arrives
\* too late to escalate it, and the third call finds the interval elapsed.
SPECIFICATION Spec
CONSTANTS
    None = None
    search = search
    payment = payment
    Tools = {payment}
    Unnamed = blank
    ToolRisks <- MCToolRisks
    Args = {a1}
    Calls = {c1, c2, c3}
    Requests = {}
    Reports = {}
    Reapers = {}
    Usage <- MCUsage
    MaxClock = 1
    MaxFaults = 0
    MaxCounter = 3
    LoopRepeats = 9
    LoopWindow = 10
    ErrorStreakLimit = 9
    CallRatePerMinute = 60
    Minute = 1
    FlapDegradations = 9
    FlapWindow = 9
    BudgetTokens = 9
    BudgetCost = 9
    Deadline = 9
    RecoveryInterval = 1
    HeartbeatTimeout = 2
    JudgeTrajectory = 20
    JudgeEvery = 2
    JudgeWorkers = 0
    JudgeAnswers = {"concern"}
SYMMETRY MCSymmetry
INVARIANTS
    RecoveryMeansClean
