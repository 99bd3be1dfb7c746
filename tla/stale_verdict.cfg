\* Three HIGH calls: one can hold a verdict on a HEALTHY run while another
\* degrades the run and the third recovers it, so the state looks the same
\* and the revision does not.
SPECIFICATION Spec
CONSTANTS
    None = None
    search = search
    payment = payment
    Tools = {payment}
    Unnamed = blank
    ToolRisks <- MCToolRisks
    Args = {a1}
    Calls = {c1, c2, c3}
    Requests = {}
    Reports = {}
    Reapers = {}
    Usage <- MCUsage
    MaxClock = 1
    MaxFaults = 0
    MaxCounter = 3
    LoopRepeats = 9
    LoopWindow = 10
    ErrorStreakLimit = 9
    CallRatePerMinute = 60
    Minute = 1
    FlapDegradations = 9
    FlapWindow = 9
    BudgetTokens = 9
    BudgetCost = 9
    Deadline = 9
    RecoveryInterval = 1
    HeartbeatTimeout = 2
    JudgeTrajectory = 20
    JudgeEvery = 2
    JudgeWorkers = 0
    JudgeAnswers = {"clear", "concern"}
SYMMETRY MCSymmetry
INVARIANTS
    AuditTimesAdvance
    RecoveryWaits
