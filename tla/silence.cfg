\* Two overlapping reapers, two reports that commit in any order, and an outage
\* or a crash, with room on the clock for two timeouts.
SPECIFICATION Spec
CONSTANTS
    None = None
    search = search
    payment = payment
    Tools = {search}
    Unnamed = blank
    ToolRisks <- MCToolRisks
    Args = {a1}
    Calls = {}
    Requests = {}
    Reports = {p1, p2}
    Reapers = {r1, r2}
    Usage <- MCUsage
    MaxClock = 3
    MaxFaults = 1
    MaxCounter = 3
    LoopRepeats = 9
    LoopWindow = 10
    ErrorStreakLimit = 9
    CallRatePerMinute = 60
    Minute = 1
    FlapDegradations = 9
    FlapWindow = 9
    BudgetTokens = 9
    BudgetCost = 9
    Deadline = 9
    RecoveryInterval = 1
    HeartbeatTimeout = 1
    JudgeTrajectory = 20
    JudgeEvery = 2
    JudgeWorkers = 0
    JudgeAnswers = {"clear", "concern", "severe", "unavailable"}
SYMMETRY MCReportSymmetry
INVARIANTS
    SilenceWaits
    CountersMatchLog
PROPERTIES
    ReaperActsOnSilence
    HeartbeatNeverRewinds
    RefinesLadder
