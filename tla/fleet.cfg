\* Two runs, one scheduled sweeper, one operator's read, one move by another
\* handler and one outage.
SPECIFICATION FairFleetSpec
CONSTANTS
    None = None
    Tools = {}
    ToolRisks <- MCToolRisks
    Runs = {u1, u2}
    Sweepers = {s1}
    Views = {v1}
    HeartbeatTimeout = 1
    RecoveryInterval = 1
    MaxClock = 2
    MaxMoves = 1
    MaxOutages = 1
INVARIANTS
    FleetTypeOK
    SweptRunsSettled
    DetailExplains
PROPERTIES
    EachRunClimbsTheLadder
    DueRunEscalated
