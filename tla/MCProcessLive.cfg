CONSTANTS
    PROCESS_MAX = 4
    SCHED_QUANTUM_TICKS = 2
    AGING_THRESHOLD = 1
    StackBlocks = 5
    MaxPid = 3
    MaxSleepTicks = 2
SPECIFICATION FairSpec
PROPERTIES
    NoStarvation
    SleepersWake
    HigherRunsAtTick
