CONSTANTS
    PROCESS_MAX = 5
    SCHED_QUANTUM_TICKS = 2
    AGING_THRESHOLD = 200
    StackBlocks = 6
    MaxPid = 3
    MaxSleepTicks = 1
SPECIFICATION Spec
INVARIANT UniquePids
