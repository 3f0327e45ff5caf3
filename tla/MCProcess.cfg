CONSTANTS
    PROCESS_MAX = 5
    SCHED_QUANTUM_TICKS = 1
    AGING_THRESHOLD = 1
    StackBlocks = 6
    MaxPid = 3
    MaxSleepTicks = 1
SPECIFICATION Spec
INVARIANTS
    TypeOK
    OneRunning
    QueuesMatchStates
    StackOwnership
    NoStackLeak
    NoLostWakeup
    ChildPinned
PROPERTY KeptForParent
