SPECIFICATION Spec
CONSTANTS
    REGS = 4
    IMMS = 8
    NUM_INSTRUCTIONS = 5
    Programs <- MCPrograms
INVARIANTS
    TypeOK
    InOrder
    RegistersAsCompleted
    CyclesAccounted
CHECK_DEADLOCK FALSE
