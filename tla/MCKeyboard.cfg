SPECIFICATION Spec
CONSTANTS
    SHELL_MAX_ARGS = 2
    command_table <- MCCommands
    Char = {"a", " "}
    Delim = {" "}
    Nul = "0"
    INPUT_BUFFER_SIZE = 8
    max_len = 8
    MaxLate = 3
INVARIANTS
    TypeOK
    LineKept
    CommandGetsWords
PROPERTY
    EnterEndsWait
