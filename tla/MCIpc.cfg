SPECIFICATION MCSpec
CONSTANTS
    MAX_PIPES = 2
    PIPE_BUF_SIZE = 2
    MAX_MSG_QUEUES = 2
    MSG_QUEUE_SIZE = 2
    MSG_MAX_SIZE = 1
    Byte = {0, 1}
    Type = {0}
    zero = 0
    NULL = NULL
INVARIANT TypeOK
PROPERTIES
    PipesAreChannels
    QueuesAreChannels
VIEW Tables
