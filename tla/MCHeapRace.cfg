CONSTANTS
    ArenaSize = 240
    Sizes = {32}
    Alignments = {8}
SPECIFICATION RaceSpec
INVARIANT ContiguousRun
