CONSTANTS
    ArenaSize = 192
    Sizes = {0, 1, 20, 40}
    Alignments = {4, 8, 32}
SPECIFICATION Spec
INVARIANTS
    TypeOK
    Tiling
    Owned
    Reclaimed
    PayloadsAligned
