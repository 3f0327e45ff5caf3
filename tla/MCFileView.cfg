SPECIFICATION ViewSpec
CONSTANTS
    VFS_MAX_NODES = 7
    VFS_MAX_CHILDREN = 4
    VFS_MAX_FILE_SIZE = 3
    Byte = {"0", "m", "x", "y", "nl"}
    Zero = "0"
    NewLine = "nl"
    MaxInode = 8
    Names <- MCNames
    Motd <- MCMotd
    Words <- MCWords
    Args <- MCArgs
INVARIANTS
    TypeOK
    EntriesInUse
    UniqueNames
PROPERTIES
    LeaksOnlyBelowRemovedOrWhenFull
    PoolIsFileTree
VIEW Seen
