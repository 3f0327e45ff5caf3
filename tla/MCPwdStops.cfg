SPECIFICATION Spec
CONSTANTS
    VFS_MAX_NODES = 8
    VFS_MAX_CHILDREN = 4
    VFS_MAX_FILE_SIZE = 3
    Byte = {"0", "m", "x", "y", "nl"}
    Zero = "0"
    NewLine = "nl"
    MaxInode = 9
    Names <- MCNames
    Motd <- MCMotd
    Words <- MCWords
    Args <- MCArgs
INVARIANT PwdWalkStops
