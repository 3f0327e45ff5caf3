SPECIFICATION Spec
CONSTANTS
    PMM_PAGE_SIZE = 2
    PMM_BITMAP_PAGES = 32
    PMM_LOW_MEMORY = 4
    kernel_start = 4
    kernel_end = 7
    KB = 2
    WORD = 32
    PAGE_DIR_ENTRIES = 4
    PAGE_TABLE_ENTRIES = 4
    MapFloor = 8
    MapCap = 16
    HEAP_PAGES = 2
    MaxHeld = 1
    BootInfos <- MCBootInfos
    Regions <- MCRegions
INVARIANTS
    TypeOK
    OneOwner
    OnlyFreeRamInUse
    StatsExact
    HeapIsFlat
PROPERTIES
    OnlyDirectoriesLosePages
    RegionsMapped
    TablesAreAddressSpaces
