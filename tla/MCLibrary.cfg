CONSTANTS
    BITS = 16
    Bit <- MCBit
    Operand <- MCOperand
    Char = {1, 2, 3}
    CharMap <- MCCharMap
    MaxLen = 3
    SIZE = 16
    CharMod = 8
    ShortMod = 64
    LongMod = 256
    LongLongMod = 1024
    NTOA_BUFFER_SIZE = 8
    PointerDigits = 2
    Format <- MCFormat
    Count = {0, 1, 4, 12}
    Room = 13
    Text <- MCText
    Radix = {0, 8, 10, 16}
    WORD = 64
    PerSecond = 6
    CLOCK_HZ = 3
    Asked <- MCAsked
    Start = {0, 1, 29, 31, 32, 58, 62, 63}
    Slice = 3
    MaxElapsed = 40
    BytsPerSec = 8
    SecPerTrk = 6
    FATSz = 2
    RootDirSectors = 2
    EntriesPerSector = 2
    Segment = 16
    VALID_SPACE = 32
    Chain <- MCChain
    AddressSpace = 32
    Span = 4
    PAGE_DIR = 1
    KERNEL_PAGE = 6
    MemMap <- MCMemMap
    f1 = f1
    f2 = f2
    d1 = d1
    d2 = d2
    d3 = d3
    HD_SECTOR_SIZE = 2
    FS_BUFFER_SECTORS = 2
    DiskSectors = 8
    File = {f1, f2}
    start_sector <- MCStart
    num_sectors <- MCSectors
    Fd = {d1, d2, d3}
    inode <- MCInode
    Counts = {0, 1, 2, 3, 5, 6, 7}
    Offsets <- MCOffsets
    MaxRequests = 3
SPECIFICATION LibrarySpec
INVARIANTS
    DividesRight
    CallsAsMeant
    KernelStarts
    ReachedIsSaved
PROPERTIES
    MovesWhatWasAsked
    ChangesOnlyItsRange
CHECK_DEADLOCK FALSE
