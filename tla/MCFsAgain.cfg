SPECIFICATION Spec
CONSTANTS
    p1 = p1
    p2 = p2
    a = a
    b = b
    c = c
    Proc = {p1}
    File = {a, b, c}
    LongName = {c}
    tty = tty
    Device <- Devices
    RootPath = RootPath
    Dot = Dot
    NoName = NoName
    MixedName = MixedName
    FS_NUM_FILES = 3
    NUM_PROCS = 2
    FS_NUM_FD = 2
    FS_NUM_INODE = 2
    FS_DIRENTRY_PER_SECTOR = 3
    FS_INODE_PER_SECTOR = 4
    BYTE = 4
    HD_SECTOR_SIZE = 3
    FS_DEFAULT_FILE_SECTORS = 8
    num_smap_sectors = 3
    MaxRef = 2
    RestartIn = {"none", "behind", "reached"}
INVARIANTS
    HoldsAgain
SYMMETRY NameSymmetry
CHECK_DEADLOCK FALSE
