SPECIFICATION HFairSpec
CONSTANTS
    TASK_SYS = sys
    TASK_HARDDISK = hd
    TASK_FS = fs
    Proc = {sys, hd, fs}
    IntTarget = {hd}
    GetTicksBody = GetTicksBody
    GetTicksRequest = GetTicksBody
    MaxTick = 3
    Body <- DiskBodies
    HD_NUM_PART_PER_DRIVE = 2
    HD_NUM_SUB_PER_PART = 2
    HD_MINOR_1A = 6
    HD_TIMEOUT = 2
    NSECTOR = 2
    DiskSize = 7
    Table <- Tables
    Requests <- SomeRequests
    MaxOpen = 2
    HardInt = HardInt
    Zeroed = Zeroed
    SR_TARGET_ANY = ANY
    SR_TARGET_INTERRUPT = INTERRUPT
    SR_TARGET_NONE = NONE
INVARIANTS
    FreshTicks
    KeepsProtocol
    GivesUpLate
    RequestsDone
PROPERTIES
    WritesStayInRequest
    RequestsAnswered
CHECK_DEADLOCK FALSE
