SPECIFICATION TFairSpec
CONSTANTS
    u1 = u1
    u2 = u2
    t1 = t1
    t2 = t2
    TASK_TTY = tty
    TASK_FS = fs
    Proc = {tty, fs, u1, u2}
    IntTarget = {tty}
    ttys_table <- TwoTtys
    TtyOf <- OwnTty
    Program <- Programs
    Char = {a}
    Enter = Enter
    Backspace = Backspace
    Other = Other
    KEYBOARD_IN_BUFFERSIZE = 1
    MaxCount = 2
    Body <- TtyBodies
    HardInt = HardInt
    Zeroed = Zeroed
    SR_TARGET_ANY = ANY
    SR_TARGET_INTERRUPT = INTERRUPT
    SR_TARGET_NONE = NONE
INVARIANTS
    ReaderGetsItsLine
    EveryCallIsInHand
PROPERTIES
    OnlyReadersAreWritten
    CallsReturn
CHECK_DEADLOCK FALSE
