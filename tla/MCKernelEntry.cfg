SPECIFICATION KFairSpec
CONSTANTS
    NumProc = 3
    Priority <- Priorities
    MaxPriority = 2
    Spinner = {2}
    IntTarget = {1}
    TASK_TTY = 0
    CLOCK_IRQ = CLOCK_IRQ
    KEYBOARD_IRQ = KEYBOARD_IRQ
    AT_WINI_IRQ = AT_WINI_IRQ
    SYS_CALL = SYS_CALL
    None = None
    InKernel = InKernel
INVARIANTS
    RunsOnlyReady
    ContextKept
    NestingIsRight
PROPERTIES
    ReadyRuns
    KeyIsNoticed
