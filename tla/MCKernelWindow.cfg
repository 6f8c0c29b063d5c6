SPECIFICATION WSpec
CONSTANTS
    Proc = {p1, p2, p3}
    IntTarget = {p1}
    Body = {b1}
    HardInt = HardInt
    Zeroed = Zeroed
    SR_TARGET_ANY = ANY
    SR_TARGET_INTERRUPT = INTERRUPT
    SR_TARGET_NONE = NONE
INVARIANTS
    ConsistentBetweenCalls
    OnlyInterruptsBreakAsserts
CHECK_DEADLOCK FALSE
