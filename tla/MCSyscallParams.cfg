SPECIFICATION PSpec
CONSTANTS
    fs = fs
    hd = hd
    Proc = {fs, hd}
    Program <- Programs
    IntTarget = {}
    Body = {b1}
    HardInt = HardInt
    Zeroed = Zeroed
    SR_TARGET_ANY = ANY
    SR_TARGET_INTERRUPT = INTERRUPT
    SR_TARGET_NONE = NONE
PROPERTIES
    NeverCallsItself
CHECK_DEADLOCK FALSE
