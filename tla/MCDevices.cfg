SPECIFICATION DevicesSpec
CONSTANTS
    KEYBOARD_IN_BUFFERSIZE = 2
    keymap <- MCKeymap
    Letter <- MCLetter
    numpad <- MCNumpad
    Keys <- MCKeys
    MaxStrokes = 2
    MaxDown = 2
    NUM_CONSOLES = 2
    CONSOLE_SCREEN_WIDTH = 2
    CONSOLE_SCREEN_HEIGHT = 2
    Lines = 4
    video_memory_size_per_console = 8
    MaxLine <- LinesOfEach
INVARIANTS
    KeysAsTyped
    ScreenShowsOutput
    LoopEnds
PROPERTIES
    ReadingEnds
CHECK_DEADLOCK FALSE
