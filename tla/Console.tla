------------------------------ MODULE Console -------------------------------
(***************************************************************************)
(* The consoles (sys/console.cpp): each has a part of the video memory,    *)
(* longer than the screen, in which output moves on line by line.  Before  *)
(* the end is reached the last screen is copied to the beginning, and the  *)
(* memory is used again as a ring.  The user may scroll back in it.        *)
(*                                                                         *)
(* Addresses are offsets in the part of the console; the parts lie end to  *)
(* end.  A cell holds the number of the line of output that was written to *)
(* it: characters and colours are left out.                                *)
(***************************************************************************)
EXTENDS Integers, FiniteSets

CONSTANTS
    NUM_CONSOLES,
    CONSOLE_SCREEN_WIDTH, CONSOLE_SCREEN_HEIGHT,
    Lines,             \* the lines in the part of one console
    video_memory_size_per_console,  \* the cells in it: a piece of a line is left
    MaxLine            \* bound on the lines of output, for each console

W    == CONSOLE_SCREEN_WIDTH
CONSOLE_SCREEN_SIZE == W * CONSOLE_SCREEN_HEIGHT
console_size        == W * Lines

Console == 0..NUM_CONSOLES - 1
Blank   == 0

Offset == 0..video_memory_size_per_console - 1

ASSUME ConsoleAssumption ==
    /\ NUM_CONSOLES \in Nat \ {0} /\ W \in Nat \ {0}
    /\ CONSOLE_SCREEN_HEIGHT \in Nat \ {0, 1}
    /\ Lines \in Nat /\ Lines > CONSOLE_SCREEN_HEIGHT
    /\ video_memory_size_per_console \in Nat
    /\ video_memory_size_per_console >= console_size
    /\ MaxLine \in [Console -> Nat \ {0}]

VARIABLES
    consoles_table,      \* cursor, current_start_address, is_full
    current_console_id,
    crtc,                \* what the controller shows: cursor, start address
    cells,               \* the video memory
    line,                \* the number of the line the cursor is in (history)
    shown,               \* the number of the line at the top; behind the newest
                         \* line there are only remains (history)
    text,                \* the columns written to in each line (history)
    plain,               \* since the memory is used as a ring, did output find the
                         \* cursor in view and did it never go back a line, and was
                         \* nothing cleared from the console before? (history)
    hung                 \* console_put_char does not come to its end

history == <<line, shown, text, plain>>
consoleVars == <<consoles_table, current_console_id, crtc, cells, history, hung>>

ConsoleTypeOK ==
    /\ consoles_table \in
          [Console -> [cursor : 0..console_size - 1,
                       current_start_address :
                           {W * k : k \in 0..Lines - CONSOLE_SCREEN_HEIGHT},
                       is_full : BOOLEAN]]
    /\ current_console_id \in Console
    /\ crtc \in [cursor : 0..console_size - 1, start : 0..console_size - 1,
                 console : Console]
    /\ cells \in [Console -> [Offset -> Nat]]
    /\ line \in [Console -> Nat \ {0}] /\ shown \in [Console -> Int]
    /\ DOMAIN text = Console
    /\ \A c \in Console : text[c] \in [1..MaxLine[c] -> SUBSET (0..W - 1)]
    /\ plain \in [Console -> BOOLEAN] /\ hung \in BOOLEAN

ConsoleInit ==
    /\ consoles_table = [c \in Console |-> [cursor |-> 0, current_start_address |-> 0,
                                            is_full |-> FALSE]]
    /\ current_console_id = 0
    /\ crtc = [cursor |-> 0, start |-> 0, console |-> 0]
    /\ cells = [c \in Console |-> [a \in Offset |-> Blank]]
    /\ line = [c \in Console |-> 1] /\ shown = [c \in Console |-> 1]
    /\ text = [c \in Console |-> [n \in 1..MaxLine[c] |-> {}]]
    /\ plain = [c \in Console |-> TRUE] /\ hung = FALSE

-----------------------------------------------------------------------------
\* console_flush: the controller follows the console that is shown.
console_flush(c, console) ==
    crtc' = IF c = current_console_id
            THEN [cursor |-> console.cursor, start |-> console.current_start_address,
                  console |-> c]
            ELSE crtc

console_clear_screen(memory, position, length) ==
    [a \in Offset |-> IF a \in position..position + length - 1 THEN Blank
                      ELSE memory[a]]

-----------------------------------------------------------------------------
(* console_scroll: the start address after it.                             *)

Newest(console) == (console.cursor \div W) * W
Oldest(console) == IF console.is_full THEN (Newest(console) + W) % console_size ELSE 0

\* Variant: the end of the memory is not looked at.
ScrolledUpOn(console) ==
    LET top == console.current_start_address IN
    IF \/ ~console.is_full /\ Newest(console) >= top + CONSOLE_SCREEN_SIZE
       \/ console.is_full /\ top + CONSOLE_SCREEN_SIZE - W # Newest(console)
    THEN top + W ELSE top

\* up = true: towards the newest line.
ScrolledUp(console) ==
    LET top == console.current_start_address IN
    CASE ~console.is_full /\ Newest(console) >= top + CONSOLE_SCREEN_SIZE -> top + W
      [] console.is_full /\ top + CONSOLE_SCREEN_SIZE - W # Newest(console) ->
             IF top + CONSOLE_SCREEN_SIZE = console_size THEN 0 ELSE top + W
      [] OTHER -> top

\* up = false: towards the oldest line, over the beginning to the end only when
\* the newest line is not among those at the end.
ScrolledDown(console) ==
    LET top == console.current_start_address IN
    CASE ~console.is_full /\ top > 0 -> top - W
      [] console.is_full /\ top # Oldest(console) ->
             IF top # 0 THEN top - W
             ELSE IF console.cursor >= console_size - CONSOLE_SCREEN_SIZE THEN top
             ELSE console_size - CONSOLE_SCREEN_SIZE
      [] OTHER -> top

\* The newest line is at the bottom.
AtNewest(console) ==
    console.current_start_address + CONSOLE_SCREEN_SIZE - W = Newest(console)

\* The user scrolls the console on the screen.
console_scroll(up) ==
    LET c       == current_console_id
        console == consoles_table[c]
        start   == IF up THEN ScrolledUp(console) ELSE ScrolledDown(console)
        scrolled == [console EXCEPT !.current_start_address = start]
    IN  /\ consoles_table' = [consoles_table EXCEPT ![c] = scrolled]
        /\ shown' = [shown EXCEPT ![c] =
                        CASE start = console.current_start_address -> @
                          [] start # console.current_start_address /\ AtNewest(scrolled) ->
                                 line[c] - CONSOLE_SCREEN_HEIGHT + 1
                          [] OTHER -> IF @ > line[c] THEN @ ELSE IF up THEN @ + 1 ELSE @ - 1]
        /\ console_flush(c, scrolled)
        /\ UNCHANGED <<current_console_id, cells, line, text, plain>>

-----------------------------------------------------------------------------
(* console_put_char.                                                       *)

Moved(cursor, ch) ==
    CASE ch = "newline"   -> ((cursor \div W) + 1) * W
      [] ch = "backspace" -> IF cursor > 0 THEN cursor - 1 ELSE cursor
      [] OTHER            -> cursor + 1

\* What the switch over ch writes; n is the number of the line.
Written(memory, cursor, ch, n) ==
    CASE ch = "newline"   -> memory
      [] ch = "backspace" -> IF cursor > 0 THEN [memory EXCEPT ![cursor - 1] = Blank]
                                           ELSE memory
      [] OTHER            -> [memory EXCEPT ![cursor] = n]

\* The first cells of the memory become those from `from' on.
Copied(memory, from) ==
    [a \in Offset |-> IF a < CONSOLE_SCREEN_SIZE - W THEN memory[from + a]
                                                    ELSE memory[a]]

\* Variant: the copy begins one line too early.
WrappedEarly(memory) ==
    console_clear_screen(Copied(memory, console_size - CONSOLE_SCREEN_SIZE),
                         CONSOLE_SCREEN_SIZE - W, W)

\* The last lines of the memory, with room for one more on the screen, become
\* the first, and the line that follows them is cleared.
Wrapped(memory) ==
    console_clear_screen(Copied(memory, console_size + W - CONSOLE_SCREEN_SIZE),
                         CONSOLE_SCREEN_SIZE - W, W)

InView(console, start) ==
    start <= console.cursor /\ console.cursor < start + CONSOLE_SCREEN_SIZE

\* The start address after n turns of the loop that follows the cursor.
Turns(console) ==
    LET start[n \in 0..Lines] ==
            IF n = 0 THEN console.current_start_address
            ELSE ScrolledUp([console EXCEPT !.current_start_address = start[n - 1]])
    IN  start

\* The end of console_put_char: the loop, which clears a line from the cursor on
\* in every turn, and the flush.  What is cleared from the middle of the last row
\* reaches the part of the next console.  A loop without an end goes on as it is
\* after Lines turns.
Follows(c, console, memory) ==
    LET start == Turns(console)
        ends  == {n \in 0..Lines : InView(console, start[n])}
        n     == IF ends = {} THEN Lines ELSE CHOOSE m \in ends : \A k \in ends : m <= k
        final == [console EXCEPT !.current_start_address = start[n]]
        Put(d) == IF d = c THEN memory ELSE cells[d]
    IN  /\ hung' = (ends = {})
        /\ consoles_table' = [consoles_table EXCEPT ![c] = final]
        /\ cells' = [d \in Console |->
              IF n = 0 THEN Put(d)
              ELSE console_clear_screen(Put(d),
                      console.cursor + (c - d) * video_memory_size_per_console, W)]
        /\ shown' = [shown EXCEPT ![c] =
              line'[c] - (console.cursor - final.current_start_address) \div W]
        /\ console_flush(c, final)

\* The memory of lines does not reach further back than the video memory.
Reaching(lines, newest) ==
    [n \in DOMAIN lines |-> IF n > newest - Lines THEN lines[n] ELSE {}]

\* The text with ch in it; n is the line of the cursor then and x its column.
Edited(c, ch, n, x) ==
    CASE ch = "newline"   -> text[c]
      [] ch = "backspace" -> [text[c] EXCEPT ![n] = @ \ {x}]
      [] OTHER -> [text[c] EXCEPT ![line[c]] = @ \cup {consoles_table[c].cursor % W}]

console_put_char(c, ch) ==
    LET console == consoles_table[c]
        memory  == Written(cells[c], console.cursor, ch, line[c])
        cursor  == Moved(console.cursor, ch)
    IN  /\ line' = [line EXCEPT ![c] = @ + (cursor \div W) - (console.cursor \div W)]
        /\ IF cursor >= console_size
           THEN Follows(c, [cursor  |-> CONSOLE_SCREEN_SIZE - W + (cursor % W),
                            current_start_address |-> 0,
                            is_full |-> TRUE], Wrapped(memory))
           ELSE Follows(c, [console EXCEPT !.cursor = cursor], memory)
        /\ text' = [text EXCEPT ![c] =
              Reaching(Edited(c, ch, line'[c], cursor % W), line'[c])]
        /\ plain' = [d \in Console |->
              /\ plain[d]
              /\ d = c /\ console.is_full =>
                    InView(console, console.current_start_address) /\ line'[c] >= line[c]
              /\ d # c => cells'[d] = cells[d]]
        /\ UNCHANGED current_console_id

-----------------------------------------------------------------------------
\* What is written comes from a process, which may write any character, or is an
\* echo of what is typed: that adds no others and the same may come of both.
tty_do_write(c) ==
    \E ch \in {"char", "backspace", "newline"} : console_put_char(c, ch)

console_select(c) ==
    /\ current_console_id' = c
    /\ crtc' = [cursor |-> consoles_table[c].cursor,
                start |-> consoles_table[c].current_start_address, console |-> c]
    /\ UNCHANGED <<consoles_table, cells, history>>

\* Room for one more line under the bound.
Goes(c) == line[c] < MaxLine[c]

ConsoleNext ==
    /\ ~hung
    /\ \/ \E c \in Console :
             \/ Goes(c) /\ tty_do_write(c)
             \/ console_select(c) /\ UNCHANGED hung
       \/ \E up \in BOOLEAN : console_scroll(up) /\ UNCHANGED hung

ConsoleSpec == ConsoleInit /\ [][ConsoleNext]_consoleVars

-----------------------------------------------------------------------------
(* Properties.                                                             *)

\* The line that is due in the row of the screen that a is in.
Due(c, a) == shown[c] + (a - consoles_table[c].current_start_address) \div W

\* Wherever the user has scrolled to and however often the memory was used
\* again, the screen shows consecutive lines of the output, each as it was
\* written and nothing left over, across the seam between the beginning and the
\* end of the memory too (console.cpp:49-63, 67-73, 97-139).  And the controller
\* shows the console that is selected, with its cursor and its start address as
\* they are now (console.cpp:78-95).
ScreenShowsOutput ==
    /\ \A c \in Console : plain[c] =>
          LET top == consoles_table[c].current_start_address IN
          \A a \in top..top + CONSOLE_SCREEN_SIZE - 1 :
              Due(c, a) \in 1..line[c] =>
                  cells[c][a] = IF a % W \in text[c][Due(c, a)] THEN Due(c, a) ELSE Blank
    /\ crtc = [console |-> current_console_id,
               cursor  |-> consoles_table[current_console_id].cursor,
               start   |-> consoles_table[current_console_id].current_start_address]

\* Backspaces have brought the cursor above the screen before the memory is used
\* as a ring: console_scroll goes only down from there.
AboveScreen(console) ==
    ~console.is_full /\ console.cursor < console.current_start_address

\* The loop that scrolls until the cursor is in view (console.cpp:67-73) ends,
\* wherever the user has scrolled to and whatever is written, but for a cursor
\* above the screen; once the memory is used as a ring it always ends.  And cursor
\* and screen stay in the memory of the console (the assertion console.cpp:65).
LoopEnds ==
    /\ ConsoleTypeOK
    /\ hung <=> \E c \in Console : AboveScreen(consoles_table[c])
=============================================================================
