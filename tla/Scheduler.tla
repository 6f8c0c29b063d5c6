----------------------------- MODULE Scheduler -----------------------------
(***************************************************************************)
(* Who gets the processor: schedual and the process table of sys/proc.c,   *)
(* clock_handler of sys/clock.c, and the entry and exit code of            *)
(* sys/kernel.asm.  A process has a number of ticks left; the clock takes  *)
(* one of the running process, and reschedules only when it finds none     *)
(* left and did not interrupt the kernel.  The programs are arbitrary: a   *)
(* process runs in user mode, enters the kernel, wakes others, and returns *)
(* or blocks.                                                              *)
(***************************************************************************)
EXTENDS Integers

CONSTANTS
    NumProc,      \* NUM_TASKS + NUM_PROCS, the length of proc_table
    Priority,     \* proc->priority: the ticks of a process after a refill
    MaxPriority,
    Spinner,      \* processes that never block (TestA and TestC loop for ever)
    IntTarget,    \* processes that device interrupts wake
    TASK_TTY

Proc == 0 .. (NumProc - 1)

ASSUME SchedulerAssumption ==
    /\ NumProc \in Nat \ {0}
    /\ MaxPriority \in Nat
    /\ Priority \in [Proc -> 1..MaxPriority]
    /\ Spinner \subseteq Proc /\ IntTarget \subseteq Proc \ {TASK_TTY}
    /\ TASK_TTY \in Proc \ Spinner

VARIABLES
    p_proc_ready,     \* the process that runs, or runs when the kernel is left,
                      \* and while schedual scans, the best one it has found
    ticks,            \* proc->ticks
    ready,            \* the processes with process_flags = 0
    mode,             \* who executes: the process, its call, schedual
    scan,             \* where schedual is in proc_table
    greatest_ticks,   \* the ticks its candidate had when it was found
    tty_key_pressed,  \* set by keyboard_handler
    has_int_msg,      \* of TASK_TTY: clock_handler could not wake it
    tty               \* where task_tty is, see below

vars == <<p_proc_ready, ticks, ready, mode, scan, greatest_ticks,
          tty_key_pressed, has_int_msg, tty>>
locals == <<scan, greatest_ticks>>
ttyVars == <<tty_key_pressed, has_int_msg, tty>>

\* "told": it has a HARDINT message and has not looked at it; "loop": it handles
\* another message, or begins to read the keys of its terminals; "read": it has
\* read them, and calls receive next; "receives": it is blocked in there, by
\* receiving from anybody.  In "loop" and "read" it sends, and may be blocked too.
TtyPlace == {"told", "loop", "read", "receives"}
TtySends == TASK_TTY \notin ready /\ tty # "receives"

\* "call" and "blocked" are k_reenter = 0 in a system call, "blocked" being
\* the loop of schedual called by process_block; "clock" is that loop called by
\* clock_handler, with the clock's own interrupt masked (kernel.asm:99-111).
\* "user" is the process and all of the kernel that makes no choice: the way in
\* and out, and the handlers of devices that interrupt the process.
Mode == {"user", "call", "blocked", "clock"}

Init ==
    /\ p_proc_ready = 0
    /\ ticks = Priority
    /\ ready = Proc
    /\ mode = "user"
    /\ scan = 0 /\ greatest_ticks = 0
    /\ tty_key_pressed = FALSE
    /\ has_int_msg = FALSE /\ tty = "loop"

-----------------------------------------------------------------------------
(* schedual                                                                *)

Scanning == mode \in {"blocked", "clock"}

\* Variant: blocked processes are not left out of the scan.
LooksAnybody ==
    /\ Scanning /\ scan \in Proc /\ scan' = scan + 1
    /\ LET better == ticks[scan] > greatest_ticks
       IN  /\ greatest_ticks' = IF better THEN ticks[scan] ELSE greatest_ticks
           /\ p_proc_ready' = IF better THEN scan ELSE p_proc_ready
    /\ UNCHANGED <<ticks, ready, mode, ttyVars>>

\* One turn of the scan.  Interrupts are let in between the turns: the clock may
\* charge the candidate, and a process may be woken that was passed already.
Looks ==
    /\ Scanning /\ scan \in Proc /\ scan' = scan + 1
    /\ LET better == scan \in ready /\ ticks[scan] > greatest_ticks
       IN  /\ greatest_ticks' = IF better THEN ticks[scan] ELSE greatest_ticks
           /\ p_proc_ready' = IF better THEN scan ELSE p_proc_ready
    /\ UNCHANGED <<ticks, ready, mode, ttyVars>>

\* Nobody who is ready has ticks left: those who are ready, and only they, get
\* theirs again.  With nobody ready the loop goes round.
Refills ==
    /\ Scanning /\ scan = NumProc /\ greatest_ticks = 0
    /\ ticks' = [p \in Proc |-> IF p \in ready THEN Priority[p] ELSE ticks[p]]
    /\ scan' = 0
    /\ UNCHANGED <<p_proc_ready, greatest_ticks, ready, mode, ttyVars>>

\* Variant: the winner of the scan gets fresh ticks at once.
FindsAndRefills ==
    /\ Scanning /\ scan = NumProc /\ greatest_ticks > 0
    /\ mode' = "user" /\ scan' = 0 /\ greatest_ticks' = 0
    /\ ticks' = [ticks EXCEPT ![p_proc_ready] = Priority[p_proc_ready]]
    /\ UNCHANGED <<p_proc_ready, ready, ttyVars>>

Finds ==
    /\ Scanning /\ scan = NumProc /\ greatest_ticks > 0
    /\ mode' = "user" /\ scan' = 0 /\ greatest_ticks' = 0
    /\ UNCHANGED <<p_proc_ready, ticks, ready, ttyVars>>

schedual == Looks \/ Refills \/ Finds

-----------------------------------------------------------------------------
(* clock_handler                                                           *)

Charge ==
    /\ ticks[p_proc_ready] > 0
    /\ ticks' = [ticks EXCEPT ![p_proc_ready] = @ - 1]
    /\ UNCHANGED <<p_proc_ready, ready, mode, locals, ttyVars>>

\* process_inform_interrupt(TASK_TTY) if a key was pressed: it is woken only from
\* its receive.
InformTty ==
    /\ \/ ~tty_key_pressed /\ UNCHANGED <<ready, has_int_msg, tty>>
       \/ /\ tty_key_pressed /\ tty = "receives"
          /\ ready' = ready \cup {TASK_TTY}
          /\ has_int_msg' = FALSE /\ tty' = "told"
       \/ /\ tty_key_pressed /\ tty # "receives"
          /\ has_int_msg' = TRUE /\ UNCHANGED <<ready, tty>>
    /\ UNCHANGED <<ticks, p_proc_ready, locals, tty_key_pressed>>

ClockUser ==
    /\ mode = "user"
    /\ \/ Charge
       \/ ticks[p_proc_ready] = 0 /\ InformTty /\ mode' = "clock"

\* The clock interrupts the kernel: k_reenter # 0.  In "user", that is the
\* handler of a device, or the way out of the kernel.
ClockNested ==
    /\ mode # "clock"
    /\ \/ Charge
       \/ ticks[p_proc_ready] = 0 /\ InformTty /\ UNCHANGED mode

-----------------------------------------------------------------------------
(* The running process and its system calls.                               *)

\* int 0x90
Trap ==
    /\ mode = "user" /\ mode' = "call"
    /\ p_proc_ready = TASK_TTY => tty \in {"loop", "read"}
    /\ UNCHANGED <<p_proc_ready, ticks, ready, locals, ttyVars>>

CallReturns ==
    /\ mode = "call" /\ mode' = "user"
    /\ p_proc_ready # TASK_TTY
    /\ UNCHANGED <<p_proc_ready, ticks, ready, locals, ttyVars>>

\* The call completes the rendezvous of a blocked process.  A message for
\* task_tty makes it go on; a sender that task_tty frees with its receive is in
\* TtyTakesMessage.
CallUnblocks(q) ==
    /\ mode = "call" /\ q \notin ready
    /\ ready' = ready \cup {q} /\ mode' = "user"
    /\ tty' = IF q = TASK_TTY /\ tty = "receives" THEN "loop" ELSE tty
    /\ UNCHANGED <<p_proc_ready, ticks, locals, tty_key_pressed, has_int_msg>>

\* task_tty is blocked here only in a send; its receive is in TtyBlocks.
CallBlocks ==
    /\ mode = "call" /\ mode' = "blocked"
    /\ p_proc_ready \notin Spinner
    /\ ready' = ready \ {p_proc_ready}
    /\ UNCHANGED <<p_proc_ready, ticks, locals, ttyVars>>

-----------------------------------------------------------------------------
(* task_tty: its receive in the kernel, and the steps of its own.          *)

TtyReceives == mode = "call" /\ p_proc_ready = TASK_TTY /\ tty = "read"

TtyTakesInterrupt ==
    /\ TtyReceives /\ has_int_msg
    /\ mode' = "user" /\ has_int_msg' = FALSE /\ tty' = "told"
    /\ UNCHANGED <<p_proc_ready, ticks, ready, locals, tty_key_pressed>>

TtyTakesMessage(q) ==
    /\ TtyReceives /\ ~has_int_msg /\ q \notin ready
    /\ mode' = "user" /\ ready' = ready \cup {q} /\ tty' = "loop"
    /\ UNCHANGED <<p_proc_ready, ticks, locals, tty_key_pressed, has_int_msg>>

\* Variant: the keys are said to be handled only when it goes to sleep.
TtyBlocksResets ==
    /\ TtyReceives /\ ~has_int_msg
    /\ mode' = "blocked" /\ ready' = ready \ {TASK_TTY} /\ tty' = "receives"
    /\ tty_key_pressed' = FALSE
    /\ UNCHANGED <<p_proc_ready, ticks, locals, has_int_msg>>

TtyBlocks ==
    /\ TtyReceives /\ ~has_int_msg
    /\ mode' = "blocked" /\ ready' = ready \ {TASK_TTY} /\ tty' = "receives"
    /\ UNCHANGED <<p_proc_ready, ticks, locals, tty_key_pressed, has_int_msg>>

TtyReceive == TtyTakesInterrupt \/ TtyBlocks \/ \E q \in Proc : TtyTakesMessage(q)

\* The HARDINT message: keys that were pressed since clock_handler looked are
\* not announced any more.
TtyHandlesKey ==
    /\ mode = "user" /\ p_proc_ready = TASK_TTY /\ tty = "told"
    /\ tty_key_pressed' = FALSE /\ tty' = "loop"
    /\ UNCHANGED <<p_proc_ready, ticks, ready, mode, locals, has_int_msg>>

\* One round of task_tty, which takes what there is of a key from the ring.
TtyReadsKeys ==
    /\ mode = "user" /\ p_proc_ready = TASK_TTY /\ tty = "loop"
    /\ tty' = "read"
    /\ UNCHANGED <<p_proc_ready, ticks, ready, mode, locals, tty_key_pressed, has_int_msg>>

TtyRuns == TtyHandlesKey \/ TtyReadsKeys

-----------------------------------------------------------------------------
(* Devices.                                                                *)

DeviceInterrupt(q) ==
    /\ q \notin ready
    /\ ready' = ready \cup {q}
    /\ UNCHANGED <<p_proc_ready, ticks, mode, locals, ttyVars>>

keyboard_handler ==
    /\ tty_key_pressed' = TRUE
    /\ UNCHANGED <<p_proc_ready, ticks, ready, mode, locals, has_int_msg, tty>>

Call == CallReturns \/ CallBlocks \/ TtyReceive \/ \E q \in Proc : CallUnblocks(q)

Next ==
    \/ schedual
    \/ ClockUser
    \/ ClockNested
    \/ Trap
    \/ Call
    \/ TtyRuns
    \/ \E q \in IntTarget : DeviceInterrupt(q)
    \/ keyboard_handler

Spec == Init /\ [][Next]_vars

-----------------------------------------------------------------------------
(* Properties.                                                             *)

\* Nobody has more ticks than a refill gives, and none is taken below zero (the
\* field is unsigned).
TypeOK ==
    /\ p_proc_ready \in Proc
    /\ ticks \in [Proc -> Nat]
    /\ \A p \in Proc : ticks[p] <= Priority[p]
    /\ ready \subseteq Proc
    /\ mode \in Mode
    /\ scan \in 0..NumProc /\ greatest_ticks \in Nat
    /\ tty_key_pressed \in BOOLEAN /\ has_int_msg \in BOOLEAN /\ tty \in TtyPlace

Running(p) == mode = "user" /\ p_proc_ready = p

\* The kernel resumes only a process that is not blocked, whatever was woken or
\* blocked while it was in the kernel (proc.c:210, kernel.asm:306-319).
RunsOnlyReady == mode \in {"user", "call"} => p_proc_ready \in ready

\* No process that stays ready is starved, whatever its priority and however the
\* others block and wake (proc.c:202-229).
ReadyRuns == \A p \in Proc : []<>(p \notin ready) \/ []<>Running(p)

\* A key that was pressed is followed by a round of task_tty over the keys,
\* although clock_handler looks only when the running process has used up its
\* ticks, task_tty can be woken only from its receive, and it resets the flag some
\* time after it was told (clock.c:21-28, proc.c:293-311, tty.cpp:45-74); as long as
\* task_tty does not stay blocked in a send.
KeyIsNoticed == []<>~TtySends => (tty_key_pressed ~> tty = "loop")
=============================================================================
