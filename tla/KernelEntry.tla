----------------------------- MODULE KernelEntry -----------------------------
(***************************************************************************)
(* The ways into the kernel and out of it (sys/kernel.asm) around the      *)
(* scheduler: save and restart with k_reenter, the kernel's stack and the  *)
(* frames of the process table, hwint_master and hwint_slave with the      *)
(* masks of the interrupt controllers (sys/i8259.cpp), and sys_call.       *)
(*                                                                         *)
(* Interrupts are off from the entry to the `sti' after it, and from the   *)
(* `cli' to the `iretd': each of these is one step, and in every state     *)
(* interrupts are on.  The variables and handlers of Scheduler go through  *)
(* the steps of this module unchanged.                                     *)
(***************************************************************************)
EXTENDS Scheduler, Sequences, SequencesExt

CONSTANTS CLOCK_IRQ, KEYBOARD_IRQ, AT_WINI_IRQ,   \* lines of the controllers
          SYS_CALL,                             \* the trap 0x90
          None, InKernel

Line == {CLOCK_IRQ, KEYBOARD_IRQ, AT_WINI_IRQ}

ASSUME KernelEntryAssumption == SYS_CALL \notin Line

VARIABLES
    k_reenter,
    stack,        \* the frames on the kernel's stack, the innermost last
    esi,          \* in the kernel: the frame that save has filled
    registers,    \* of the program that executes
    regs,         \* proc_table[p].regs
    tss_sp0,      \* the process whose frame tss.esp0 points to
    mask          \* the lines that the controllers hold back

entry == <<k_reenter, stack, esi, registers, regs, tss_sp0, mask>>
kvars == <<vars, entry>>

\* The registers of a program: whose they are, whether it has changed them since,
\* and whether the result of its call is not in eax yet.
Context(p) == [of |-> p, now |-> TRUE, owed |-> FALSE]
Stale(c) == [c EXCEPT !.now = FALSE]

KInit ==
    /\ Init
    /\ k_reenter = -1
    /\ stack = <<>> /\ esi = None
    /\ registers = Context(p_proc_ready) /\ tss_sp0 = p_proc_ready
    /\ regs = [[p \in Proc |-> Context(p)] EXCEPT ![p_proc_ready] = Stale(@)]
    /\ mask = {AT_WINI_IRQ}

-----------------------------------------------------------------------------
(* save, restart and restart_reenter.                                      *)

Saved(cause) == [registers EXCEPT !.owed = (cause = SYS_CALL)]
Frame(cause, ret, below, caller) ==
    [cause |-> cause, done |-> FALSE, ret |-> ret, below |-> below, caller |-> caller]

\* From a process the registers go to the frame that the processor finds in the
\* tss, and the kernel's stack is empty; in the kernel they stay on its stack.
save(cause) ==
    /\ k_reenter' = k_reenter + 1
    /\ registers' = InKernel
    /\ \/ /\ k_reenter' = 0
          /\ regs' = [regs EXCEPT ![tss_sp0] = Saved(cause)]
          /\ stack' = <<Frame(cause, "restart", None, registers.of)>>
          /\ esi' = tss_sp0
       \/ /\ k_reenter' # 0
          /\ stack' = Append(stack, Frame(cause, "restart_reenter", esi, None))
          /\ esi' = None
          /\ UNCHANGED regs

Innermost == Last(stack)

\* `ret' at the end of every entry, with the frames of the processes as kept.  A
\* program that is resumed goes on and changes its registers.
Leave(kept) ==
    /\ k_reenter' = k_reenter - 1
    /\ stack' = Front(stack)
    /\ \/ /\ Innermost.ret = "restart"
          /\ tss_sp0' = p_proc_ready
          /\ registers' = kept[p_proc_ready]
          /\ regs' = [q \in Proc |-> IF kept[q].of = registers'.of
                                    THEN Stale(kept[q]) ELSE kept[q]]
          /\ esi' = None
       \/ /\ Innermost.ret = "restart_reenter"
          /\ esi' = Innermost.below
          /\ regs' = kept
          /\ UNCHANGED <<tss_sp0, registers>>

\* The kernel's own code runs, on behalf of the process that was interrupted.
Outermost == Len(stack) = 1
InUser == stack = <<>>

-----------------------------------------------------------------------------
(* hwint_master and hwint_slave.                                           *)

\* Variant: the line is not held back while it is handled.
AcceptsUnmasked(l) ==
    /\ l \notin mask
    /\ save(l)
    /\ UNCHANGED <<vars, tss_sp0, mask>>

\* To `sti'.
Accepts(l) ==
    /\ l \notin mask
    /\ mask' = mask \cup {l}
    /\ save(l)
    /\ UNCHANGED <<vars, tss_sp0>>

\* From `cli': the line is let in again and the frame is left.
Returns(l) ==
    /\ mask' = mask \ {l}
    /\ Leave(regs)

\* The handler has returned.  What can happen before the `cli' of a nested frame
\* can as well happen in the frame below it; the outermost frame is kept.
Handled(l) ==
    /\ stack # <<>> /\ Innermost.cause = l /\ ~Innermost.done
    /\ \/ /\ Outermost
          /\ stack' = <<[stack[1] EXCEPT !.done = TRUE]>>
          /\ UNCHANGED <<k_reenter, esi, registers, regs, tss_sp0, mask>>
       \/ ~Outermost /\ Returns(l)

\* clock_handler, which reschedules only in an outermost frame.
HandlesClock ==
    /\ Handled(CLOCK_IRQ)
    /\ IF k_reenter = 0 THEN ClockUser ELSE ClockNested

HandlesKey == Handled(KEYBOARD_IRQ) /\ keyboard_handler

\* harddisk_handler; the driver that does not wait gets has_int_msg.
HandlesDisk ==
    /\ Handled(AT_WINI_IRQ)
    /\ (\E q \in IntTarget : DeviceInterrupt(q)) \/ UNCHANGED vars

\* schedual, in the frame that called it.
Scans == Outermost /\ schedual /\ UNCHANGED entry

AtEnd == Outermost /\ Innermost.done /\ ~Scanning

InterruptEnds(l) == AtEnd /\ Innermost.cause = l /\ Returns(l) /\ UNCHANGED vars

-----------------------------------------------------------------------------
(* sys_call, and what a process does.                                      *)

\* int 0x90, to `sti'.
Calls ==
    /\ InUser
    /\ Trap
    /\ save(SYS_CALL)
    /\ UNCHANGED <<tss_sp0, mask>>

\* The system call, with the process that runs afterwards.
Serves ==
    /\ Outermost /\ Handled(SYS_CALL)
    /\ Call

\* The result replaces eax in a frame; if it is not the caller's, that loses its own.
Result(p) ==
    [regs EXCEPT ![p] = IF @.of = Innermost.caller THEN [@ EXCEPT !.owed = FALSE]
                                                   ELSE Stale(@)]

\* Variant: the result goes to the process that runs next.
CallEndsElsewhere ==
    /\ AtEnd /\ Innermost.cause = SYS_CALL
    /\ Leave(Result(p_proc_ready))
    /\ UNCHANGED <<vars, mask>>

\* The result goes to the frame of the caller, which may be blocked by now.
CallEnds ==
    /\ AtEnd /\ Innermost.cause = SYS_CALL
    /\ Leave(Result(esi))
    /\ UNCHANGED <<vars, mask>>

\* task_tty between its calls.
TaskTty == InUser /\ TtyRuns /\ UNCHANGED entry

\* harddisk_init lets the line of its drive in; what it read of the masks
\* is still so when it writes them, for handlers leave them as they found them.
harddisk_init ==
    /\ InUser /\ p_proc_ready \in IntTarget
    /\ mask' = mask \ {AT_WINI_IRQ}
    /\ UNCHANGED <<vars, k_reenter, stack, esi, registers, regs, tss_sp0>>

-----------------------------------------------------------------------------
Kernel ==
    \/ HandlesClock \/ HandlesKey \/ HandlesDisk
    \/ Scans \/ Serves \/ CallEnds
    \/ \E l \in Line : InterruptEnds(l)

KNext ==
    \/ Kernel
    \/ \E l \in Line : Accepts(l)
    \/ Calls \/ TaskTty \/ harddisk_init

KSpec == KInit /\ [][KNext]_kvars

\* Kernel code runs on at each depth, also when other lines interrupt it again
\* and again, as they can but for the innermost; the timer finds each program
\* outside the kernel again and again; task_tty goes on when it runs, and calls
\* receive after a few sends, in each of its rounds.
KFairSpec ==
    /\ KSpec
    /\ \A depth \in 1..Cardinality(Line) : SF_kvars(Len(stack) = depth /\ Kernel)
    /\ WF_kvars(Len(stack) > Cardinality(Line) /\ Kernel)
    /\ SF_kvars(InUser /\ Accepts(CLOCK_IRQ))
    /\ SF_kvars(p_proc_ready = TASK_TTY /\ Calls)
    /\ SF_kvars(TaskTty \/ (Outermost /\ Handled(SYS_CALL) /\ TtyReceive))

-----------------------------------------------------------------------------
(* Properties.                                                             *)

\* Every program that is outside the kernel finds its registers as it left
\* them, with the result of its call in eax, however its call was interrupted,
\* it was blocked and others were resumed; and the next entry saves them where
\* they belong (kernel.asm:269-320).
ContextKept ==
    InUser =>
        /\ registers = Context(p_proc_ready)
        /\ tss_sp0 = p_proc_ready
        /\ \A q \in Proc \ {p_proc_ready} : regs[q] = Context(q)

\* k_reenter counts the frames, only the outermost one leads back to a process,
\* no handler interrupts itself, so that the stack is bounded by the number of
\* lines, and a line is held back exactly while it is handled
\* (kernel.asm:97-113, 153-171).
NestingIsRight ==
    /\ k_reenter = Len(stack) - 1
    /\ \A j \in DOMAIN stack : stack[j].ret = "restart" <=> j = 1
    /\ \A i, j \in DOMAIN stack : stack[i].cause = stack[j].cause => i = j
    /\ mask \ {AT_WINI_IRQ} = {l \in Line \ {AT_WINI_IRQ} :
                                  \E j \in DOMAIN stack : stack[j].cause = l}
    /\ \A j \in DOMAIN stack : stack[j].cause \in mask \cup {SYS_CALL}
=============================================================================
