-------------------------- MODULE KernelEntryProofs --------------------------
(* Safety of Scheduler for any process table and any priorities.  And the  *)
(* ways in and out of the kernel, for any lines and any order of           *)
(* interrupts: the registers of every process are kept, the frames nest,   *)
(* and what holds of Scheduler holds under them.                           *)
EXTENDS KernelEntry, TLAPS

(***************************************************************************)
(* The scheduler.                                                          *)
(***************************************************************************)

\* While schedual scans, its candidate is ready, whatever came in between.
CandidateIsReady == Scanning /\ greatest_ticks > 0 => p_proc_ready \in ready

\* The locals of schedual are at rest while it does not run.
LocalsAtRest == ~Scanning => scan = 0 /\ greatest_ticks = 0

SInv == TypeOK /\ RunsOnlyReady /\ CandidateIsReady /\ LocalsAtRest

\* At the start every process has its ticks and none is looked at.
LEMMA InitSInv == Init => SInv
<1>1. /\ 0 \in Proc
      /\ \A p \in Proc : Priority[p] \in Nat /\ Priority[p] <= Priority[p]
  BY SchedulerAssumption DEF Proc
<1>2. Priority \in [Proc -> Nat] /\ 0 \in 0..NumProc /\ 0 \in Nat
  BY SchedulerAssumption
<1> QED BY <1>1, <1>2, SchedulerAssumption
   DEF Init, SInv, TypeOK, TtyPlace, RunsOnlyReady, Mode,
       CandidateIsReady, LocalsAtRest, Scanning

\* A turn of the scan keeps the old candidate or takes one that is ready.
LEMMA LooksKeeps == ASSUME SInv, Looks PROVE SInv'
<1> DEFINE better == scan \in ready /\ ticks[scan] > greatest_ticks
<1> USE DEF SInv, TypeOK, TtyPlace, ttyVars, CandidateIsReady, LocalsAtRest, Scanning
<1>1. /\ Scanning /\ scan \in Proc /\ scan' = scan + 1
      /\ greatest_ticks' = IF better THEN ticks[scan] ELSE greatest_ticks
      /\ p_proc_ready' = IF better THEN scan ELSE p_proc_ready
      /\ UNCHANGED <<ticks, ready, mode, ttyVars>>
  BY DEF Looks
<1>2. scan' \in 0..NumProc
  BY <1>1, SchedulerAssumption DEF Proc
<1>3. /\ greatest_ticks' \in Nat /\ p_proc_ready' \in Proc
      /\ greatest_ticks' > 0 => p_proc_ready' \in ready
  <2>1. CASE better BY <1>1, <2>1
  <2>2. CASE ~better BY <1>1, <2>2
  <2> QED BY <2>1, <2>2
<1> QED BY <1>1, <1>2, <1>3 DEF RunsOnlyReady, Mode

\* A refill gives the priority, which bounds the ticks.
LEMMA RefillsKeeps == ASSUME SInv, Refills PROVE SInv'
<1> USE DEF SInv, TypeOK, TtyPlace, ttyVars
<1>1. \A p \in Proc : Priority[p] \in Nat /\ Priority[p] <= Priority[p]
  BY SchedulerAssumption
<1>2. /\ ticks' = [p \in Proc |-> IF p \in ready THEN Priority[p] ELSE ticks[p]]
      /\ scan' = 0
      /\ UNCHANGED <<p_proc_ready, greatest_ticks, ready, mode, ttyVars>>
      /\ Scanning /\ greatest_ticks = 0
  BY DEF Refills
<1>3. /\ ticks' \in [Proc -> Nat]
      /\ \A p \in Proc : ticks'[p] <= Priority[p]
  BY <1>1, <1>2
<1>4. 0 \in 0..NumProc
  BY SchedulerAssumption
<1> QED BY <1>2, <1>3, <1>4
   DEF RunsOnlyReady, CandidateIsReady, LocalsAtRest, Scanning

\* The invariant is inductive.
LEMMA NextSInv == SInv /\ [Next]_vars => SInv'
<1> SUFFICES ASSUME SInv, [Next]_vars PROVE SInv'
  OBVIOUS
<1> USE SchedulerAssumption
    DEF SInv, TypeOK, RunsOnlyReady, Mode, locals, ttyVars, TtyPlace,
        CandidateIsReady, LocalsAtRest, Scanning
<1>1. CASE schedual
  <2>1. CASE Looks BY <2>1, LooksKeeps
  <2>2. CASE Refills BY <2>2, RefillsKeeps
  <2>3. CASE Finds BY <2>3 DEF Finds
  <2> QED BY <1>1, <2>1, <2>2, <2>3 DEF schedual
<1>2. ASSUME Charge PROVE SInv'
  BY <1>2 DEF Charge
<1>3. CASE ClockUser
  <2>1. CASE Charge
    BY <1>2, <2>1
  <2>2. CASE ticks[p_proc_ready] = 0 /\ InformTty /\ mode' = "clock"
    BY <1>3, <2>2 DEF InformTty, ClockUser
  <2> QED BY <1>3, <2>1, <2>2 DEF ClockUser
<1>4. CASE ClockNested
  <2>1. CASE Charge
    BY <1>2, <2>1
  <2>2. CASE ticks[p_proc_ready] = 0 /\ InformTty /\ UNCHANGED mode
    BY <2>2 DEF InformTty
  <2> QED BY <1>4, <2>1, <2>2 DEF ClockNested
<1>5. CASE Trap
  BY <1>5 DEF Trap
<1>6. CASE CallReturns
  BY <1>6 DEF CallReturns
<1>7. ASSUME NEW q \in Proc, CallUnblocks(q) PROVE SInv'
  BY <1>7 DEF CallUnblocks
<1>8. CASE CallBlocks
  BY <1>8 DEF CallBlocks
<1>9. CASE TtyReceive
  <2>1. CASE TtyTakesInterrupt
    BY <2>1 DEF TtyTakesInterrupt, TtyReceives
  <2>2. CASE TtyBlocks
    BY <2>2 DEF TtyBlocks, TtyReceives
  <2>3. ASSUME NEW q \in Proc, TtyTakesMessage(q) PROVE SInv'
    BY <2>3 DEF TtyTakesMessage, TtyReceives
  <2> QED BY <1>9, <2>1, <2>2, <2>3 DEF TtyReceive
<1>10. ASSUME NEW q \in IntTarget, DeviceInterrupt(q) PROVE SInv'
  BY <1>10 DEF DeviceInterrupt
<1>11. CASE keyboard_handler
  BY <1>11 DEF keyboard_handler
<1>12. CASE UNCHANGED vars
  BY <1>12 DEF vars
<1>13. CASE TtyRuns
  BY <1>13 DEF TtyRuns, TtyHandlesKey, TtyReadsKeys
<1> QED BY <1>1, <1>3, <1>4, <1>5, <1>6, <1>7, <1>8, <1>9, <1>10, <1>11, <1>12, <1>13
        DEF Next, Call

\* The invariant holds in every state.
LEMMA SchedulerInvariance == Spec => []SInv
BY InitSInv, NextSInv, PTL DEF Spec

\* Ticks stay between zero and the priority.
THEOREM TicksAreBounded == Spec => []TypeOK
BY SchedulerInvariance, PTL DEF SInv

\* Only a process without flags is ever resumed.
THEOREM ResumesOnlyReady == Spec => []RunsOnlyReady
BY SchedulerInvariance, PTL DEF SInv

(***************************************************************************)
(* The entries to the kernel.                                              *)
(***************************************************************************)

FrameSet == [cause : Line \cup {SYS_CALL}, done : BOOLEAN,
             ret : {"restart", "restart_reenter"},
             below : Proc \cup {None}, caller : Proc \cup {None}]
ContextSet == [of : Proc, now : BOOLEAN, owed : BOOLEAN]

EntryTypes ==
    /\ stack \in Seq(FrameSet)
    /\ esi \in Proc \cup {None}
    /\ tss_sp0 \in Proc
    /\ mask \subseteq Line
    /\ regs \in [Proc -> ContextSet]

\* Only the outermost frame can be that of a call.
TrapsAreOutermost == \A j \in DOMAIN stack : stack[j].cause = SYS_CALL => j = 1

\* The register of the outermost frame, wherever nested frames have put it.
OutermostEsi == IF Len(stack) = 1 THEN esi ELSE stack[2].below

\* The process that was interrupted has its registers in its frame, without the
\* result of its call, and everybody else has them as they should be.
FramesAreRight ==
    /\ \A q \in Proc \ {tss_sp0} : regs[q] = Context(q)
    /\ InUser => /\ registers = Context(p_proc_ready)
                 /\ tss_sp0 = p_proc_ready
                 /\ regs[tss_sp0].of = tss_sp0
    /\ ~InUser => /\ regs[tss_sp0] = [Context(tss_sp0)
                                         EXCEPT !.owed = (stack[1].cause = SYS_CALL)]
                  /\ stack[1].caller = tss_sp0
                  /\ OutermostEsi = tss_sp0

EInv == EntryTypes /\ NestingIsRight /\ TrapsAreOutermost /\ FramesAreRight

-----------------------------------------------------------------------------
(* Every step of this module is a step of Scheduler.                       *)

\* What a handler does is a step of Scheduler; entering and leaving are none.
LEMMA KernelStep == ASSUME [KNext]_kvars PROVE [Next]_vars
<1>1. CASE HandlesClock BY <1>1 DEF HandlesClock, Next
<1>2. CASE HandlesKey BY <1>2 DEF HandlesKey, Next
<1>3. CASE HandlesDisk BY <1>3 DEF HandlesDisk, Next
<1>4. CASE Scans BY <1>4 DEF Scans, Next
<1>5. CASE Serves BY <1>5 DEF Serves, Next
<1>6. CASE CallEnds BY <1>6 DEF CallEnds
<1>7. ASSUME NEW l \in Line, InterruptEnds(l) PROVE [Next]_vars
  BY <1>7 DEF InterruptEnds
<1>8. ASSUME NEW l \in Line, Accepts(l) PROVE [Next]_vars
  BY <1>8 DEF Accepts
<1>9. CASE Calls BY <1>9 DEF Calls, Next
<1>10. CASE harddisk_init BY <1>10 DEF harddisk_init
<1>11. CASE UNCHANGED kvars BY <1>11 DEF kvars
<1>12. CASE TaskTty BY <1>12 DEF TaskTty, Next
<1> QED BY <1>1, <1>2, <1>3, <1>4, <1>5, <1>6, <1>7, <1>8, <1>9, <1>10, <1>11, <1>12
        DEF KNext, Kernel

\* The entry code neither adds to nor takes from what Scheduler allows.
THEOREM KernelSchedules == KSpec => Spec
<1>1. KInit => Init
  BY DEF KInit
<1>2. [KNext]_kvars => [Next]_vars
  BY KernelStep
<1> QED BY <1>1, <1>2, PTL DEF KSpec, Spec

\* With any nesting of interrupts, only a process without flags is resumed.
THEOREM KernelResumesOnlyReady == KSpec => []RunsOnlyReady
BY KernelSchedules, ResumesOnlyReady, PTL

-----------------------------------------------------------------------------
(* Entering and leaving.                                                   *)

\* At the start a process runs, with no frame on the kernel stack.
LEMMA InitEInv == KInit => EInv
<1> SUFFICES ASSUME KInit PROVE EInv
  OBVIOUS
<1>1. p_proc_ready = 0 /\ 0 \in Proc
  <2>1. Init
    BY DEF KInit
  <2>2. 0 \in Proc
    BY SchedulerAssumption DEF Proc
  <2> QED BY <2>1, <2>2 DEF Init
<1>2. regs \in [Proc -> ContextSet]
  BY <1>1 DEF KInit, ContextSet, Context, Stale
<1>3. EntryTypes
  BY <1>1, <1>2 DEF KInit, EntryTypes, Line
<1>4. NestingIsRight
  BY DEF KInit, NestingIsRight
<1>5. FramesAreRight
  BY <1>1 DEF KInit, FramesAreRight, InUser, Context, Stale
<1> QED BY <1>3, <1>4, <1>5 DEF EInv, TrapsAreOutermost, KInit

\* save, for a line that is not held back or for a call from a process.
LEMMA SaveKeeps ==
  ASSUME EInv, NEW cause \in Line \cup {SYS_CALL}, save(cause),
         cause \notin mask, cause = SYS_CALL => InUser,
         mask' = mask \cup ({cause} \cap Line), UNCHANGED tss_sp0,
         p_proc_ready \in Proc
  PROVE  EInv'
<1> USE KernelEntryAssumption
<1> DEFINE new == Last(stack')
<1>1. stack \in Seq(FrameSet) /\ k_reenter = Len(stack) - 1
  BY DEF EInv, EntryTypes, NestingIsRight
<1>2. CASE k_reenter' = 0
  <2>1. stack = <<>> /\ InUser
    BY <1>1, <1>2 DEF save, InUser
  <2>2. /\ regs' = [regs EXCEPT ![tss_sp0] = Saved(cause)]
        /\ stack' = <<Frame(cause, "restart", None, registers.of)>>
        /\ esi' = tss_sp0 /\ k_reenter' = 0
        /\ registers = Context(p_proc_ready) /\ tss_sp0 = p_proc_ready
    BY <1>1, <1>2, <2>1 DEF save, EInv, FramesAreRight
  <2>3. /\ registers.of = tss_sp0
        /\ Saved(cause) = [Context(tss_sp0) EXCEPT !.owed = (cause = SYS_CALL)]
        /\ Saved(cause) \in ContextSet
    BY <2>2 DEF Context, Saved, ContextSet
  <2>4. Frame(cause, "restart", None, registers.of) \in FrameSet
    BY <2>2, <2>3 DEF FrameSet, Frame
  <2>5. /\ Len(stack') = 1 /\ stack'[1].cause = cause /\ stack'[1].ret = "restart"
        /\ stack'[1].caller = tss_sp0 /\ DOMAIN stack' = {1}
    BY <2>2, <2>3 DEF Frame
  <2>6. EntryTypes'
    BY <2>2, <2>3, <2>4 DEF EInv, EntryTypes
  <2>7. mask \subseteq {AT_WINI_IRQ}
    BY <2>1 DEF EInv, NestingIsRight, EntryTypes
  <2>8. NestingIsRight'
    BY <2>2, <2>5, <2>7 DEF NestingIsRight
  <2>9. FramesAreRight'
    BY <2>2, <2>3, <2>5 DEF FramesAreRight, EInv, InUser, EntryTypes, OutermostEsi
  <2> QED BY <2>5, <2>6, <2>8, <2>9 DEF EInv, TrapsAreOutermost
<1>3. CASE k_reenter' # 0
  <2>1. /\ stack' = Append(stack, Frame(cause, "restart_reenter", esi, None))
        /\ k_reenter' = k_reenter + 1 /\ esi' = None /\ regs' = regs
    BY <1>3 DEF save
  <2>2. ~InUser /\ Len(stack) > 0 /\ cause \in Line
    BY <1>1, <1>3, <2>1 DEF InUser
  <2>3. Frame(cause, "restart_reenter", esi, None) \in FrameSet
    BY <2>2 DEF EInv, EntryTypes, FrameSet, Frame
  <2>4. /\ stack' \in Seq(FrameSet) /\ Len(stack') = Len(stack) + 1
        /\ \A j \in DOMAIN stack : stack'[j] = stack[j]
        /\ stack'[Len(stack')] = Frame(cause, "restart_reenter", esi, None)
        /\ DOMAIN stack' = DOMAIN stack \cup {Len(stack')}
        /\ DOMAIN stack = 1 .. Len(stack)
    BY <1>1, <2>1, <2>3
  <2>5. /\ stack'[Len(stack')].cause = cause /\ stack'[Len(stack')].below = esi
        /\ stack'[Len(stack')].ret = "restart_reenter"
    BY <2>4 DEF Frame
  <2>6. \A j \in DOMAIN stack : stack[j].cause # cause
    BY <2>2 DEF EInv, NestingIsRight
  <2>7. EntryTypes'
    BY <2>1, <2>4 DEF EInv, EntryTypes
  <2>8. NestingIsRight'
    <3>1. k_reenter' = Len(stack') - 1
      BY <1>1, <2>1, <2>4
    <3>2. \A j \in DOMAIN stack' : stack'[j].ret = "restart" <=> j = 1
      BY <2>2, <2>4, <2>5 DEF EInv, NestingIsRight
    <3>3. \A i, j \in DOMAIN stack' : stack'[i].cause = stack'[j].cause => i = j
      BY <2>4, <2>5, <2>6 DEF EInv, NestingIsRight
    <3>4. mask' \ {AT_WINI_IRQ} = {l \in Line \ {AT_WINI_IRQ} :
                                     \E j \in DOMAIN stack' : stack'[j].cause = l}
      BY <2>2, <2>4, <2>5 DEF EInv, NestingIsRight
    <3>5. \A j \in DOMAIN stack' : stack'[j].cause \in mask' \cup {SYS_CALL}
      BY <2>2, <2>4, <2>5 DEF EInv, NestingIsRight
    <3> QED BY <3>1, <3>2, <3>3, <3>4, <3>5 DEF NestingIsRight
  <2>9. FramesAreRight'
    <3>1. stack'[1] = stack[1] /\ ~InUser'
      BY <2>2, <2>4 DEF InUser
    <3>2. OutermostEsi' = OutermostEsi
      BY <2>2, <2>4, <2>5 DEF OutermostEsi
    <3> QED BY <2>1, <2>2, <3>1, <3>2 DEF FramesAreRight, EInv
  <2>10. TrapsAreOutermost'
    BY <2>2, <2>4, <2>5 DEF EInv, TrapsAreOutermost
  <2> QED BY <2>7, <2>8, <2>9, <2>10 DEF EInv
<1> QED BY <1>2, <1>3

\* The end of a handler that interrupted the kernel.
LEMMA NestedReturnKeeps ==
  ASSUME EInv, NEW l \in Line, stack # <<>>, ~Outermost,
         Innermost.cause = l, Returns(l)
  PROVE  EInv'
<1> USE DEF Last, Innermost
<1> DEFINE n == Len(stack)
<1>1. /\ stack \in Seq(FrameSet) /\ k_reenter = n - 1 /\ n \in Nat /\ n > 1
      /\ DOMAIN stack = 1 .. n
  BY DEF EInv, EntryTypes, NestingIsRight, Outermost
<1>2. Innermost.ret = "restart_reenter"
  <2>1. n \in DOMAIN stack /\ n # 1 /\ stack[n] \in FrameSet
    BY <1>1
  <2> QED BY <2>1 DEF EInv, NestingIsRight, FrameSet
<1>3. /\ k_reenter' = k_reenter - 1 /\ stack' = Front(stack)
      /\ esi' = stack[n].below /\ regs' = regs /\ tss_sp0' = tss_sp0
      /\ mask' = mask \ {l}
  BY <1>2 DEF Returns, Leave
<1>4. /\ stack' \in Seq(FrameSet) /\ Len(stack') = n - 1
      /\ DOMAIN stack' = 1 .. (n - 1)
      /\ \A j \in 1 .. (n - 1) : stack'[j] = stack[j]
  BY <1>1, <1>3 DEF Front
<1>5. stack[n] \in FrameSet /\ stack[n].below \in Proc \cup {None} /\ stack[n].cause = l
  <2>1. stack[n] \in FrameSet
    BY <1>1
  <2> QED BY <2>1 DEF FrameSet
<1>6. \A j \in 1 .. (n - 1) : stack[j].cause # l
  BY <1>1, <1>5 DEF EInv, NestingIsRight
<1>7. EntryTypes'
  BY <1>3, <1>4, <1>5 DEF EInv, EntryTypes
<1>8. NestingIsRight'
  <2>1. k_reenter' = Len(stack') - 1
    BY <1>1, <1>3, <1>4
  <2>2. \A j \in DOMAIN stack' : stack'[j].ret = "restart" <=> j = 1
    BY <1>1, <1>4 DEF EInv, NestingIsRight
  <2>3. \A i, j \in DOMAIN stack' : stack'[i].cause = stack'[j].cause => i = j
    BY <1>1, <1>4 DEF EInv, NestingIsRight
  <2>4. \A k \in Line : (\E j \in DOMAIN stack' : stack'[j].cause = k)
                           <=> k # l /\ \E j \in DOMAIN stack : stack[j].cause = k
    BY <1>1, <1>4, <1>5, <1>6
  <2>5. mask' \ {AT_WINI_IRQ} = {k \in Line \ {AT_WINI_IRQ} :
                                   \E j \in DOMAIN stack' : stack'[j].cause = k}
    BY <1>3, <2>4 DEF EInv, NestingIsRight, EntryTypes
  <2>6. \A j \in DOMAIN stack' : stack'[j].cause \in mask' \cup {SYS_CALL}
    BY <1>1, <1>3, <1>4, <1>6 DEF EInv, NestingIsRight
  <2> QED BY <2>1, <2>2, <2>3, <2>5, <2>6 DEF NestingIsRight
<1>9. FramesAreRight'
  <2>1. ~InUser /\ ~InUser' /\ stack'[1] = stack[1]
    BY <1>1, <1>4 DEF InUser
  <2>2. OutermostEsi' = OutermostEsi
    BY <1>1, <1>3, <1>4 DEF OutermostEsi
  <2> QED BY <1>3, <2>1, <2>2 DEF EInv, FramesAreRight
<1>10. TrapsAreOutermost'
  BY <1>1, <1>4 DEF EInv, TrapsAreOutermost
<1> QED BY <1>7, <1>8, <1>9, <1>10 DEF EInv

\* The last frame is left, and every process has its registers in its frame.
LEMMA RestartKeeps ==
  ASSUME EInv, Outermost, NEW kept, Leave(kept),
         kept = [q \in Proc |-> Context(q)],
         mask' = mask \ {Innermost.cause},
         p_proc_ready \in Proc, UNCHANGED p_proc_ready
  PROVE  EInv'
<1> USE DEF Last, Innermost
<1>1. /\ stack \in Seq(FrameSet) /\ k_reenter = Len(stack) - 1 /\ Len(stack) = 1
      /\ DOMAIN stack = {1} /\ stack[1].ret = "restart"
  <2>1. stack \in Seq(FrameSet) /\ k_reenter = Len(stack) - 1 /\ Len(stack) = 1
    BY DEF EInv, EntryTypes, NestingIsRight, Outermost
  <2>2. DOMAIN stack = {1}
    BY <2>1
  <2> QED BY <2>1, <2>2 DEF EInv, NestingIsRight
<1>2. stack' = <<>> /\ k_reenter' = -1
  BY <1>1 DEF Leave, Front
<1>3. /\ tss_sp0' = p_proc_ready /\ registers' = Context(p_proc_ready)
      /\ regs' = [q \in Proc |-> IF kept[q].of = registers'.of
                                 THEN Stale(kept[q]) ELSE kept[q]]
      /\ esi' = None
  BY <1>1 DEF Leave
<1>4. \A q \in Proc : regs'[q] = IF q = p_proc_ready THEN Stale(Context(q)) ELSE Context(q)
  BY <1>3 DEF Context
<1>5. regs' \in [Proc -> ContextSet]
  BY <1>3, <1>4 DEF ContextSet, Context, Stale
<1>6. EntryTypes'
  BY <1>2, <1>3, <1>5 DEF EInv, EntryTypes
<1>7. NestingIsRight'
  BY <1>1, <1>2 DEF EInv, EntryTypes, NestingIsRight
<1>8. FramesAreRight'
  BY <1>2, <1>3, <1>4 DEF FramesAreRight, InUser, Context, Stale
<1> QED BY <1>2, <1>6, <1>7, <1>8 DEF EInv, TrapsAreOutermost

\* The end of a handler, in a frame that is kept or in one that is left.
LEMMA HandledKeeps ==
  ASSUME EInv, NEW l \in Line \cup {SYS_CALL}, Handled(l), l \in Line \/ Outermost
  PROVE  EInv'
<1>1. CASE ~Outermost
  BY <1>1, NestedReturnKeeps DEF Handled
<1>2. CASE Outermost
  <2>1. /\ stack \in Seq(FrameSet) /\ Len(stack) = 1 /\ DOMAIN stack = {1}
        /\ stack' = <<[stack[1] EXCEPT !.done = TRUE]>>
        /\ UNCHANGED <<k_reenter, esi, registers, regs, tss_sp0, mask>>
    BY <1>2 DEF EInv, EntryTypes, Handled, Outermost
  <2>2. stack[1] \in FrameSet
    BY <2>1
  <2>3. /\ [stack[1] EXCEPT !.done = TRUE] \in FrameSet
        /\ stack'[1].cause = stack[1].cause /\ stack'[1].ret = stack[1].ret
        /\ stack'[1].caller = stack[1].caller
    BY <2>1, <2>2 DEF FrameSet
  <2>4. Len(stack') = 1 /\ DOMAIN stack' = {1} /\ stack' \in Seq(FrameSet)
    BY <2>1, <2>3
  <2>5. EntryTypes'
    BY <2>1, <2>4 DEF EInv, EntryTypes
  <2>6. NestingIsRight'
    <3>1. /\ k_reenter' = Len(stack') - 1
          /\ stack'[1].ret = "restart" /\ stack'[1].cause \in mask' \cup {SYS_CALL}
      BY <2>1, <2>3, <2>4 DEF EInv, NestingIsRight
    <3>2. mask \ {AT_WINI_IRQ} = {k \in Line \ {AT_WINI_IRQ} : stack[1].cause = k}
      BY <2>1 DEF EInv, NestingIsRight
    <3> QED BY <2>1, <2>3, <2>4, <3>1, <3>2 DEF NestingIsRight
  <2>7. FramesAreRight'
    <3>1. ~InUser /\ ~InUser'
      <4>1. stack # <<>>
        BY DEF Handled
      <4>2. stack' # <<>>
        BY <2>4
      <4> QED BY <4>1, <4>2 DEF InUser
    <3>2. OutermostEsi = esi /\ OutermostEsi' = esi'
      BY <2>1, <2>4 DEF OutermostEsi
    <3> QED BY <2>1, <2>3, <3>1, <3>2 DEF EInv, FramesAreRight
  <2> QED BY <2>4, <2>5, <2>6, <2>7 DEF EInv, TrapsAreOutermost
<1> QED BY <1>1, <1>2

-----------------------------------------------------------------------------
\* The invariant is inductive, given the one of the scheduler.
LEMMA NextEInv == ASSUME EInv, SInv, [KNext]_kvars PROVE EInv'
<1>1. p_proc_ready \in Proc
  BY DEF SInv, TypeOK
<1>2. CASE HandlesClock BY <1>2, HandledKeeps DEF HandlesClock, Line
<1>3. CASE HandlesKey BY <1>3, HandledKeeps DEF HandlesKey, Line
<1>4. CASE HandlesDisk BY <1>4, HandledKeeps DEF HandlesDisk, Line
<1>5. CASE Serves BY <1>5, HandledKeeps DEF Serves
<1>6. CASE Scans
  <2>1. UNCHANGED entry /\ ~InUser
    BY <1>6 DEF Scans, Outermost, InUser
  <2> QED BY <2>1 DEF entry, EInv, EntryTypes, NestingIsRight, TrapsAreOutermost,
                       FramesAreRight, InUser, OutermostEsi
<1>7. CASE CallEnds
  <2>1. /\ Outermost /\ stack[1].cause = SYS_CALL /\ Innermost = stack[1]
        /\ Leave(Result(esi)) /\ UNCHANGED <<p_proc_ready, mask>>
    BY <1>7 DEF CallEnds, AtEnd, Outermost, Innermost, Last, vars
  <2>2. esi = tss_sp0 /\ stack[1].caller = tss_sp0 /\ tss_sp0 \in Proc /\ ~InUser
    <3>1. ~InUser /\ OutermostEsi = esi
      BY <2>1 DEF InUser, Outermost, OutermostEsi
    <3> QED BY <3>1 DEF EInv, FramesAreRight, EntryTypes
  <2>3. Result(esi) = [q \in Proc |-> Context(q)]
    <3>1. /\ regs[tss_sp0] = [Context(tss_sp0) EXCEPT !.owed = TRUE]
          /\ regs \in [Proc -> ContextSet]
          /\ \A q \in Proc \ {tss_sp0} : regs[q] = Context(q)
      BY <2>1, <2>2 DEF EInv, FramesAreRight, EntryTypes
    <3>2. Result(esi) = [regs EXCEPT ![tss_sp0] = Context(tss_sp0)]
      BY <2>1, <2>2, <3>1 DEF Result, Context
    <3> QED BY <2>2, <3>1, <3>2
  <2>4. mask' = mask \ {Innermost.cause}
    BY <2>1, KernelEntryAssumption DEF EInv, EntryTypes
  <2> QED BY <1>1, <2>1, <2>3, <2>4, RestartKeeps
<1>8. ASSUME NEW l \in Line, InterruptEnds(l) PROVE EInv'
  <2>1. /\ Outermost /\ stack[1].cause = l /\ Innermost = stack[1]
        /\ Leave(regs) /\ mask' = mask \ {Innermost.cause} /\ UNCHANGED p_proc_ready
    BY <1>8 DEF InterruptEnds, Returns, AtEnd, Outermost, Innermost, Last, vars
  <2>2. ~InUser /\ l # SYS_CALL
    BY <2>1, KernelEntryAssumption DEF InUser, Outermost
  <2>3. regs = [q \in Proc |-> Context(q)]
    BY <2>1, <2>2 DEF EInv, FramesAreRight, EntryTypes, Context, ContextSet
  <2> QED BY <1>1, <2>1, <2>3, RestartKeeps
<1>9. ASSUME NEW l \in Line, Accepts(l) PROVE EInv'
  BY <1>1, <1>9, KernelEntryAssumption, SaveKeeps DEF Accepts
<1>10. CASE Calls
  <2>1. SYS_CALL \notin mask /\ mask = mask \cup ({SYS_CALL} \cap Line)
    BY KernelEntryAssumption DEF EInv, EntryTypes
  <2> QED BY <1>1, <1>10, <2>1, SaveKeeps DEF Calls
<1>11. CASE harddisk_init
  <2>1. /\ stack = <<>> /\ mask' = mask \ {AT_WINI_IRQ}
        /\ UNCHANGED <<p_proc_ready, k_reenter, stack, esi, registers, regs, tss_sp0>>
    BY <1>11 DEF harddisk_init, InUser, vars
  <2> QED BY <2>1 DEF EInv, EntryTypes, NestingIsRight, TrapsAreOutermost,
                       FramesAreRight, InUser, OutermostEsi
<1>12. CASE UNCHANGED kvars
  BY <1>12 DEF kvars, vars, entry, EInv, EntryTypes, NestingIsRight,
               TrapsAreOutermost, FramesAreRight, InUser, OutermostEsi
<1>13. CASE TaskTty
  <2>1. UNCHANGED <<p_proc_ready, entry>>
    BY <1>13 DEF TaskTty, TtyRuns, TtyHandlesKey, TtyReadsKeys
  <2> QED BY <2>1 DEF entry, EInv, EntryTypes, NestingIsRight,
                      TrapsAreOutermost, FramesAreRight, InUser, OutermostEsi
<1> QED BY <1>2, <1>3, <1>4, <1>5, <1>6, <1>7, <1>8, <1>9, <1>10, <1>11, <1>12, <1>13
        DEF KNext, Kernel

\* The invariant holds in every state.
LEMMA EntryInvariance == KSpec => []EInv
<1>1. KSpec => []SInv
  BY KernelSchedules, SchedulerInvariance, PTL
<1>2. EInv /\ SInv /\ [KNext]_kvars => EInv'
  BY NextEInv
<1> QED BY <1>1, <1>2, InitEInv, PTL DEF KSpec

\* A process outside the kernel finds the registers it left, with the result of
\* its call, and so will all the others, for any nesting of interrupts.
THEOREM RegistersAreKept == KSpec => []ContextKept
<1>1. EInv => ContextKept
  BY DEF EInv, FramesAreRight, ContextKept
<1> QED BY <1>1, EntryInvariance, PTL

\* Frames and masks always nest.
THEOREM FramesNest == KSpec => []NestingIsRight
<1>1. EInv => NestingIsRight
  BY DEF EInv
<1> QED BY <1>1, EntryInvariance, PTL
=============================================================================
