--------------------------- MODULE HardDiskProofs ---------------------------
(* Proofs about the disk driver, the system task and the file system that  *)
(* calls the driver, for every drive and every set of requests, with the   *)
(* lemmas of IpcProofs about the message passing below them.  First who is *)
(* where, with the protocol of the drive; then what becomes of the data.   *)
EXTENDS HardDisk, IpcProofs, WellFoundedInduction

-----------------------------------------------------------------------------
(* The inductive invariant.                                                *)

\* What the steps below need of the types.
HTypes ==
    /\ pending \in [Proc -> Proc \cup {SR_TARGET_NONE}]
    /\ sys_tick_count \in 0..MaxTick
    /\ phase \in [Client -> {"idle", "called", "receiving"}]
    /\ asked \in [Client -> 0..sys_tick_count]
    /\ t \in 0..sys_tick_count
    /\ hd_msg \in Message
    /\ want \in {"not BSY", "DRQ"}
    /\ bytes_left \in Nat
    /\ DOMAIN drive = DOMAIN IdleDrive /\ drive.left \in Nat
    /\ irq \in BOOLEAN

\* Who talks to whom: only the driver asks for the ticks, only the file system
\* calls the driver, and only the driver is informed of interrupts.
Partners ==
    /\ \A p \in Proc \ {TASK_HARDDISK} : ~has_int_msg[p]
    /\ \A c \in Client \ {TASK_HARDDISK} : phase[c] = "idle"
    /\ \A p, q \in Proc : Offers(p, q) =>
          <<p, q>> \in {<<TASK_SYS, TASK_HARDDISK>>, <<TASK_HARDDISK, TASK_SYS>>,
                        <<TASK_HARDDISK, TASK_FS>>, <<TASK_FS, TASK_HARDDISK>>}
    /\ pending[TASK_SYS] = SR_TARGET_NONE
    /\ pending[TASK_HARDDISK] =
          IF phase[TASK_HARDDISK] = "called" THEN TASK_SYS ELSE SR_TARGET_NONE
    /\ pending[TASK_FS] =
          IF fs_phase = "called" THEN TASK_HARDDISK ELSE SR_TARGET_NONE

\* The system task has no request; it works on the one of the driver; or it is
\* blocked with the answer.
FreshAnswer(m, from) ==
    \E n \in asked[TASK_HARDDISK]..sys_tick_count :
        m = [source |-> from, body |-> Answer(n)]

TicksRequest == [source |-> TASK_HARDDISK, body |-> GetTicksRequest]

SysFree ==
    \/ sys_pc = "receive" /\ Free(TASK_SYS)
    \/ sys_pc = "received" /\ Waiting(TASK_SYS, SR_TARGET_ANY)

SysBusy ==
    /\ Free(TASK_SYS)
    /\ \/ sys_pc = "received" /\ buffer[TASK_SYS] = TicksRequest
       \/ sys_pc = "send" /\ FreshAnswer(buffer[TASK_SYS], TASK_HARDDISK)

SysAnswering ==
    /\ sys_pc = "receive" /\ Offers(TASK_SYS, TASK_HARDDISK)
    /\ FreshAnswer(buffer[TASK_SYS], TASK_SYS)

\* Where the driver and the system task are in a call of get_ticks.
TicksInStep ==
    /\ phase[TASK_HARDDISK] # "idle" => hd_pc \in {"start", "poll"}
    /\ phase[TASK_HARDDISK] = "idle" =>
          SysFree /\ ~Offers(TASK_HARDDISK, TASK_SYS)
    /\ phase[TASK_HARDDISK] = "called" =>
          \/ /\ Offers(TASK_HARDDISK, TASK_SYS) /\ SysFree
             /\ buffer[TASK_HARDDISK] = TicksRequest
          \/ Free(TASK_HARDDISK) /\ (SysBusy \/ SysAnswering)
    /\ phase[TASK_HARDDISK] = "receiving" =>
          \/ Waiting(TASK_HARDDISK, TASK_SYS) /\ SysBusy
          \/ /\ Free(TASK_HARDDISK) /\ SysFree
             /\ FreshAnswer(buffer[TASK_HARDDISK], TASK_SYS)

\* The same of the driver and the file system.
Working == {"start", "poll", "status", "timeout", "command", "write",
            "interrupt", "interrupted", "reply"}

DiskRequest(m) == m.source = TASK_FS /\ m.body \in Requests

DiskFree ==
    \/ hd_pc = "receive" /\ Free(TASK_HARDDISK)
    \/ hd_pc = "received" /\ Waiting(TASK_HARDDISK, SR_TARGET_ANY)

DiskBusy ==
    \/ /\ hd_pc = "received" /\ Free(TASK_HARDDISK)
       /\ DiskRequest(buffer[TASK_HARDDISK])
    \/ /\ hd_pc \in Working /\ DiskRequest(hd_msg)
       /\ \/ Free(TASK_HARDDISK)
          \/ hd_pc = "interrupted" /\ Waiting(TASK_HARDDISK, SR_TARGET_INTERRUPT)
          \/ phase[TASK_HARDDISK] # "idle"

DiskAnswering == hd_pc = "receive" /\ Offers(TASK_HARDDISK, TASK_FS)

RequestsInStep ==
    \/ fs_phase = "idle" /\ Free(TASK_FS) /\ DiskFree
    \/ /\ fs_phase = "called" /\ Offers(TASK_FS, TASK_HARDDISK) /\ DiskFree
       /\ DiskRequest(buffer[TASK_FS])
    \/ fs_phase = "called" /\ Free(TASK_FS) /\ (DiskBusy \/ DiskAnswering)
    \/ fs_phase = "receiving" /\ Waiting(TASK_FS, TASK_HARDDISK) /\ DiskBusy
    \/ fs_phase = "receiving" /\ Free(TASK_FS) /\ DiskFree

\* The drive and the driver.  Before the command the drive is idle and owes no
\* interrupt; a write goes on sector by sector, each with its own interrupt.
Silent == ~irq /\ ~has_int_msg[TASK_HARDDISK]
Quiet  == drive.status = "idle" /\ Silent

\* One interrupt has come: it is on the line, or recorded, or the driver has it.
Came ==
    IF hd_pc = "interrupted" /\ Free(TASK_HARDDISK)
    THEN Silent
    ELSE irq # has_int_msg[TASK_HARDDISK]

NotYet == Silent /\ ~(hd_pc = "interrupted" /\ Free(TASK_HARDDISK))

\* The sectors that the driver means to move with the command.
Due == IF goal = "transfer" THEN bytes_left ELSE 1

CommandFits ==
    \/ goal = "identify" /\ cmd.command = "IDENTIFY" /\ cmd.sector_count = 0
    \/ /\ goal \in {"primary", "extended"}
       /\ cmd.command = "READ" /\ cmd.sector_count = 1
    \/ /\ goal = "transfer" /\ bytes_left > 0
       /\ cmd.command \in {"READ", "WRITE"}

BeforeCommand ==
    /\ Quiet /\ CommandFits
    /\ cmd.command # "IDENTIFY" =>
          Due = IF cmd.sector_count = 0 THEN NSECTOR ELSE cmd.sector_count

InWrite ==
    /\ goal = "transfer" /\ cmd.command = "WRITE" /\ drive.command = "WRITE"
    /\ want = "DRQ" /\ bytes_left > 0

BeforeSector ==
    /\ InWrite /\ Silent /\ drive.left = bytes_left
    /\ drive.status \in {"busy", "drq"}

InRead ==
    /\ CommandFits /\ cmd.command # "WRITE" /\ drive.command = cmd.command
    /\ cmd.command = "READ" => drive.left = Due
    /\ \/ drive.status = "busy" /\ NotYet
       \/ drive.status = "drq" /\ Came

AfterSector ==
    /\ InWrite
    /\ \/ drive.status = "full" /\ NotYet /\ drive.left = bytes_left
       \/ /\ drive.left = bytes_left - 1 /\ Came
          /\ drive.status = IF drive.left = 0 THEN "idle" ELSE "drq"

DriveInStep ==
    /\ hd_pc \in {"receive", "received", "reply"} => Quiet
    /\ hd_pc \in {"start", "poll", "status", "timeout"} =>
          IF want = "DRQ" THEN BeforeSector ELSE BeforeCommand
    /\ hd_pc = "command" => BeforeCommand
    /\ hd_pc = "write" => BeforeSector /\ drive.status = "drq"
    /\ hd_pc \in {"interrupt", "interrupted"} => InRead \/ AfterSector

\* The driver has not seen the timeout before it was over.
OnTime ==
    /\ hd_pc = "timeout" => sys_tick_count - t >= HD_TIMEOUT
    /\ panicked => hd_pc = "timeout"

HIInv ==
    /\ KernelInv /\ HTypes /\ Partners
    /\ TicksInStep /\ RequestsInStep
    /\ DriveInStep /\ OnTime

-----------------------------------------------------------------------------
(* The tasks.                                                              *)

\* The tasks are three processes.
LEMMA Tasks ==
    /\ TASK_SYS \in Proc /\ TASK_HARDDISK \in Proc /\ TASK_FS \in Proc
    /\ TASK_SYS # TASK_HARDDISK /\ TASK_SYS # TASK_FS /\ TASK_HARDDISK # TASK_FS
    /\ TASK_HARDDISK \in Client /\ TASK_FS \in Client
  BY SysTaskAssumption, HardDiskAssumption DEF Client

-----------------------------------------------------------------------------
(* The driver by itself.                                                   *)

\* Nobody has called anybody yet.
LEMMA InitHIInv == HInit => HIInv
  <1> SUFFICES ASSUME HInit PROVE HIInv
    OBVIOUS
  <1>1. KernelInv /\ pending \in [Proc -> Proc \cup {SR_TARGET_NONE}]
    BY InitIInv DEF HInit, SInit, IInv, TypeOK
  <1>2. /\ \A p \in Proc : process_flags[p] = {} /\ ~has_int_msg[p]
                           /\ pending[p] = SR_TARGET_NONE
        /\ ~panicked
    BY DEF HInit, SInit, Init
  <1>3. /\ sys_tick_count = 0 /\ sys_pc = "receive"
        /\ phase = [c \in Client |-> "idle"] /\ asked = [c \in Client |-> 0]
        /\ hd_pc = "receive" /\ hd_msg = NoMsg /\ want = "not BSY" /\ t = 0
        /\ bytes_left = 0 /\ drive = IdleDrive /\ irq = FALSE /\ fs_phase = "idle"
    BY DEF HInit, SInit
  <1>4. HTypes
    <2>1. MaxTick \in Nat /\ hd_msg \in Message
      BY <1>3, Tasks, SysTaskAssumption DEF NoMsg, Message
    <2>2. drive.left = 0
      BY <1>3 DEF IdleDrive
    <2>3. sys_tick_count \in 0..MaxTick /\ t \in 0..sys_tick_count
      <3>1. sys_tick_count = 0 /\ t = 0
        BY <1>3
      <3> QED BY <2>1, <3>1
    <2>4. asked \in [Client -> 0..sys_tick_count]
      <3>1. sys_tick_count = 0 /\ asked = [c \in Client |-> 0]
        BY <1>3
      <3> QED BY <3>1
    <2>5. phase \in [Client -> {"idle", "called", "receiving"}]
      <3>1. phase = [c \in Client |-> "idle"]
        BY <1>3
      <3> QED BY <3>1
    <2>6. DOMAIN drive = DOMAIN IdleDrive /\ drive.left \in Nat
      <3>1. drive = IdleDrive
        BY <1>3
      <3> QED BY <2>2, <3>1
    <2> QED BY <1>1, <1>3, <2>1, <2>3, <2>4, <2>5, <2>6 DEF HTypes
  <1>5. \A p \in Proc : Free(p) /\ \A q : ~Offers(p, q)
    BY <1>2 DEF Free, Offers, Sending
  <1>6. Partners
    BY <1>2, <1>3, <1>5, Tasks DEF Partners
  <1>7. TicksInStep
    BY <1>3, <1>5, Tasks DEF TicksInStep, SysFree
  <1>8. RequestsInStep
    BY <1>3, <1>5, Tasks DEF RequestsInStep, DiskFree
  <1>9. DriveInStep
    <2>1. Quiet
      BY <1>2, <1>3, Tasks DEF Quiet, Silent, IdleDrive
    <2> QED BY <1>3, <2>1 DEF DriveInStep
  <1>10. OnTime
    BY <1>2, <1>3 DEF OnTime
  <1> QED BY <1>1, <1>4, <1>6, <1>7, <1>8, <1>9, <1>10 DEF HIInv

\* Where the driver is when it runs, other than in a call of get_ticks.
LEMMA DriverRuns ==
    ASSUME HIInv, NEW pc, HdRuns(pc), pc \notin {"start", "poll"}
    PROVE  /\ hd_pc = pc /\ Free(TASK_HARDDISK) /\ ~panicked
           /\ phase[TASK_HARDDISK] = "idle"
           /\ pc # "receive" =>
                 /\ \/ fs_phase = "called" /\ Free(TASK_FS)
                    \/ fs_phase = "receiving" /\ Waiting(TASK_FS, TASK_HARDDISK)
                 /\ IF pc = "received" THEN DiskRequest(buffer[TASK_HARDDISK])
                                        ELSE pc \in Working /\ DiskRequest(hd_msg)
  <1>1. hd_pc = pc /\ Free(TASK_HARDDISK) /\ ~panicked
    BY DEF HdRuns, Runnable, Free
  <1>2. phase[TASK_HARDDISK] = "idle"
    <2>1. phase[TASK_HARDDISK] \in {"idle", "called", "receiving"}
      BY Tasks DEF HIInv, HTypes
    <2> QED BY <1>1, <2>1 DEF HIInv, TicksInStep
  <1>3. KernelInv
    BY DEF HIInv
  <1>4. \A y : ~Waiting(TASK_HARDDISK, y) /\ ~Offers(TASK_HARDDISK, y)
    BY <1>1, <1>3, NotSending, Tasks DEF Offers
  <1>5. ASSUME pc # "receive"
        PROVE  ~DiskFree /\ ~DiskAnswering
    BY <1>1, <1>4, <1>5 DEF DiskFree, DiskAnswering
  <1>6. ASSUME pc # "receive"
        PROVE  /\ \/ fs_phase = "called" /\ Free(TASK_FS)
                  \/ fs_phase = "receiving" /\ Waiting(TASK_FS, TASK_HARDDISK)
               /\ DiskBusy
    BY <1>5, <1>6 DEF HIInv, RequestsInStep
  <1>7. ASSUME pc # "receive"
        PROVE  IF pc = "received" THEN DiskRequest(buffer[TASK_HARDDISK])
                                  ELSE pc \in Working /\ DiskRequest(hd_msg)
    BY <1>1, <1>6, <1>7 DEF DiskBusy, Working
  <1> QED BY <1>1, <1>2, <1>6, <1>7

\* A step of the driver that calls nobody: only what it knows of the drive counts.
LEMMA DriverStep ==
    ASSUME HIInv, NEW pc, HdRuns(pc), pc \notin {"start", "poll", "receive"},
           UNCHANGED <<svars, t, fs_phase>>,
           hd_pc' \in Working \ {"timeout"}, DiskRequest(hd_msg'), hd_msg' \in Message,
           want' \in {"not BSY", "DRQ"}, bytes_left' \in Nat,
           DOMAIN drive' = DOMAIN IdleDrive, drive'.left \in Nat, irq' \in BOOLEAN,
           DriveInStep'
    PROVE  HIInv'
  <1>1. /\ hd_pc = pc /\ Free(TASK_HARDDISK) /\ ~panicked
        /\ phase[TASK_HARDDISK] = "idle"
        /\ \/ fs_phase = "called" /\ Free(TASK_FS)
           \/ fs_phase = "receiving" /\ Waiting(TASK_FS, TASK_HARDDISK)
    BY DriverRuns
  <1>2. UNCHANGED <<kernelVars, buffer, pending, panicked, sys_tick_count, sys_pc, phase, asked>>
    BY DEF svars, vars
  <1>3. /\ \A x : Free(x)' <=> Free(x)
        /\ \A x, y : Waiting(x, y)' <=> Waiting(x, y)
        /\ \A x, y : Offers(x, y)' <=> Offers(x, y)
        /\ UNCHANGED has_int_msg
    BY <1>2, SameIpc
  <1>4. KernelInv'
    BY <1>2, SameKernelInv DEF HIInv, KernelInv, KernelTypeOK
  <1>5. HTypes'
    BY <1>2 DEF HIInv, HTypes
  <1>6. Partners'
    BY <1>2, <1>3 DEF HIInv, Partners
  <1>7. TicksInStep'
    <2>1. SysFree /\ ~Offers(TASK_HARDDISK, TASK_SYS)
      BY <1>1 DEF HIInv, TicksInStep
    <2>2. SysFree' /\ ~Offers(TASK_HARDDISK, TASK_SYS)'
      BY <1>2, <1>3, <2>1 DEF SysFree
    <2> QED BY <1>1, <1>2, <2>2 DEF TicksInStep
  <1>8. RequestsInStep'
    <2>1. DiskBusy'
      BY <1>1, <1>3 DEF DiskBusy, DiskRequest
    <2> QED BY <1>1, <1>3, <2>1 DEF RequestsInStep
  <1>9. OnTime'
    BY <1>1, <1>2 DEF OnTime
  <1> QED BY <1>4, <1>5, <1>6, <1>7, <1>8, <1>9 DEF HIInv

\* The status register lets the driver go on where the drive is ready.
LEMMA HdReadsStatusKeeps ==
    ASSUME HIInv, HdReadsStatus
    PROVE  HIInv'
  <1>1. /\ HdRuns("status")
        /\ hd_pc' = CASE ~Satisfied                  -> "poll"
                      [] Satisfied /\ want = "DRQ"   -> "write"
                      [] Satisfied /\ want = "not BSY" -> "command"
        /\ UNCHANGED <<svars, hd_msg, goal, cmd, want, t, bytes_left, harddisk_info,
                       scan, drive, irq, disk, fs_phase, mem, geo>>
    BY DEF HdReadsStatus, HdGoesTo, driveVars, fsVars
  <1>2. /\ hd_pc = "status" /\ DiskRequest(hd_msg)
    <2>1. HdRuns("status")
      BY <1>1
    <2> QED BY <2>1, DriverRuns
  <1>3. UNCHANGED has_int_msg
    BY <1>1 DEF svars, vars, kernelVars
  <1>4. /\ BeforeSector' <=> BeforeSector
        /\ BeforeCommand' <=> BeforeCommand
    BY <1>1, <1>3 DEF BeforeSector, BeforeCommand, InWrite, Silent, Quiet, CommandFits, Due
  <1>5. want \in {"not BSY", "DRQ"}
    BY DEF HIInv, HTypes
  <1>6. IF want = "DRQ" THEN BeforeSector ELSE BeforeCommand
    BY <1>2 DEF HIInv, DriveInStep
  <1>7. hd_pc' \in {"poll", "write", "command"} /\ DriveInStep'
    <2>1. CASE ~Satisfied
      BY <1>1, <1>4, <1>6, <2>1 DEF DriveInStep
    <2>2. CASE Satisfied /\ want = "DRQ"
      BY <1>1, <1>4, <1>6, <2>2 DEF DriveInStep, Satisfied
    <2>3. CASE Satisfied /\ want = "not BSY"
      <3>1. hd_pc' = "command"
        BY <1>1, <2>3
      <3> QED BY <1>4, <1>6, <2>3, <3>1 DEF DriveInStep
    <2> QED BY <1>5, <2>1, <2>2, <2>3
  <1> QED BY <1>1, <1>2, <1>7, DriverStep DEF Working, HIInv, HTypes

\* What a command makes of the drive.
LEMMA DriveCommandIs ==
    ASSUME DriveCommand(cmd)
    PROVE  /\ DOMAIN drive' = DOMAIN IdleDrive
           /\ drive'.status = "busy" /\ drive'.command = cmd.command
           /\ drive'.left = IF cmd.sector_count = 0 THEN NSECTOR ELSE cmd.sector_count
  BY DEF DriveCommand, IdleDrive

\* The command is written to an idle drive; a write then waits for DRQ.
LEMMA HdCommandOutKeeps ==
    ASSUME HIInv, HdCommandOut
    PROVE  HIInv'
  <1>1. /\ HdRuns("command") /\ DriveCommand(cmd)
        /\ IF cmd.command = "WRITE"
           THEN want' = "DRQ" /\ hd_pc' = "start"
           ELSE want' = want /\ hd_pc' = "interrupt"
        /\ UNCHANGED <<svars, hd_msg, goal, cmd, t, bytes_left, harddisk_info, scan,
                       irq, disk, fs_phase, mem, geo>>
    BY DEF HdCommandOut, HdGoesTo, fsVars
  <1>2. /\ hd_pc = "command" /\ DiskRequest(hd_msg)
    BY <1>1, DriverRuns
  <1>3. UNCHANGED has_int_msg
    BY <1>1 DEF svars, vars, kernelVars
  <1>4. /\ DOMAIN drive' = DOMAIN IdleDrive
        /\ drive'.status = "busy" /\ drive'.command = cmd.command
        /\ drive'.left = IF cmd.sector_count = 0 THEN NSECTOR ELSE cmd.sector_count
    BY <1>1, DriveCommandIs
  <1>5. BeforeCommand /\ bytes_left \in Nat
    BY <1>2 DEF HIInv, HTypes, DriveInStep
  <1>6. /\ Silent' /\ CommandFits /\ CommandFits' /\ Due' = Due
        /\ cmd.command # "IDENTIFY" => drive'.left = Due
    BY <1>1, <1>3, <1>4, <1>5 DEF BeforeCommand, Quiet, Silent, CommandFits, Due
  <1>7. drive'.left \in Nat
    <2>1. CASE cmd.command = "IDENTIFY"
      BY <1>4, <1>6, <2>1, HardDiskAssumption DEF CommandFits
    <2>2. CASE cmd.command # "IDENTIFY"
      BY <1>5, <1>6, <2>2 DEF Due
    <2> QED BY <2>1, <2>2
  <1>8. DriveInStep'
    <2>1. CASE cmd.command = "WRITE"
      <3>1. goal = "transfer" /\ bytes_left > 0
        BY <1>6, <2>1 DEF CommandFits
      <3>2. BeforeSector'
        BY <1>1, <1>4, <1>6, <2>1, <3>1 DEF BeforeSector, InWrite, Due
      <3> QED BY <1>1, <2>1, <3>2 DEF DriveInStep
    <2>2. CASE cmd.command # "WRITE"
      <3>1. cmd.command \in {"READ", "IDENTIFY"}
        BY <1>6, <2>2 DEF CommandFits
      <3>2. InRead'
        BY <1>1, <1>4, <1>6, <2>2, <3>1 DEF InRead, NotYet
      <3> QED BY <1>1, <2>2, <3>2 DEF DriveInStep
    <2> QED BY <2>1, <2>2
  <1> QED BY <1>1, <1>2, <1>4, <1>7, <1>8, DriverStep DEF Working, HIInv, HTypes

\* The drive is idle and the next command is prepared, or there is none.
LEMMA NextCommand ==
    ASSUME HIInv, NEW pc, HdRuns(pc), pc \notin {"start", "poll", "receive"},
           UNCHANGED <<svars, t, fs_phase>>,
           DiskRequest(hd_msg'), hd_msg' \in Message, bytes_left' \in Nat,
           DOMAIN drive' = DOMAIN IdleDrive, drive'.left \in Nat, irq' \in BOOLEAN,
           Quiet', want' \in {"not BSY", "DRQ"},
           hd_pc' = "reply" \/ (hd_pc' = "start" /\ want' = "not BSY" /\ BeforeCommand')
    PROVE  HIInv'
  <1>1. DriveInStep'
    BY DEF DriveInStep
  <1> QED BY <1>1, DriverStep DEF Working

\* A request is taken from the buffer, where it is one of the file system.
LEMMA HdHandlesKeeps ==
    ASSUME HIInv, HdHandles
    PROVE  HIInv'
  <1>1. HdRuns("received")
    BY DEF HdHandles
  <1>2. /\ hd_pc = "received" /\ DiskRequest(buffer[TASK_HARDDISK])
    BY <1>1, DriverRuns
  <1>3. harddisk_open \/ harddisk_close \/ harddisk_readwrite \/ harddisk_ioctl
    BY <1>2 DEF HdHandles, DiskRequest
  <1>4. /\ hd_msg' = buffer[TASK_HARDDISK]
        /\ UNCHANGED <<svars, t, scan, drive, irq, disk, fs_phase, mem>>
    BY <1>3 DEF harddisk_open, harddisk_close, harddisk_readwrite, harddisk_ioctl,
                Received, driveVars
  <1>5. UNCHANGED has_int_msg
    BY <1>4 DEF svars, vars, kernelVars
  <1>6. Quiet'
    BY <1>2, <1>4, <1>5 DEF HIInv, DriveInStep, Quiet, Silent
  <1>7. /\ hd_msg' \in Message /\ DiskRequest(hd_msg')
        /\ DOMAIN drive' = DOMAIN IdleDrive /\ drive'.left \in Nat /\ irq' \in BOOLEAN
        /\ want \in {"not BSY", "DRQ"} /\ bytes_left \in Nat
    BY <1>2, <1>4, Tasks DEF HIInv, HTypes, KernelInv, KernelTypeOK, DiskRequest
  <1>8. hd_msg'.body.count \in 1..NSECTOR /\ NSECTOR \in Nat \ {0}
    BY <1>7, HardDiskAssumption DEF DiskRequest
  <1>9. CASE harddisk_open
    <2>1. /\ cmd' = [command |-> "IDENTIFY", lba |-> 0, sector_count |-> 0]
          /\ goal' = "identify" /\ want' = "not BSY" /\ hd_pc' = "start"
          /\ UNCHANGED bytes_left
      BY <1>9 DEF harddisk_open, Commands, HdGoesTo
    <2>2. BeforeCommand'
      BY <1>6, <2>1 DEF BeforeCommand, CommandFits
    <2> QED BY <1>1, <1>4, <1>6, <1>7, <2>1, <2>2, NextCommand
  <1>10. CASE harddisk_close \/ harddisk_ioctl
    <2>1. hd_pc' = "reply" /\ UNCHANGED <<want, bytes_left>>
      BY <1>10 DEF harddisk_close, harddisk_ioctl, HdGoesTo
    <2> QED BY <1>1, <1>4, <1>6, <1>7, <2>1, NextCommand
  <1>11. CASE harddisk_readwrite
    <2> DEFINE n == hd_msg'.body.count
    <2>1. /\ cmd' = [command |-> IF request.type = "DEVREAD" THEN "READ" ELSE "WRITE",
                     lba |-> InfoOf(request.device).base + request.sector,
                     sector_count |-> request.count % NSECTOR]
          /\ goal' = "transfer" /\ want' = "not BSY" /\ hd_pc' = "start"
          /\ bytes_left' = n
      BY <1>11 DEF harddisk_readwrite, Commands, HdGoesTo, request
    <2>2. cmd'.command \in {"READ", "WRITE"} /\ cmd'.sector_count = n % NSECTOR
      BY <2>1 DEF request
    <2> HIDE DEF n
    <2>3. n \in 1..NSECTOR
      BY <1>8 DEF n
    <2>4. n = IF n % NSECTOR = 0 THEN NSECTOR ELSE n % NSECTOR
      <3>1. CASE n = NSECTOR
        BY <1>8, <3>1
      <3>2. CASE n # NSECTOR
        <4>1. n \in 0..NSECTOR - 1 /\ n # 0
          BY <1>8, <2>3, <3>2
        <4>2. n % NSECTOR = n
          BY <1>8, <4>1
        <4> QED BY <4>1, <4>2
      <3> QED BY <3>1, <3>2
    <2>5. bytes_left' \in Nat /\ bytes_left' > 0
      <3>1. bytes_left' = n
        BY <2>1
      <3> QED BY <1>8, <2>3, <3>1
    <2>6. BeforeCommand'
      <3>1. CommandFits' /\ Due' = n
        BY <2>1, <2>2, <2>5 DEF CommandFits, Due
      <3> QED BY <1>6, <2>2, <2>4, <3>1 DEF BeforeCommand
    <2> QED BY <1>1, <1>4, <1>6, <1>7, <2>1, <2>5, <2>6, NextCommand
  <1> QED BY <1>3, <1>9, <1>10, <1>11

\* When the driver goes on after an interrupt it is the one of its sector.
LEMMA SectorCame ==
    ASSUME HIInv, HdRuns("interrupted")
    PROVE  /\ hd_pc = "interrupted" /\ Silent /\ DiskRequest(hd_msg)
           /\ IF cmd.command = "WRITE"
              THEN /\ InWrite /\ drive.left = bytes_left - 1
                   /\ drive.status = IF drive.left = 0 THEN "idle" ELSE "drq"
              ELSE InRead /\ drive.status = "drq"
  <1>1. /\ hd_pc = "interrupted" /\ Free(TASK_HARDDISK) /\ DiskRequest(hd_msg)
    BY DriverRuns
  <1>2. (InRead \/ AfterSector) /\ ~NotYet /\ (Came => Silent)
    BY <1>1 DEF HIInv, DriveInStep, NotYet, Came
  <1>3. CASE cmd.command = "WRITE"
    BY <1>1, <1>2, <1>3 DEF InRead, AfterSector
  <1>4. CASE cmd.command # "WRITE"
    BY <1>1, <1>2, <1>4 DEF InRead, AfterSector, InWrite
  <1> QED BY <1>3, <1>4

\* The data of a command that is over, or of a sector before the last.
LEMMA DriveWasReadIs ==
    ASSUME DOMAIN drive = DOMAIN IdleDrive, drive.left \in Nat, DriveWasRead
    PROVE  /\ DOMAIN drive' = DOMAIN IdleDrive
           /\ IF drive.command = "READ" /\ drive.left > 1
              THEN /\ drive'.status = "busy" /\ drive'.command = "READ"
                   /\ drive'.left = drive.left - 1
              ELSE drive'.status = "idle" /\ drive'.left = 0
  <1>1. CASE drive.command = "READ" /\ drive.left > 1
    BY <1>1 DEF DriveWasRead, IdleDrive
  <1>2. CASE ~(drive.command = "READ" /\ drive.left > 1)
    BY <1>2 DEF DriveWasRead, IdleDrive
  <1> QED BY <1>1, <1>2

\* After IDENTIFY the drive is idle, whether or not the tables are to be read.
LEMMA HdIdentifiesKeeps ==
    ASSUME HIInv, HdIdentifies
    PROVE  HIInv'
  <1>1. /\ HdRuns("interrupted") /\ goal = "identify" /\ DriveWasRead
        /\ UNCHANGED <<svars, hd_msg, t, bytes_left, irq, fs_phase>>
        /\ \/ GetTable(0, "primary")
           \/ hd_pc' = "reply" /\ UNCHANGED want
    BY DEF HdIdentifies, Interrupted, HdGoesTo, fsVars
  <1>2. Silent /\ DiskRequest(hd_msg) /\ InRead
    BY <1>1, SectorCame DEF InWrite
  <1>3. drive.command = "IDENTIFY"
    BY <1>1, <1>2 DEF InRead, CommandFits
  <1>4. DOMAIN drive' = DOMAIN IdleDrive /\ drive'.status = "idle" /\ drive'.left = 0
    BY <1>1, <1>3, DriveWasReadIs DEF HIInv, HTypes
  <1>5. Quiet'
    BY <1>1, <1>2, <1>4 DEF Quiet, Silent, svars, vars, kernelVars
  <1>6. /\ hd_msg \in Message /\ bytes_left \in Nat /\ irq \in BOOLEAN
        /\ want \in {"not BSY", "DRQ"}
    BY DEF HIInv, HTypes
  <1>7. /\ UNCHANGED <<svars, t, fs_phase>>
        /\ hd_msg' \in Message /\ bytes_left' \in Nat /\ irq' \in BOOLEAN
        /\ DiskRequest(hd_msg') /\ drive'.left \in Nat
    <2>1. drive'.left \in Nat
      BY <1>4
    <2>2. DiskRequest(hd_msg')
      BY <1>1, <1>2 DEF DiskRequest
    <2> QED BY <1>1, <1>6, <2>1, <2>2
  <1>8. HdRuns("interrupted")
    BY <1>1
  <1>9. CASE GetTable(0, "primary")
    <2>1. /\ cmd' = [command |-> "READ", lba |-> 0, sector_count |-> 1]
          /\ goal' = "primary" /\ want' = "not BSY" /\ hd_pc' = "start"
      BY <1>9 DEF GetTable, Commands, HdGoesTo
    <2>2. cmd'.command = "READ" /\ cmd'.sector_count = 1
      BY <2>1
    <2>3. CommandFits' /\ Due' = 1
      BY <2>1, <2>2 DEF CommandFits, Due
    <2>4. BeforeCommand'
      BY <1>5, <2>2, <2>3 DEF BeforeCommand
    <2>5. hd_pc' = "start" /\ want' = "not BSY"
      BY <2>1
    <2> QED BY <1>4, <1>5, <1>7, <1>8, <2>4, <2>5, NextCommand
  <1>10. CASE hd_pc' = "reply" /\ UNCHANGED want
    <2>1. want' \in {"not BSY", "DRQ"}
      BY <1>6, <1>10
    <2> QED BY <1>4, <1>5, <1>7, <1>8, <1>10, <2>1, NextCommand
  <1> QED BY <1>1, <1>9, <1>10

\* A table is one sector: when it was read the drive is idle.
LEMMA TableWasRead ==
    ASSUME HIInv, HdRuns("interrupted"), goal \in {"primary", "extended"}, DriveWasRead,
           UNCHANGED <<svars, hd_msg, t, bytes_left, irq, fs_phase>>,
           \/ \E lba : GetTable(lba, "extended")
           \/ hd_pc' = "reply" /\ UNCHANGED want
    PROVE  HIInv'
  <1>1. Silent /\ DiskRequest(hd_msg) /\ InRead
    BY SectorCame DEF InWrite
  <1>2. drive.left = 1
    BY <1>1 DEF InRead, CommandFits, Due
  <1>3. DOMAIN drive' = DOMAIN IdleDrive /\ drive'.status = "idle" /\ drive'.left = 0
    <2>1. DOMAIN drive = DOMAIN IdleDrive /\ drive.left \in Nat
      BY DEF HIInv, HTypes
    <2>2. ~(drive.left > 1)
      BY <1>2
    <2> QED BY <2>1, <2>2, DriveWasReadIs
  <1>4. Quiet'
    BY <1>1, <1>3 DEF Quiet, Silent, svars, vars, kernelVars
  <1>5. /\ hd_msg \in Message /\ bytes_left \in Nat /\ irq \in BOOLEAN
        /\ want \in {"not BSY", "DRQ"}
    BY DEF HIInv, HTypes
  <1>6. /\ hd_msg' \in Message /\ bytes_left' \in Nat /\ irq' \in BOOLEAN
        /\ DiskRequest(hd_msg') /\ drive'.left \in Nat
    <2>1. drive'.left \in Nat
      BY <1>3
    <2>2. DiskRequest(hd_msg')
      BY <1>1 DEF DiskRequest
    <2> QED BY <1>5, <2>1, <2>2
  <1>7. ASSUME NEW lba, GetTable(lba, "extended")
        PROVE  HIInv'
    <2>1. /\ cmd' = [command |-> "READ", lba |-> lba, sector_count |-> 1]
          /\ goal' = "extended" /\ want' = "not BSY" /\ hd_pc' = "start"
      BY <1>7 DEF GetTable, Commands, HdGoesTo
    <2>2. cmd'.command = "READ" /\ cmd'.sector_count = 1
      BY <2>1
    <2>3. CommandFits' /\ Due' = 1
      BY <2>1, <2>2 DEF CommandFits, Due
    <2>4. BeforeCommand'
      BY <1>4, <2>2, <2>3 DEF BeforeCommand
    <2>5. hd_pc' = "start" /\ want' = "not BSY"
      BY <2>1
    <2> QED BY <1>3, <1>4, <1>6, <2>4, <2>5, NextCommand
  <1>8. CASE hd_pc' = "reply" /\ UNCHANGED want
    <2>1. want' \in {"not BSY", "DRQ"}
      BY <1>5, <1>8
    <2> QED BY <1>3, <1>4, <1>6, <1>8, <2>1, NextCommand
  <1> QED BY <1>7, <1>8

\* The walk over the tables reads one more, or is over.
LEMMA TablesKeep ==
    ASSUME HIInv, HdReadsPrimary \/ HdReadsExtended
    PROVE  HIInv'
  <1>1. ASSUME NEW table, NEW first, NEW info, ScanPrimary(table, first, info)
        PROVE  \/ \E lba : GetTable(lba, "extended")
               \/ hd_pc' = "reply" /\ UNCHANGED want
    BY <1>1 DEF ScanPrimary, HdGoesTo
  <1>2. CASE HdReadsPrimary
    <2>1. /\ HdRuns("interrupted") /\ goal = "primary" /\ DriveWasRead
          /\ UNCHANGED <<svars, hd_msg, t, bytes_left, irq, fs_phase>>
          /\ ScanPrimary(Table[drive.lba], 1, harddisk_info)
      BY <1>2 DEF HdReadsPrimary, Interrupted, fsVars
    <2> QED BY <1>1, <2>1, TableWasRead
  <1>3. CASE HdReadsExtended
    <2>1. /\ HdRuns("interrupted") /\ goal = "extended" /\ DriveWasRead
          /\ UNCHANGED <<svars, hd_msg, t, bytes_left, irq, fs_phase>>
          /\ ScanExtended(Table[drive.lba], harddisk_info.primary[scan.part].base)
      BY <1>3 DEF HdReadsExtended, Interrupted, fsVars
    <2>2. ASSUME NEW entries, NEW base, NEW next, RecordsLogical(entries, base, next)
          PROVE  \/ \E lba : GetTable(lba, "extended")
                 \/ hd_pc' = "reply" /\ UNCHANGED want
      BY <1>1, <2>2 DEF RecordsLogical
    <2>3. \/ \E lba : GetTable(lba, "extended")
          \/ hd_pc' = "reply" /\ UNCHANGED want
      BY <2>1, <2>2 DEF ScanExtended
    <2> QED BY <2>1, <2>3, TableWasRead
  <1> QED BY <1>2, <1>3

\* A sector was read: the drive goes on to the next one, if one is due.
LEMMA HdReadsSectorKeeps ==
    ASSUME HIInv, HdReadsSector
    PROVE  HIInv'
  <1>1. /\ HdRuns("interrupted") /\ goal = "transfer" /\ cmd.command = "READ"
        /\ DriveWasRead /\ bytes_left' = bytes_left - 1
        /\ hd_pc' = IF bytes_left = 1 THEN "reply" ELSE "interrupt"
        /\ UNCHANGED <<svars, hd_msg, t, goal, cmd, want, irq, fs_phase>>
    BY DEF HdReadsSector, Interrupted, OneSectorLess, HdGoesTo
  <1>2. Silent /\ DiskRequest(hd_msg) /\ InRead
    BY <1>1, SectorCame
  <1>3. drive.command = "READ" /\ drive.left = bytes_left /\ bytes_left > 0
    BY <1>1, <1>2 DEF InRead, CommandFits, Due
  <1>4. /\ bytes_left \in Nat /\ drive.left \in Nat /\ DOMAIN drive = DOMAIN IdleDrive
        /\ want \in {"not BSY", "DRQ"} /\ irq \in BOOLEAN /\ hd_msg \in Message
    BY DEF HIInv, HTypes
  <1>5. bytes_left - 1 \in Nat /\ (bytes_left # 1 => bytes_left > 1 /\ bytes_left - 1 > 0)
    <2>1. bytes_left \in Nat /\ bytes_left > 0
      BY <1>3, <1>4
    <2> QED BY <2>1
  <1>6. Silent'
    BY <1>1, <1>2 DEF Silent, svars, vars, kernelVars
  <1>7. HdRuns("interrupted") /\ UNCHANGED <<svars, t, fs_phase>>
    BY <1>1
  <1>8. /\ hd_msg' \in Message /\ bytes_left' \in Nat /\ irq' \in BOOLEAN
        /\ DiskRequest(hd_msg') /\ want' \in {"not BSY", "DRQ"}
    BY <1>1, <1>2, <1>4, <1>5
  <1>9. CASE bytes_left = 1
    <2>1. ~(drive.left > 1)
      BY <1>3, <1>9
    <2>2. DOMAIN drive' = DOMAIN IdleDrive /\ drive'.status = "idle" /\ drive'.left = 0
      BY <1>1, <1>4, <2>1, DriveWasReadIs
    <2>3. Quiet' /\ hd_pc' = "reply" /\ drive'.left \in Nat
      BY <1>1, <1>6, <1>9, <2>2 DEF Quiet
    <2> QED BY <1>7, <1>8, <2>2, <2>3, NextCommand
  <1>10. CASE bytes_left # 1
    <2>1. drive.left > 1
      BY <1>3, <1>5, <1>10
    <2>2. /\ DOMAIN drive' = DOMAIN IdleDrive
          /\ drive'.status = "busy" /\ drive'.command = "READ"
          /\ drive'.left = drive.left - 1
      BY <1>1, <1>3, <1>4, <2>1, DriveWasReadIs
    <2>3. hd_pc' = "interrupt"
      BY <1>1, <1>10
    <2>4. bytes_left' > 0 /\ drive'.left = bytes_left' /\ drive'.left \in Nat
      BY <1>1, <1>3, <1>5, <1>10, <2>2
    <2>5. CommandFits' /\ Due' = bytes_left'
      BY <1>1, <2>4 DEF CommandFits, Due
    <2>6. NotYet'
      BY <1>6, <2>3 DEF NotYet
    <2>7. InRead'
      BY <1>1, <2>2, <2>4, <2>5, <2>6 DEF InRead
    <2>8. DriveInStep'
      BY <2>3, <2>7 DEF DriveInStep
    <2>9. hd_pc' \in Working \ {"timeout"}
      BY <2>3 DEF Working
    <2> QED BY <1>7, <1>8, <2>2, <2>4, <2>8, <2>9, DriverStep
  <1> QED BY <1>9, <1>10

\* The drive takes a sector to be written.
LEMMA HdWritesSectorKeeps ==
    ASSUME HIInv, HdWritesSector
    PROVE  HIInv'
  <1>1. /\ HdRuns("write") /\ hd_pc' = "interrupt"
        /\ drive' = [drive EXCEPT !.status = "full", !.held = mem[la]]
        /\ UNCHANGED <<svars, hd_msg, goal, cmd, want, t, bytes_left, irq, fs_phase>>
    BY DEF HdWritesSector, DriveWasWritten, HdGoesTo, fsVars
  <1>2. hd_pc = "write" /\ DiskRequest(hd_msg)
    BY <1>1, DriverRuns
  <1>3. BeforeSector
    BY <1>2 DEF HIInv, DriveInStep
  <1>4. DOMAIN drive = DOMAIN IdleDrive /\ drive.left \in Nat
    BY DEF HIInv, HTypes
  <1>5. /\ DOMAIN drive' = DOMAIN IdleDrive
        /\ drive'.status = "full" /\ drive'.left = drive.left
        /\ drive'.command = drive.command
    BY <1>1, <1>4 DEF IdleDrive
  <1>6. Silent'
    BY <1>1, <1>3 DEF BeforeSector, Silent, svars, vars, kernelVars
  <1>7. AfterSector'
    BY <1>1, <1>3, <1>5, <1>6 DEF AfterSector, BeforeSector, InWrite, NotYet
  <1>8. DriveInStep'
    BY <1>1, <1>7 DEF DriveInStep
  <1> QED BY <1>1, <1>2, <1>4, <1>5, <1>8, DriverStep DEF Working, HIInv, HTypes

\* A sector was written: the drive asks for the next one already, if one is due.
LEMMA HdWroteSectorKeeps ==
    ASSUME HIInv, HdWroteSector
    PROVE  HIInv'
  <1>1. /\ HdRuns("interrupted") /\ goal = "transfer" /\ cmd.command = "WRITE"
        /\ bytes_left' = bytes_left - 1
        /\ hd_pc' = IF bytes_left = 1 THEN "reply" ELSE "start"
        /\ UNCHANGED <<svars, hd_msg, t, goal, cmd, want, drive, irq, fs_phase>>
    BY DEF HdWroteSector, Interrupted, OneSectorLess, HdGoesTo, driveVars, fsVars
  <1>2. /\ Silent /\ DiskRequest(hd_msg) /\ InWrite /\ drive.left = bytes_left - 1
        /\ drive.status = IF drive.left = 0 THEN "idle" ELSE "drq"
    BY <1>1, SectorCame
  <1>3. /\ bytes_left \in Nat /\ bytes_left > 0
        /\ DOMAIN drive = DOMAIN IdleDrive /\ drive.left \in Nat
        /\ want = "DRQ" /\ irq \in BOOLEAN /\ hd_msg \in Message
    BY <1>2 DEF InWrite, HIInv, HTypes
  <1>4. Silent' /\ bytes_left' \in Nat
    BY <1>1, <1>2, <1>3 DEF Silent, svars, vars, kernelVars
  <1>5. CASE bytes_left = 1
    <2>1. Quiet' /\ hd_pc' = "reply"
      BY <1>1, <1>2, <1>4, <1>5 DEF Quiet
    <2> QED BY <1>1, <1>2, <1>3, <1>4, <2>1, NextCommand
  <1>6. CASE bytes_left # 1
    <2>1. hd_pc' = "start" /\ drive.status = "drq" /\ bytes_left' > 0
      BY <1>1, <1>2, <1>3, <1>6
    <2>2. BeforeSector'
      BY <1>1, <1>2, <1>4, <2>1 DEF BeforeSector, InWrite
    <2>3. DriveInStep'
      BY <1>1, <1>3, <2>1, <2>2 DEF DriveInStep
    <2> QED BY <1>1, <1>2, <1>3, <1>4, <2>1, <2>3, DriverStep DEF Working
  <1> QED BY <1>5, <1>6

-----------------------------------------------------------------------------
(* The calls of get_ticks.                                                 *)

\* A step that neither moves the driver nor touches the drive leaves what they
\* know of each other.
LEMMA SameDrive ==
    ASSUME DriveInStep, UNCHANGED <<hdVars, driveVars, has_int_msg>>,
           hd_pc = "interrupted" => (Free(TASK_HARDDISK)' <=> Free(TASK_HARDDISK))
    PROVE  DriveInStep'
  <1>1. UNCHANGED <<hd_pc, goal, cmd, want, bytes_left, drive, irq, has_int_msg>>
    BY DEF hdVars, driveVars
  <1>2. /\ BeforeSector' <=> BeforeSector
        /\ BeforeCommand' <=> BeforeCommand
        /\ Quiet' <=> Quiet
    BY <1>1 DEF BeforeSector, BeforeCommand, InWrite, Quiet, Silent, CommandFits, Due
  <1>3. /\ NotYet' <=> NotYet
        /\ Came' <=> Came
    BY <1>1 DEF NotYet, Came, Silent
  <1>4. /\ InRead' <=> InRead
        /\ AfterSector' <=> AfterSector
    BY <1>1, <1>3 DEF InRead, AfterSector, InWrite, CommandFits, Due
  <1> QED BY <1>1, <1>2, <1>4 DEF DriveInStep

\* A step that leaves the file system and its messages, while the driver stays
\* where it was or is in a call of get_ticks.
LEMMA SameRequests ==
    ASSUME RequestsInStep, UNCHANGED <<hd_msg, fs_phase>>,
           Free(TASK_FS)' <=> Free(TASK_FS),
           Waiting(TASK_FS, TASK_HARDDISK)' <=> Waiting(TASK_FS, TASK_HARDDISK),
           \/ /\ hd_pc \in {"start", "poll"} /\ hd_pc' \in Working
              /\ Free(TASK_HARDDISK)' \/ phase'[TASK_HARDDISK] # "idle"
           \/ /\ UNCHANGED hd_pc
              /\ phase[TASK_HARDDISK] # "idle" => phase'[TASK_HARDDISK] # "idle"
              /\ Offers(TASK_HARDDISK, TASK_FS)' <=> Offers(TASK_HARDDISK, TASK_FS)
              /\ Offers(TASK_FS, TASK_HARDDISK)' <=> Offers(TASK_FS, TASK_HARDDISK)
              /\ buffer'[TASK_FS] = buffer[TASK_FS]
              /\ Free(TASK_HARDDISK)' <=> Free(TASK_HARDDISK)
              /\ \A y : Waiting(TASK_HARDDISK, y)' <=> Waiting(TASK_HARDDISK, y)
              /\ buffer'[TASK_HARDDISK] = buffer[TASK_HARDDISK]
    PROVE  RequestsInStep'
  <1>1. CASE /\ hd_pc \in {"start", "poll"} /\ hd_pc' \in Working
             /\ Free(TASK_HARDDISK)' \/ phase'[TASK_HARDDISK] # "idle"
    <2>1. ~DiskFree /\ ~DiskAnswering
      BY <1>1 DEF DiskFree, DiskAnswering
    <2>2. /\ \/ fs_phase = "called" /\ Free(TASK_FS)
             \/ fs_phase = "receiving" /\ Waiting(TASK_FS, TASK_HARDDISK)
          /\ DiskBusy
      BY <2>1 DEF RequestsInStep
    <2>3. DiskRequest(hd_msg)
      BY <1>1, <2>2 DEF DiskBusy
    <2>4. DiskBusy'
      BY <1>1, <2>3 DEF DiskBusy, DiskRequest
    <2> QED BY <2>2, <2>4 DEF RequestsInStep
  <1>2. CASE /\ UNCHANGED hd_pc
             /\ phase[TASK_HARDDISK] # "idle" => phase'[TASK_HARDDISK] # "idle"
             /\ Offers(TASK_HARDDISK, TASK_FS)' <=> Offers(TASK_HARDDISK, TASK_FS)
             /\ Offers(TASK_FS, TASK_HARDDISK)' <=> Offers(TASK_FS, TASK_HARDDISK)
             /\ buffer'[TASK_FS] = buffer[TASK_FS]
             /\ Free(TASK_HARDDISK)' <=> Free(TASK_HARDDISK)
             /\ \A y : Waiting(TASK_HARDDISK, y)' <=> Waiting(TASK_HARDDISK, y)
             /\ buffer'[TASK_HARDDISK] = buffer[TASK_HARDDISK]
    <2>1. (DiskFree => DiskFree') /\ (DiskAnswering => DiskAnswering')
      BY <1>2 DEF DiskFree, DiskAnswering
    <2>2. DiskBusy => DiskBusy'
      BY <1>2 DEF DiskBusy, DiskRequest
    <2>3. /\ UNCHANGED fs_phase
          /\ DiskRequest(buffer[TASK_FS]) => DiskRequest(buffer[TASK_FS])'
      BY <1>2 DEF DiskRequest
    <2> QED BY <1>2, <2>1, <2>2, <2>3 DEF RequestsInStep
  <1> QED BY <1>1, <1>2

\* Where the driver and the system task are while one of them calls the other:
\* a process that is free, waits or is blocked sending is not two of them.
LEMMA TicksCases ==
    ASSUME HIInv
    PROVE  /\ phase[TASK_HARDDISK] \in {"idle", "called", "receiving"}
           /\ SysFree => ~SysBusy /\ ~SysAnswering /\ ~Sending(TASK_SYS)
           /\ sys_pc = "receive" /\ Free(TASK_SYS) => ~SysBusy /\ ~SysAnswering
           /\ sys_pc # "receive" /\ Free(TASK_SYS) =>
                 SysBusy /\ phase[TASK_HARDDISK] # "idle"
           /\ Offers(TASK_HARDDISK, TASK_SYS) =>
                 /\ phase[TASK_HARDDISK] = "called" /\ SysFree
                 /\ buffer[TASK_HARDDISK] = TicksRequest
  <1>1. phase[TASK_HARDDISK] \in {"idle", "called", "receiving"} /\ KernelInv /\ TicksInStep
    BY Tasks DEF HIInv, HTypes
  <1>2. /\ Free(TASK_SYS) => ~Sending(TASK_SYS)
        /\ \A y : Waiting(TASK_SYS, y) => ~Sending(TASK_SYS) /\ ~Free(TASK_SYS)
        /\ Sending(TASK_HARDDISK) =>
              ~Free(TASK_HARDDISK) /\ ~Waiting(TASK_HARDDISK, TASK_SYS)
        /\ Sending(TASK_SYS) => ~Free(TASK_SYS)
    BY <1>1, NotSending, Tasks
  <1>3. SysFree => ~SysBusy /\ ~SysAnswering /\ ~Sending(TASK_SYS)
    BY <1>2 DEF SysFree, SysBusy, SysAnswering, Offers
  <1>4. sys_pc = "receive" /\ Free(TASK_SYS) => ~SysBusy /\ ~SysAnswering
    BY <1>2 DEF SysBusy, SysAnswering, Offers
  <1>5. sys_pc # "receive" /\ Free(TASK_SYS) => ~SysFree /\ ~SysAnswering
    BY <1>2 DEF SysFree, SysAnswering
  <1>6. sys_pc # "receive" /\ Free(TASK_SYS) =>
           SysBusy /\ phase[TASK_HARDDISK] # "idle"
    BY <1>1, <1>5 DEF TicksInStep
  <1>7. Offers(TASK_HARDDISK, TASK_SYS) =>
           /\ phase[TASK_HARDDISK] = "called" /\ SysFree
           /\ buffer[TASK_HARDDISK] = TicksRequest
    BY <1>1, <1>2 DEF TicksInStep, Offers
  <1> QED BY <1>1, <1>3, <1>4, <1>6, <1>7

\* task_sys takes the request of the driver, or goes on waiting.
LEMMA SysReceiveKeeps ==
    ASSUME HIInv, SysReceive, UNCHANGED <<hdVars, driveVars, fsVars>>
    PROVE  HIInv'
  <1>1. /\ sys_pc = "receive" /\ sys_pc' = "received"
        /\ Free(TASK_SYS) /\ ~panicked /\ UNCHANGED pending
        /\ message_receive(TASK_SYS, SR_TARGET_ANY, [source |-> TASK_SYS, body |-> Zeroed])
        /\ UNCHANGED <<sys_tick_count, phase, asked>>
    BY DEF SysReceive, Receive, Runnable, Free
  <1>2. UNCHANGED <<hd_pc, hd_msg, t, want, bytes_left, drive, irq, fs_phase>>
    BY DEF hdVars, driveVars, fsVars
  <1>3. /\ KernelInv /\ ~has_int_msg[TASK_SYS]
        /\ [source |-> TASK_SYS, body |-> Zeroed] \in Message
        /\ SR_TARGET_ANY \in (Proc \ {TASK_SYS}) \cup {SR_TARGET_ANY, SR_TARGET_INTERRUPT}
    BY Tasks DEF HIInv, Partners, Message
  <1>4. phase[TASK_HARDDISK] \in {"idle", "called", "receiving"} /\ ~SysBusy /\ ~SysAnswering
    BY <1>1, TicksCases
  <1>5. /\ KernelInv'
        /\ UNCHANGED <<has_int_msg, panicked>>
        /\ \A x \in Proc \ {TASK_SYS} : buffer'[x] = buffer[x]
        /\ \/ \E sender \in Proc :
                 /\ Offers(sender, TASK_SYS) /\ SR_TARGET_ANY \in {sender, SR_TARGET_ANY}
                 /\ Free(TASK_SYS)' /\ Free(sender)' /\ buffer'[TASK_SYS] = buffer[sender]
                 /\ SameBut(sender)
                 /\ \A x, y \in Proc :
                       Offers(x, y)' <=> Offers(x, y) /\ x # sender
           \/ /\ \A x \in Proc : Offers(x, TASK_SYS) =>
                    SR_TARGET_ANY \notin {x, SR_TARGET_ANY}
              /\ Waiting(TASK_SYS, SR_TARGET_ANY)'
              /\ SameBut(TASK_SYS)
              /\ \A x, y \in Proc : Offers(x, y)' <=> Offers(x, y)
    BY <1>1, <1>3, ReceiveOutcome, Tasks
  <1>6. HTypes'
    <2>1. UNCHANGED pending /\ UNCHANGED <<sys_tick_count, phase, asked>>
      BY <1>1
    <2> QED BY <1>2, <2>1 DEF HIInv, HTypes
  <1>7. Partners'
    <2>1. \A x, y \in Proc : Offers(x, y)' => Offers(x, y)
      BY <1>5
    <2>2. UNCHANGED <<has_int_msg, phase, pending, fs_phase>>
      BY <1>1, <1>2, <1>5
    <2> QED BY <2>1, <2>2 DEF HIInv, Partners
  <1>8. OnTime'
    BY <1>1, <1>2, <1>5 DEF HIInv, OnTime
  <1>9. CASE \E x \in Proc : Offers(x, TASK_SYS)
    <2>1. Offers(TASK_HARDDISK, TASK_SYS)
      BY <1>9, Tasks DEF HIInv, Partners
    <2>2. /\ phase[TASK_HARDDISK] = "called" /\ buffer[TASK_HARDDISK] = TicksRequest
      BY <2>1, TicksCases
    <2>3. PICK sender \in Proc :
                 /\ Offers(sender, TASK_SYS)
                 /\ Free(TASK_SYS)' /\ Free(sender)' /\ buffer'[TASK_SYS] = buffer[sender]
                 /\ SameBut(sender)
                 /\ \A x, y \in Proc :
                       Offers(x, y)' <=> Offers(x, y) /\ x # sender
      BY <1>5, <1>9
    <2>4. sender = TASK_HARDDISK
      BY <2>3, Tasks DEF HIInv, Partners
    <2>5. Free(TASK_SYS)' /\ Free(TASK_HARDDISK)' /\ buffer'[TASK_SYS] = TicksRequest
      BY <2>2, <2>3, <2>4
    <2>6. SysBusy'
      BY <1>1, <2>5 DEF SysBusy, TicksRequest
    <2>7. hd_pc \in {"start", "poll"}
      BY <2>2 DEF HIInv, TicksInStep
    <2>8. TicksInStep'
      BY <1>1, <1>2, <2>2, <2>5, <2>6, <2>7 DEF TicksInStep
    <2>9. RequestsInStep'
      <3>1. /\ Free(TASK_FS)' <=> Free(TASK_FS)
            /\ Waiting(TASK_FS, TASK_HARDDISK)' <=> Waiting(TASK_FS, TASK_HARDDISK)
        BY <2>3, <2>4, Tasks DEF SameBut
      <3>2. hd_pc' \in Working /\ UNCHANGED <<hd_msg, fs_phase>> /\ RequestsInStep
        BY <1>2, <2>7 DEF Working, HIInv
      <3> QED BY <2>5, <2>7, <3>1, <3>2, SameRequests
    <2>10. DriveInStep'
      BY <1>5, <2>7, SameDrive DEF HIInv
    <2> QED BY <1>5, <1>6, <1>7, <1>8, <2>8, <2>9, <2>10 DEF HIInv
  <1>10. CASE ~\E x \in Proc : Offers(x, TASK_SYS)
    <2>1. /\ Waiting(TASK_SYS, SR_TARGET_ANY)'
          /\ SameBut(TASK_SYS)
          /\ \A x, y \in Proc : Offers(x, y)' <=> Offers(x, y)
      BY <1>5, <1>10
    <2>2. /\ Free(TASK_HARDDISK)' <=> Free(TASK_HARDDISK)
          /\ \A y : Waiting(TASK_HARDDISK, y)' <=> Waiting(TASK_HARDDISK, y)
          /\ Free(TASK_FS)' <=> Free(TASK_FS)
          /\ Waiting(TASK_FS, TASK_HARDDISK)' <=> Waiting(TASK_FS, TASK_HARDDISK)
          /\ buffer'[TASK_HARDDISK] = buffer[TASK_HARDDISK]
          /\ buffer'[TASK_FS] = buffer[TASK_FS]
      BY <1>5, <2>1, Tasks DEF SameBut
    <2>3. /\ Offers(TASK_HARDDISK, TASK_SYS)' <=> Offers(TASK_HARDDISK, TASK_SYS)
          /\ Offers(TASK_HARDDISK, TASK_FS)' <=> Offers(TASK_HARDDISK, TASK_FS)
          /\ Offers(TASK_FS, TASK_HARDDISK)' <=> Offers(TASK_FS, TASK_HARDDISK)
      BY <2>1, Tasks
    <2>4. SysFree'
      BY <1>1, <2>1 DEF SysFree
    <2>5. FreshAnswer(buffer[TASK_HARDDISK], TASK_SYS)
             => FreshAnswer(buffer[TASK_HARDDISK], TASK_SYS)'
      BY <1>1, <2>2 DEF FreshAnswer
    <2>6. TicksInStep'
      <3>1. TicksInStep
        BY DEF HIInv
      <3>2. (phase[TASK_HARDDISK] # "idle" => hd_pc \in {"start", "poll"})
             /\ UNCHANGED <<hd_pc, phase>>
        BY <1>1, <1>2, <3>1 DEF TicksInStep
      <3>3. CASE phase[TASK_HARDDISK] = "idle"
        BY <2>3, <2>4, <3>1, <3>2, <3>3 DEF TicksInStep
      <3>4. CASE phase[TASK_HARDDISK] = "called"
        BY <1>4, <2>2, <2>3, <2>4, <3>1, <3>2, <3>4 DEF TicksInStep, TicksRequest
      <3>5. CASE phase[TASK_HARDDISK] = "receiving"
        BY <1>4, <2>2, <2>4, <2>5, <3>1, <3>2, <3>5 DEF TicksInStep
      <3> QED BY <1>4, <3>3, <3>4, <3>5
    <2>7. RequestsInStep'
      BY <1>1, <1>2, <2>2, <2>3, SameRequests DEF HIInv
    <2>8. DriveInStep'
      BY <1>5, <2>2, SameDrive DEF HIInv
    <2> QED BY <1>5, <1>6, <1>7, <1>8, <2>6, <2>7, <2>8 DEF HIInv
  <1> QED BY <1>9, <1>10

\* task_sys writes the count over the request of the driver: there is no other
\* request, and so no panic.
LEMMA SysHandleKeeps ==
    ASSUME HIInv, SysHandle, UNCHANGED <<hdVars, driveVars, fsVars>>
    PROVE  HIInv'
  <1>1. /\ sys_pc = "received" /\ Free(TASK_SYS)
        /\ UNCHANGED <<kernelVars, pending, sys_tick_count, phase, asked>>
        /\ IF buffer[TASK_SYS].body = GetTicksRequest
           THEN /\ buffer' = [buffer EXCEPT ![TASK_SYS].body = Answer(sys_tick_count)]
                /\ sys_pc' = "send"
                /\ UNCHANGED panicked
           ELSE /\ panicked' = TRUE
                /\ UNCHANGED <<buffer, sys_pc>>
    BY DEF SysHandle, SysAnswers, Runnable, Free
  <1>2. UNCHANGED <<hd_pc, hd_msg, t, want, bytes_left, drive, irq, fs_phase>>
    BY DEF hdVars, driveVars, fsVars
  <1>3. SysBusy /\ phase[TASK_HARDDISK] # "idle"
    BY <1>1, TicksCases
  <1>4. buffer[TASK_SYS] = TicksRequest
    BY <1>1, <1>3 DEF SysBusy
  <1>5. buffer[TASK_SYS].body = GetTicksRequest
    BY <1>4 DEF TicksRequest
  <1>6. /\ buffer' = [buffer EXCEPT ![TASK_SYS].body = Answer(sys_tick_count)]
        /\ sys_pc' = "send" /\ UNCHANGED panicked
    BY <1>1, <1>5
  <1>7. KernelInv /\ buffer \in [Proc -> Message]
    BY DEF HIInv, KernelInv, KernelTypeOK
  <1>8. /\ buffer'[TASK_SYS] = [source |-> TASK_HARDDISK, body |-> Answer(sys_tick_count)]
        /\ \A x \in Proc \ {TASK_SYS} : buffer'[x] = buffer[x]
    BY <1>4, <1>6, <1>7, Tasks DEF TicksRequest
  <1>9. sys_tick_count \in 0..MaxTick /\ Answer(sys_tick_count) \in Body
    <2>1. sys_tick_count \in 0..MaxTick
      BY DEF HIInv, HTypes
    <2> QED BY <2>1, SysTaskAssumption
  <1>10. buffer' \in [Proc -> Message]
    <2>1. [buffer[TASK_SYS] EXCEPT !.body = Answer(sys_tick_count)] \in Message
      BY <1>7, <1>9, Tasks DEF Message
    <2> QED BY <1>6, <1>7, <2>1
  <1>11. KernelInv'
    BY <1>1, <1>6, <1>7, <1>10, SameKernelInv DEF KernelInv, KernelTypeOK
  <1>12. /\ \A x : Free(x)' <=> Free(x)
         /\ \A x, y : Waiting(x, y)' <=> Waiting(x, y)
         /\ \A x, y : Offers(x, y)' <=> Offers(x, y)
         /\ UNCHANGED has_int_msg
    BY <1>1, SameIpc
  <1>13. HTypes'
    <2>1. UNCHANGED <<pending, sys_tick_count, phase, asked>>
      BY <1>1
    <2> QED BY <1>2, <2>1 DEF HIInv, HTypes
  <1>14. Partners'
    <2>1. UNCHANGED <<phase, pending>>
      BY <1>1
    <2> QED BY <1>2, <1>12, <2>1 DEF HIInv, Partners
  <1>15. hd_pc \in {"start", "poll"} /\ TicksInStep
    BY <1>3 DEF HIInv, TicksInStep
  <1>16. TicksInStep'
    <2>1. asked[TASK_HARDDISK] \in 0..sys_tick_count
      BY Tasks DEF HIInv, HTypes
    <2>2. sys_tick_count \in asked[TASK_HARDDISK]..sys_tick_count
      BY <1>9, <2>1
    <2>3. FreshAnswer(buffer[TASK_SYS], TASK_HARDDISK)'
      BY <1>1, <1>8, <2>2 DEF FreshAnswer
    <2>4. SysBusy'
      BY <1>1, <1>6, <1>12, <2>3 DEF SysBusy
    <2>5. \/ /\ phase[TASK_HARDDISK] = "called" /\ Free(TASK_HARDDISK)
          \/ /\ phase[TASK_HARDDISK] = "receiving" /\ Waiting(TASK_HARDDISK, TASK_SYS)
      BY <1>1, <1>3, <1>15, TicksCases DEF TicksInStep
    <2>6. UNCHANGED <<phase, hd_pc>>
      BY <1>1, <1>2
    <2> QED BY <1>12, <1>15, <2>4, <2>5, <2>6 DEF TicksInStep
  <1>17. RequestsInStep'
    <2>1. phase'[TASK_HARDDISK] # "idle" /\ hd_pc' \in Working
      BY <1>1, <1>2, <1>3, <1>15 DEF Working
    <2> QED BY <1>2, <1>12, <1>15, <2>1, SameRequests DEF HIInv
  <1>18. DriveInStep'
    BY <1>12, SameDrive DEF HIInv
  <1>19. OnTime'
    BY <1>1, <1>2, <1>6 DEF HIInv, OnTime
  <1> QED BY <1>11, <1>13, <1>14, <1>16, <1>17, <1>18, <1>19 DEF HIInv

\* The answer comes to the driver, or waits for it.
LEMMA SysSendKeeps ==
    ASSUME HIInv, SysSend, UNCHANGED <<hdVars, driveVars, fsVars>>
    PROVE  HIInv'
  <1> DEFINE m == [source |-> TASK_SYS, body |-> buffer[TASK_SYS].body]
  <1>1. /\ sys_pc = "send" /\ sys_pc' = "receive"
        /\ Free(TASK_SYS) /\ ~panicked /\ UNCHANGED pending
        /\ message_send(TASK_SYS, buffer[TASK_SYS].source, m)
        /\ UNCHANGED <<sys_tick_count, phase, asked>>
    BY DEF SysSend, Send, Runnable, Free
  <1>2. UNCHANGED <<hd_pc, hd_msg, t, want, bytes_left, drive, irq, fs_phase>>
    BY DEF hdVars, driveVars, fsVars
  <1>3. SysBusy /\ phase[TASK_HARDDISK] # "idle"
    BY <1>1, TicksCases
  <1>4. FreshAnswer(buffer[TASK_SYS], TASK_HARDDISK)
    BY <1>1, <1>3 DEF SysBusy
  <1>5. buffer[TASK_SYS].source = TASK_HARDDISK /\ FreshAnswer(m, TASK_SYS)
    BY <1>4 DEF FreshAnswer
  <1>6. KernelInv /\ m \in Message
    BY Tasks DEF HIInv, KernelInv, KernelTypeOK, Message
  <1>7. hd_pc \in {"start", "poll"} /\ TicksInStep
    BY <1>3 DEF HIInv, TicksInStep
  <1>8. \/ /\ phase[TASK_HARDDISK] = "called" /\ Free(TASK_HARDDISK)
        \/ /\ phase[TASK_HARDDISK] = "receiving" /\ Waiting(TASK_HARDDISK, TASK_SYS)
    BY <1>1, <1>3, <1>7, TicksCases DEF TicksInStep
  <1>9. /\ ~Sending(TASK_HARDDISK) /\ (Free(TASK_HARDDISK) => ~Receiving(TASK_HARDDISK))
        /\ \A y : Waiting(TASK_HARDDISK, y) => ~Free(TASK_HARDDISK)
    BY <1>6, <1>8, NotSending, Tasks
  <1> HIDE DEF m
  <1>10. /\ KernelInv'
         /\ UNCHANGED <<has_int_msg, panicked>>
         /\ buffer'[TASK_SYS] = m
         /\ \/ /\ Waiting(TASK_HARDDISK, TASK_SYS) \/ Waiting(TASK_HARDDISK, SR_TARGET_ANY)
               /\ Free(TASK_SYS)' /\ Free(TASK_HARDDISK)' /\ buffer'[TASK_HARDDISK] = m
               /\ SameBut(TASK_HARDDISK)
               /\ \A x, y \in Proc : Offers(x, y)' <=> Offers(x, y)
            \/ /\ ~Waiting(TASK_HARDDISK, TASK_SYS)
               /\ ~Waiting(TASK_HARDDISK, SR_TARGET_ANY)
               /\ SameBut(TASK_SYS)
               /\ \A x, y \in Proc :
                     Offers(x, y)' <=> Offers(x, y) \/ (x = TASK_SYS /\ y = TASK_HARDDISK)
    <2>1. message_send(TASK_SYS, TASK_HARDDISK, m) /\ TASK_HARDDISK \in Proc \ {TASK_SYS}
      BY <1>1, <1>5, Tasks
    <2> QED BY <1>1, <1>6, <1>9, <2>1, SendOutcome, Tasks
  <1>11. HTypes'
    <2>1. UNCHANGED <<pending, sys_tick_count, phase, asked>>
      BY <1>1
    <2> QED BY <1>2, <2>1 DEF HIInv, HTypes
  <1>12. Partners'
    <2>1. \A x, y \in Proc :
             Offers(x, y)' => Offers(x, y) \/ (x = TASK_SYS /\ y = TASK_HARDDISK)
      BY <1>10
    <2>2. UNCHANGED <<has_int_msg, phase, pending, fs_phase>>
      BY <1>1, <1>2, <1>10
    <2> QED BY <2>1, <2>2 DEF HIInv, Partners
  <1>13. /\ Free(TASK_FS)' <=> Free(TASK_FS)
         /\ Waiting(TASK_FS, TASK_HARDDISK)' <=> Waiting(TASK_FS, TASK_HARDDISK)
    BY <1>10, Tasks DEF SameBut
  <1>14. PICK n \in asked[TASK_HARDDISK]..sys_tick_count :
            m = [source |-> TASK_SYS, body |-> Answer(n)]
    BY <1>5 DEF FreshAnswer
  <1>15. TicksInStep'
    <2>1. CASE phase[TASK_HARDDISK] = "called"
      <3>1. Free(TASK_HARDDISK)
        BY <1>8, <2>1
      <3>2. /\ SameBut(TASK_SYS)
            /\ Offers(TASK_SYS, TASK_HARDDISK)'
        BY <1>9, <1>10, <3>1, Tasks
      <3>3. Free(TASK_HARDDISK)'
        BY <3>1, <3>2, Tasks DEF SameBut
      <3>4. buffer'[TASK_SYS] = [source |-> TASK_SYS, body |-> Answer(n)]
        BY <1>10, <1>14
      <3>5. SysAnswering'
        BY <1>1, <1>14, <3>2, <3>4 DEF SysAnswering, FreshAnswer
      <3>6. phase'[TASK_HARDDISK] = "called" /\ hd_pc' \in {"start", "poll"}
        BY <1>1, <1>2, <1>7, <2>1
      <3> QED BY <3>3, <3>5, <3>6 DEF TicksInStep
    <2>2. CASE phase[TASK_HARDDISK] = "receiving"
      <3>1. Waiting(TASK_HARDDISK, TASK_SYS)
        BY <1>8, <2>2
      <3>2. Free(TASK_SYS)' /\ Free(TASK_HARDDISK)' /\ buffer'[TASK_HARDDISK] = m
        BY <1>10, <3>1
      <3>3. SysFree'
        BY <1>1, <3>2 DEF SysFree
      <3>4. phase'[TASK_HARDDISK] = "receiving" /\ hd_pc' \in {"start", "poll"}
        BY <1>1, <1>2, <1>7, <2>2
      <3>5. FreshAnswer(buffer[TASK_HARDDISK], TASK_SYS)'
        BY <1>1, <1>14, <3>2 DEF FreshAnswer
      <3> QED BY <3>2, <3>3, <3>4, <3>5 DEF TicksInStep
    <2> QED BY <1>8, <2>1, <2>2
  <1>16. RequestsInStep'
    <2>1. phase'[TASK_HARDDISK] # "idle" /\ hd_pc' \in Working
      BY <1>1, <1>2, <1>3, <1>7 DEF Working
    <2> QED BY <1>2, <1>7, <1>13, <2>1, SameRequests DEF HIInv
  <1>17. DriveInStep'
    BY <1>7, <1>10, SameDrive DEF HIInv
  <1>18. OnTime'
    BY <1>1, <1>2, <1>10 DEF HIInv, OnTime
  <1> QED BY <1>10, <1>11, <1>12, <1>15, <1>16, <1>17, <1>18 DEF HIInv

\* An answer that is fresh stays so while the clock ticks.
LEMMA TickKeeps ==
    ASSUME HIInv, Tick, UNCHANGED <<hdVars, driveVars, fsVars>>
    PROVE  HIInv'
  <1>1. /\ sys_tick_count' = sys_tick_count + 1 /\ sys_tick_count < MaxTick
        /\ ~panicked
        /\ UNCHANGED <<kernelVars, buffer, pending, panicked, sys_pc, phase, asked>>
    BY DEF Tick, vars
  <1>2. UNCHANGED <<hd_pc, hd_msg, t, want, bytes_left, drive, irq, fs_phase>>
    BY DEF hdVars, driveVars, fsVars
  <1>3. /\ sys_tick_count \in 0..MaxTick /\ t \in 0..sys_tick_count /\ MaxTick \in Nat
        /\ asked \in [Client -> 0..sys_tick_count]
    BY SysTaskAssumption DEF HIInv, HTypes
  <1>4. /\ \A x : Free(x)' <=> Free(x)
        /\ \A x, y : Waiting(x, y)' <=> Waiting(x, y)
        /\ \A x, y : Offers(x, y)' <=> Offers(x, y)
        /\ UNCHANGED has_int_msg
    BY <1>1, SameIpc
  <1>5. KernelInv'
    BY <1>1, SameKernelInv DEF HIInv, KernelInv, KernelTypeOK
  <1>6. HTypes'
    <2>1. sys_tick_count' \in 0..MaxTick /\ 0..sys_tick_count \subseteq 0..sys_tick_count'
      BY <1>1, <1>3
    <2>2. asked' \in [Client -> 0..sys_tick_count'] /\ t' \in 0..sys_tick_count'
      BY <1>1, <1>2, <1>3, <2>1
    <2>3. UNCHANGED <<phase, pending>>
      BY <1>1
    <2> QED BY <1>2, <2>1, <2>2, <2>3 DEF HIInv, HTypes
  <1>7. Partners'
    BY <1>1, <1>2, <1>4 DEF HIInv, Partners
  <1>8. \A m, from : FreshAnswer(m, from) => FreshAnswer(m, from)'
    <2> SUFFICES ASSUME NEW n \in asked[TASK_HARDDISK]..sys_tick_count
                 PROVE  n \in asked[TASK_HARDDISK]..sys_tick_count'
      BY <1>1 DEF FreshAnswer
    <2>1. asked[TASK_HARDDISK] \in 0..sys_tick_count
      BY <1>3, Tasks
    <2> QED BY <1>1, <1>3, <2>1
  <1>9. /\ SysFree => SysFree'
        /\ SysBusy => SysBusy'
        /\ SysAnswering => SysAnswering'
    <2>1. UNCHANGED <<sys_pc, buffer>>
      BY <1>1
    <2>2. /\ FreshAnswer(buffer[TASK_SYS], TASK_HARDDISK)
                => FreshAnswer(buffer[TASK_SYS], TASK_HARDDISK)'
          /\ FreshAnswer(buffer[TASK_SYS], TASK_SYS) => FreshAnswer(buffer[TASK_SYS], TASK_SYS)'
      BY <1>8, <2>1 DEF FreshAnswer
    <2> QED BY <1>4, <2>1, <2>2 DEF SysFree, SysBusy, SysAnswering, TicksRequest
  <1>10. TicksInStep'
    <2>1. UNCHANGED <<phase, buffer, hd_pc>>
      BY <1>1, <1>2
    <2>2. FreshAnswer(buffer[TASK_HARDDISK], TASK_SYS)
             => FreshAnswer(buffer[TASK_HARDDISK], TASK_SYS)'
      BY <1>8, <2>1 DEF FreshAnswer
    <2> QED BY <1>4, <1>9, <2>1, <2>2 DEF HIInv, TicksInStep, TicksRequest
  <1>11. RequestsInStep'
    BY <1>1, <1>2, <1>4, SameRequests DEF HIInv
  <1>12. DriveInStep'
    BY <1>4, SameDrive DEF HIInv
  <1>13. OnTime'
    <2>1. sys_tick_count - t >= HD_TIMEOUT => sys_tick_count' - t >= HD_TIMEOUT
      BY <1>1, <1>3, HardDiskAssumption
    <2> QED BY <1>1, <1>2, <2>1 DEF HIInv, OnTime
  <1> QED BY <1>5, <1>6, <1>7, <1>10, <1>11, <1>12, <1>13 DEF HIInv

\* The driver asks for the ticks: task_sys is free to take the request.
LEMMA GetTicksKeeps ==
    ASSUME HIInv, hd_pc \in {"start", "poll"}, GetTicks(TASK_HARDDISK),
           UNCHANGED <<hdVars, driveVars, fsVars>>
    PROVE  HIInv'
  <1>1. /\ phase[TASK_HARDDISK] = "idle"
        /\ phase' = [phase EXCEPT ![TASK_HARDDISK] = "called"]
        /\ Free(TASK_HARDDISK) /\ ~panicked
        /\ pending' = [pending EXCEPT ![TASK_HARDDISK] = TASK_SYS]
        /\ message_send(TASK_HARDDISK, TASK_SYS, TicksRequest)
        /\ asked' = [asked EXCEPT ![TASK_HARDDISK] = sys_tick_count]
        /\ UNCHANGED <<sys_tick_count, sys_pc>>
    BY DEF GetTicks, SendBoth, Runnable, Free, TicksRequest
  <1>2. UNCHANGED <<hd_pc, hd_msg, t, want, bytes_left, drive, irq, fs_phase>>
    BY DEF hdVars, driveVars, fsVars
  <1>3. SysFree /\ ~Sending(TASK_SYS)
    BY <1>1, TicksCases DEF HIInv, TicksInStep
  <1>4. KernelInv /\ TicksRequest \in Message /\ TASK_SYS \in Proc \ {TASK_HARDDISK}
    BY Tasks, SysTaskAssumption DEF HIInv, TicksRequest, Message
  <1>5. /\ KernelInv'
        /\ UNCHANGED <<has_int_msg, panicked>>
        /\ buffer'[TASK_HARDDISK] = TicksRequest
        /\ \/ /\ Waiting(TASK_SYS, TASK_HARDDISK) \/ Waiting(TASK_SYS, SR_TARGET_ANY)
              /\ Free(TASK_HARDDISK)' /\ Free(TASK_SYS)' /\ buffer'[TASK_SYS] = TicksRequest
              /\ SameBut(TASK_SYS)
              /\ \A x, y \in Proc : Offers(x, y)' <=> Offers(x, y)
           \/ /\ ~Waiting(TASK_SYS, TASK_HARDDISK)
              /\ ~Waiting(TASK_SYS, SR_TARGET_ANY)
              /\ SameBut(TASK_HARDDISK)
              /\ \A x, y \in Proc :
                    Offers(x, y)' <=> Offers(x, y) \/ (x = TASK_HARDDISK /\ y = TASK_SYS)
    BY <1>1, <1>3, <1>4, SendOutcome, Tasks
  <1>6. HTypes'
    <2>1. /\ pending \in [Proc -> Proc \cup {SR_TARGET_NONE}]
          /\ phase \in [Client -> {"idle", "called", "receiving"}]
          /\ sys_tick_count \in 0..MaxTick /\ asked \in [Client -> 0..sys_tick_count]
      BY DEF HIInv, HTypes
    <2>2. sys_tick_count \in 0..sys_tick_count
      BY <2>1, SysTaskAssumption
    <2>3. pending' \in [Proc -> Proc \cup {SR_TARGET_NONE}]
      BY <1>1, <2>1, Tasks
    <2>4. phase' \in [Client -> {"idle", "called", "receiving"}]
      BY <1>1, <2>1
    <2>5. asked' \in [Client -> 0..sys_tick_count'] /\ UNCHANGED sys_tick_count
      BY <1>1, <2>1, <2>2
    <2> QED BY <1>2, <2>3, <2>4, <2>5 DEF HIInv, HTypes
  <1>7. phase'[TASK_HARDDISK] = "called" /\ \A c \in Client \ {TASK_HARDDISK} : phase'[c] = phase[c]
    BY <1>1, Tasks DEF HIInv, HTypes
  <1>8. Partners'
    <2>1. \A x, y \in Proc :
             Offers(x, y)' => Offers(x, y) \/ (x = TASK_HARDDISK /\ y = TASK_SYS)
      BY <1>5
    <2>2. UNCHANGED <<has_int_msg, fs_phase>>
      BY <1>2, <1>5
    <2>3. /\ pending'[TASK_HARDDISK] = TASK_SYS
          /\ pending'[TASK_SYS] = pending[TASK_SYS]
          /\ pending'[TASK_FS] = pending[TASK_FS]
      BY <1>1, Tasks DEF HIInv, HTypes
    <2> QED BY <1>7, <2>1, <2>2, <2>3 DEF HIInv, Partners
  <1>9. /\ Free(TASK_FS)' <=> Free(TASK_FS)
        /\ Waiting(TASK_FS, TASK_HARDDISK)' <=> Waiting(TASK_FS, TASK_HARDDISK)
    BY <1>5, Tasks DEF SameBut
  <1>10. TicksInStep'
    <2>1. hd_pc' \in {"start", "poll"}
      BY <1>2
    <2>2. CASE Waiting(TASK_SYS, TASK_HARDDISK) \/ Waiting(TASK_SYS, SR_TARGET_ANY)
      <3>1. Free(TASK_HARDDISK)' /\ Free(TASK_SYS)' /\ buffer'[TASK_SYS] = TicksRequest
        BY <1>5, <2>2
      <3>2. ~Free(TASK_SYS)
        BY <1>4, <2>2, NotSending, Tasks
      <3>3. sys_pc' = "received"
        BY <1>1, <1>3, <3>2 DEF SysFree
      <3>4. SysBusy'
        BY <3>1, <3>3 DEF SysBusy, TicksRequest
      <3> QED BY <1>7, <2>1, <3>1, <3>4 DEF TicksInStep
    <2>3. CASE ~(Waiting(TASK_SYS, TASK_HARDDISK) \/ Waiting(TASK_SYS, SR_TARGET_ANY))
      <3>1. SameBut(TASK_HARDDISK) /\ Offers(TASK_HARDDISK, TASK_SYS)'
        BY <1>5, <2>3, Tasks
      <3>2. sys_pc = "receive" /\ Free(TASK_SYS)
        BY <1>3, <2>3 DEF SysFree
      <3>3. SysFree'
        BY <1>1, <3>1, <3>2, Tasks DEF SysFree, SameBut
      <3> QED BY <1>5, <1>7, <2>1, <3>1, <3>3 DEF TicksInStep, TicksRequest
    <2> QED BY <2>2, <2>3
  <1>11. RequestsInStep'
    <2>1. phase'[TASK_HARDDISK] # "idle" /\ hd_pc' \in Working
      BY <1>2, <1>7 DEF Working
    <2> QED BY <1>2, <1>9, <2>1, SameRequests DEF HIInv
  <1>12. DriveInStep'
    BY <1>5, SameDrive DEF HIInv
  <1>13. OnTime'
    BY <1>1, <1>2, <1>5 DEF HIInv, OnTime
  <1> QED BY <1>5, <1>6, <1>8, <1>10, <1>11, <1>12, <1>13 DEF HIInv

\* The driver takes the answer, or waits for it: no interrupt is recorded that
\* could come in its place, or fail the assertion of message_receive.
LEMMA GetTicksReceiveKeeps ==
    ASSUME HIInv, GetTicksReceive(TASK_HARDDISK), UNCHANGED <<hdVars, driveVars, fsVars>>
    PROVE  HIInv'
  <1> DEFINE m == [buffer[TASK_HARDDISK] EXCEPT !.source = TASK_HARDDISK]
  <1>1. /\ phase[TASK_HARDDISK] = "called"
        /\ phase' = [phase EXCEPT ![TASK_HARDDISK] = "receiving"]
        /\ Free(TASK_HARDDISK) /\ ~panicked
        /\ pending' = [pending EXCEPT ![TASK_HARDDISK] = SR_TARGET_NONE]
        /\ message_receive(TASK_HARDDISK, pending[TASK_HARDDISK], m)
        /\ UNCHANGED <<sys_tick_count, sys_pc, asked>>
    BY DEF GetTicksReceive, ReceiveReply, Runnable, Free
  <1>2. UNCHANGED <<hd_pc, hd_msg, t, want, bytes_left, drive, irq, fs_phase>>
    BY DEF hdVars, driveVars, fsVars
  <1>3. hd_pc \in {"start", "poll"}
    BY <1>1 DEF HIInv, TicksInStep
  <1>4. ~has_int_msg[TASK_HARDDISK]
    BY <1>3 DEF HIInv, DriveInStep, BeforeSector, BeforeCommand, Quiet, Silent
  <1>5. /\ KernelInv /\ m \in Message /\ pending[TASK_HARDDISK] = TASK_SYS
        /\ TASK_SYS \in (Proc \ {TASK_HARDDISK}) \cup {SR_TARGET_ANY, SR_TARGET_INTERRUPT}
        /\ TASK_SYS # SR_TARGET_ANY
    <2>1. KernelInv /\ buffer[TASK_HARDDISK] \in Message
      BY Tasks DEF HIInv, KernelInv, KernelTypeOK
    <2>2. m \in Message
      BY <2>1, Tasks DEF Message
    <2>3. pending[TASK_HARDDISK] = TASK_SYS
      BY <1>1 DEF HIInv, Partners
    <2> QED BY <2>1, <2>2, <2>3, Tasks, TargetAssumption DEF Sentinel
  <1>6. SysBusy \/ SysAnswering
    <2>1. ~Offers(TASK_HARDDISK, TASK_SYS)
      BY <1>1, <1>5, NotSending, Tasks DEF Offers
    <2> QED BY <1>1, <2>1 DEF HIInv, TicksInStep
  <1> HIDE DEF m
  <1>7. /\ KernelInv'
        /\ UNCHANGED <<has_int_msg, panicked>>
        /\ \A x \in Proc \ {TASK_HARDDISK} : buffer'[x] = buffer[x]
        /\ \/ \E sender \in Proc :
                 /\ Offers(sender, TASK_HARDDISK) /\ TASK_SYS \in {sender, SR_TARGET_ANY}
                 /\ Free(TASK_HARDDISK)' /\ Free(sender)'
                 /\ buffer'[TASK_HARDDISK] = buffer[sender]
                 /\ SameBut(sender)
                 /\ \A x, y \in Proc :
                       Offers(x, y)' <=> Offers(x, y) /\ x # sender
           \/ /\ \A x \in Proc : Offers(x, TASK_HARDDISK) =>
                    TASK_SYS \notin {x, SR_TARGET_ANY}
              /\ Waiting(TASK_HARDDISK, TASK_SYS)'
              /\ SameBut(TASK_HARDDISK)
              /\ \A x, y \in Proc : Offers(x, y)' <=> Offers(x, y)
    <2>1. message_receive(TASK_HARDDISK, TASK_SYS, m)
      BY <1>1, <1>5
    <2> QED BY <1>1, <1>4, <1>5, <2>1, ReceiveOutcome, Tasks
  <1>8. HTypes'
    <2>1. /\ pending \in [Proc -> Proc \cup {SR_TARGET_NONE}]
          /\ phase \in [Client -> {"idle", "called", "receiving"}]
      BY DEF HIInv, HTypes
    <2>2. pending' \in [Proc -> Proc \cup {SR_TARGET_NONE}]
      BY <1>1, <2>1
    <2>3. phase' \in [Client -> {"idle", "called", "receiving"}]
      BY <1>1, <2>1
    <2>4. UNCHANGED <<sys_tick_count, asked>>
      BY <1>1
    <2> QED BY <1>2, <2>2, <2>3, <2>4 DEF HIInv, HTypes
  <1>9. /\ phase'[TASK_HARDDISK] = "receiving"
        /\ \A c \in Client \ {TASK_HARDDISK} : phase'[c] = phase[c]
    BY <1>1, Tasks DEF HIInv, HTypes
  <1>10. Partners'
    <2>1. \A x, y \in Proc : Offers(x, y)' => Offers(x, y)
      BY <1>7
    <2>2. UNCHANGED <<has_int_msg, fs_phase>>
      BY <1>2, <1>7
    <2>3. /\ pending'[TASK_HARDDISK] = SR_TARGET_NONE
          /\ pending'[TASK_SYS] = pending[TASK_SYS]
          /\ pending'[TASK_FS] = pending[TASK_FS]
      BY <1>1, Tasks DEF HIInv, HTypes
    <2> QED BY <1>9, <2>1, <2>2, <2>3 DEF HIInv, Partners
  <1>11. hd_pc' \in {"start", "poll"} /\ hd_pc' \in Working /\ phase'[TASK_HARDDISK] # "idle"
    BY <1>2, <1>3, <1>9 DEF Working
  <1>12. TicksInStep'
    <2>1. CASE Offers(TASK_SYS, TASK_HARDDISK)
      <3>1. ~Free(TASK_SYS)
        BY <1>5, <2>1, NotSending, Tasks DEF Offers
      <3>2. SysAnswering
        BY <1>6, <3>1 DEF SysBusy
      <3>3. /\ Free(TASK_HARDDISK)' /\ Free(TASK_SYS)'
            /\ buffer'[TASK_HARDDISK] = buffer[TASK_SYS]
        <4>1. PICK sender \in Proc :
                 /\ TASK_SYS \in {sender, SR_TARGET_ANY}
                 /\ Free(TASK_HARDDISK)' /\ Free(sender)'
                 /\ buffer'[TASK_HARDDISK] = buffer[sender]
          BY <1>7, <2>1, Tasks
        <4> QED BY <1>5, <4>1
      <3>4. SysFree'
        BY <1>1, <3>2, <3>3 DEF SysFree, SysAnswering
      <3>5. FreshAnswer(buffer[TASK_HARDDISK], TASK_SYS)'
        BY <1>1, <3>2, <3>3 DEF SysAnswering, FreshAnswer
      <3> QED BY <1>9, <1>11, <3>3, <3>4, <3>5 DEF TicksInStep
    <2>2. CASE ~Offers(TASK_SYS, TASK_HARDDISK)
      <3>1. SysBusy
        BY <1>6, <2>2 DEF SysAnswering
      <3>2. Waiting(TASK_HARDDISK, TASK_SYS)' /\ SameBut(TASK_HARDDISK)
        <4>1. ~\E sender \in Proc :
                  Offers(sender, TASK_HARDDISK) /\ TASK_SYS \in {sender, SR_TARGET_ANY}
          BY <1>5, <2>2
        <4> QED BY <1>7, <4>1
      <3>3. SysBusy'
        BY <1>1, <1>7, <3>1, <3>2, Tasks DEF SysBusy, SameBut, TicksRequest, FreshAnswer
      <3> QED BY <1>9, <1>11, <3>2, <3>3 DEF TicksInStep
    <2> QED BY <2>1, <2>2
  <1>13. RequestsInStep'
    <2>1. /\ Free(TASK_FS)' <=> Free(TASK_FS)
          /\ Waiting(TASK_FS, TASK_HARDDISK)' <=> Waiting(TASK_FS, TASK_HARDDISK)
      <3>1. CASE \E sender \in Proc :
                    TASK_SYS \in {sender, SR_TARGET_ANY} /\ SameBut(sender)
        <4>1. SameBut(TASK_SYS)
          BY <1>5, <3>1
        <4> QED BY <4>1, Tasks DEF SameBut
      <3>2. CASE SameBut(TASK_HARDDISK)
        BY <3>2, Tasks DEF SameBut
      <3> QED BY <1>7, <3>1, <3>2
    <2> QED BY <1>2, <1>3, <1>11, <2>1, SameRequests DEF HIInv
  <1>14. DriveInStep'
    BY <1>3, <1>7, SameDrive DEF HIInv
  <1>15. OnTime'
    BY <1>1, <1>2, <1>7 DEF HIInv, OnTime
  <1> QED BY <1>7, <1>8, <1>10, <1>12, <1>13, <1>14, <1>15 DEF HIInv

\* What the driver has when get_ticks returns is the answer to this call.
LEMMA AnswerCame ==
    ASSUME HIInv, Returns(TASK_HARDDISK)
    PROVE  /\ hd_pc \in {"start", "poll"} /\ Free(TASK_HARDDISK) /\ ~panicked
           /\ phase[TASK_HARDDISK] = "receiving"
           /\ SysFree /\ FreshAnswer(buffer[TASK_HARDDISK], TASK_SYS)
           /\ buffer[TASK_HARDDISK].body.ticks \in 0..sys_tick_count
  <1>1. phase[TASK_HARDDISK] = "receiving" /\ Free(TASK_HARDDISK) /\ ~panicked
    BY DEF Returns, Runnable, Free
  <1>2. ~Waiting(TASK_HARDDISK, TASK_SYS)
    BY <1>1, NotSending, Tasks DEF HIInv
  <1>3. /\ hd_pc \in {"start", "poll"}
        /\ SysFree /\ FreshAnswer(buffer[TASK_HARDDISK], TASK_SYS)
    BY <1>1, <1>2 DEF HIInv, TicksInStep
  <1>4. PICK n \in asked[TASK_HARDDISK]..sys_tick_count :
           buffer[TASK_HARDDISK] = [source |-> TASK_SYS, body |-> Answer(n)]
    BY <1>3 DEF FreshAnswer
  <1>5. buffer[TASK_HARDDISK].body.ticks = n
    BY <1>4 DEF Answer
  <1>6. asked[TASK_HARDDISK] \in 0..sys_tick_count /\ sys_tick_count \in 0..MaxTick
    BY Tasks DEF HIInv, HTypes
  <1>7. n \in 0..sys_tick_count
    BY <1>6, SysTaskAssumption
  <1> QED BY <1>1, <1>3, <1>5, <1>7

\* get_ticks returns and the driver goes on in harddisk_waitfor.
LEMMA GetTicksReturnKeeps ==
    ASSUME HIInv, GetTicksReturn(TASK_HARDDISK), hd_pc' \in {"poll", "status", "timeout"},
           UNCHANGED <<hd_msg, goal, cmd, want, bytes_left, driveVars, fsVars>>,
           t' \in 0..sys_tick_count,
           hd_pc' = "timeout" => sys_tick_count - t' >= HD_TIMEOUT
    PROVE  HIInv'
  <1>1. /\ Returns(TASK_HARDDISK)
        /\ phase' = [phase EXCEPT ![TASK_HARDDISK] = "idle"]
        /\ asked' = [asked EXCEPT ![TASK_HARDDISK] = 0]
        /\ UNCHANGED <<kernelVars, buffer, pending, panicked, sys_tick_count, sys_pc>>
    BY DEF GetTicksReturn, vars
  <1>2. /\ hd_pc \in {"start", "poll"} /\ Free(TASK_HARDDISK) /\ ~panicked
        /\ phase[TASK_HARDDISK] = "receiving" /\ SysFree
    BY <1>1, AnswerCame
  <1>3. UNCHANGED <<drive, irq, fs_phase>>
    BY DEF driveVars, fsVars
  <1>4. /\ \A x : Free(x)' <=> Free(x)
        /\ \A x, y : Waiting(x, y)' <=> Waiting(x, y)
        /\ \A x, y : Offers(x, y)' <=> Offers(x, y)
        /\ UNCHANGED has_int_msg
    BY <1>1, SameIpc
  <1>5. KernelInv'
    BY <1>1, SameKernelInv DEF HIInv, KernelInv, KernelTypeOK
  <1>6. HTypes'
    <2>1. /\ phase \in [Client -> {"idle", "called", "receiving"}]
          /\ sys_tick_count \in 0..MaxTick /\ asked \in [Client -> 0..sys_tick_count]
      BY DEF HIInv, HTypes
    <2>2. 0 \in 0..sys_tick_count
      BY <2>1, SysTaskAssumption
    <2>3. phase' \in [Client -> {"idle", "called", "receiving"}]
      BY <1>1, <2>1
    <2>4. asked' \in [Client -> 0..sys_tick_count]
      BY <1>1, <2>1, <2>2
    <2>5. UNCHANGED <<pending, sys_tick_count>>
      BY <1>1
    <2> QED BY <1>3, <2>3, <2>4, <2>5 DEF HIInv, HTypes
  <1>7. phase'[TASK_HARDDISK] = "idle" /\ \A c \in Client \ {TASK_HARDDISK} : phase'[c] = phase[c]
    BY <1>1, Tasks DEF HIInv, HTypes
  <1>8. Partners'
    BY <1>1, <1>2, <1>3, <1>4, <1>7 DEF HIInv, Partners
  <1>9. TicksInStep'
    <2>1. SysFree'
      BY <1>1, <1>2, <1>4 DEF SysFree
    <2>2. ~Offers(TASK_HARDDISK, TASK_SYS)'
      BY <1>2, <1>4, NotSending, Tasks DEF HIInv, Offers
    <2> QED BY <1>7, <2>1, <2>2 DEF TicksInStep
  <1>10. RequestsInStep'
    BY <1>2, <1>3, <1>4, SameRequests DEF HIInv, Working
  <1>11. DriveInStep'
    <2>1. /\ BeforeSector' <=> BeforeSector
          /\ BeforeCommand' <=> BeforeCommand
      BY <1>3, <1>4
         DEF BeforeSector, BeforeCommand, InWrite, Quiet, Silent, CommandFits, Due
    <2> QED BY <1>2, <2>1 DEF HIInv, DriveInStep
  <1>12. OnTime'
    BY <1>1, <1>2 DEF OnTime
  <1> QED BY <1>5, <1>6, <1>8, <1>9, <1>10, <1>11, <1>12 DEF HIInv

\* harddisk_waitfor notes the time, and later compares it.
LEMMA WaitforKeeps ==
    ASSUME HIInv, HdStartsWaiting \/ HdGoesOnWaiting
    PROVE  HIInv'
  <1>1. CASE HdStartsWaiting
    <2>1. /\ hd_pc' = "poll" /\ GetTicksReturn(TASK_HARDDISK)
          /\ t' = buffer[TASK_HARDDISK].body.ticks
          /\ UNCHANGED <<hd_msg, goal, cmd, want, bytes_left, driveVars, fsVars>>
      BY <1>1 DEF HdStartsWaiting, HdGoesTo
    <2>2. t' \in 0..sys_tick_count
      BY <2>1, AnswerCame DEF GetTicksReturn
    <2> QED BY <2>1, <2>2, GetTicksReturnKeeps
  <1>2. CASE HdGoesOnWaiting
    <2> DEFINE ticks == buffer[TASK_HARDDISK].body.ticks
    <2>1. /\ GetTicksReturn(TASK_HARDDISK)
          /\ hd_pc' = IF ticks - t < HD_TIMEOUT THEN "status" ELSE "timeout"
          /\ UNCHANGED <<hd_msg, goal, cmd, want, t, bytes_left, driveVars, fsVars>>
      BY <1>2 DEF HdGoesOnWaiting, HdGoesTo
    <2>2. ticks \in 0..sys_tick_count
      BY <2>1, AnswerCame DEF GetTicksReturn
    <2>3. t \in 0..sys_tick_count /\ sys_tick_count \in 0..MaxTick
      BY DEF HIInv, HTypes
    <2> HIDE DEF ticks
    <2>4. ~(ticks - t < HD_TIMEOUT) => sys_tick_count - t >= HD_TIMEOUT
      BY <2>2, <2>3, SysTaskAssumption, HardDiskAssumption
    <2>5. hd_pc' = "timeout" => sys_tick_count - t' >= HD_TIMEOUT
      BY <2>1, <2>4
    <2>6. hd_pc' \in {"poll", "status", "timeout"} /\ t' \in 0..sys_tick_count
      BY <2>1, <2>3
    <2> QED BY <2>1, <2>5, <2>6, GetTicksReturnKeeps
  <1> QED BY <1>1, <1>2

\* The timeout is over: the system stops where the driver is.
LEMMA HdGivesUpKeeps ==
    ASSUME HIInv, HdGivesUp
    PROVE  HIInv'
  <1>1. /\ HdRuns("timeout") /\ panicked' = TRUE
        /\ UNCHANGED <<kernelVars, buffer, pending, sysVars, hdVars, driveVars, fsVars>>
    BY DEF HdGivesUp
  <1>2. UNCHANGED <<sys_tick_count, sys_pc, phase, asked, hd_pc, hd_msg, t, want,
                    bytes_left, drive, irq, fs_phase>>
    BY <1>1 DEF sysVars, hdVars, driveVars, fsVars
  <1>3. /\ \A x : Free(x)' <=> Free(x)
        /\ \A x, y : Waiting(x, y)' <=> Waiting(x, y)
        /\ \A x, y : Offers(x, y)' <=> Offers(x, y)
        /\ UNCHANGED has_int_msg
    BY <1>1, SameIpc
  <1>4. KernelInv'
    BY <1>1, SameKernelInv DEF HIInv, KernelInv, KernelTypeOK
  <1>5. HTypes'
    BY <1>1, <1>2 DEF HIInv, HTypes
  <1>6. Partners'
    BY <1>1, <1>2, <1>3 DEF HIInv, Partners
  <1>7. TicksInStep'
    <2>1. hd_pc = "timeout"
      BY <1>1 DEF HdRuns
    <2>2. phase[TASK_HARDDISK] = "idle"
      BY <2>1, TicksCases DEF HIInv, TicksInStep
    <2>3. SysFree' /\ ~Offers(TASK_HARDDISK, TASK_SYS)'
      BY <1>2, <1>3, <2>2 DEF HIInv, TicksInStep, SysFree
    <2> QED BY <1>2, <2>2, <2>3 DEF TicksInStep
  <1>8. RequestsInStep'
    BY <1>1, <1>2, <1>3, SameRequests DEF HIInv
  <1>9. DriveInStep'
    BY <1>1, <1>3, SameDrive DEF HIInv
  <1>10. OnTime'
    BY <1>1, <1>2 DEF HIInv, OnTime, HdRuns
  <1> QED BY <1>4, <1>5, <1>6, <1>7, <1>8, <1>9, <1>10 DEF HIInv

-----------------------------------------------------------------------------
(* The calls of the file system.                                           *)

\* A step that leaves the system task and, while the driver calls it, the driver.
LEMMA SameTicks ==
    ASSUME TicksInStep, UNCHANGED <<sys_tick_count, sys_pc, phase, asked>>,
           phase[TASK_HARDDISK] \in {"idle", "called", "receiving"},
           Free(TASK_SYS)' <=> Free(TASK_SYS),
           \A y : Waiting(TASK_SYS, y)' <=> Waiting(TASK_SYS, y),
           Offers(TASK_HARDDISK, TASK_SYS)' <=> Offers(TASK_HARDDISK, TASK_SYS),
           phase[TASK_HARDDISK] # "idle" =>
              /\ UNCHANGED hd_pc
              /\ Free(TASK_HARDDISK)' <=> Free(TASK_HARDDISK)
              /\ \A y : Waiting(TASK_HARDDISK, y)' <=> Waiting(TASK_HARDDISK, y)
              /\ Offers(TASK_SYS, TASK_HARDDISK)' <=> Offers(TASK_SYS, TASK_HARDDISK)
              /\ buffer'[TASK_HARDDISK] = buffer[TASK_HARDDISK]
              /\ buffer'[TASK_SYS] = buffer[TASK_SYS]
    PROVE  TicksInStep'
  <1>1. SysFree' <=> SysFree
    BY DEF SysFree
  <1>2. CASE phase[TASK_HARDDISK] = "idle"
    BY <1>1, <1>2 DEF TicksInStep
  <1>3. CASE phase[TASK_HARDDISK] # "idle"
    <2>1. /\ FreshAnswer(buffer[TASK_HARDDISK], TASK_SYS)' <=>
                FreshAnswer(buffer[TASK_HARDDISK], TASK_SYS)
          /\ FreshAnswer(buffer[TASK_SYS], TASK_SYS)' <=> FreshAnswer(buffer[TASK_SYS], TASK_SYS)
          /\ FreshAnswer(buffer[TASK_SYS], TASK_HARDDISK)' <=>
                FreshAnswer(buffer[TASK_SYS], TASK_HARDDISK)
      BY <1>3 DEF FreshAnswer
    <2>2. (SysBusy' <=> SysBusy) /\ (SysAnswering' <=> SysAnswering)
      BY <1>3, <2>1 DEF SysBusy, SysAnswering, TicksRequest
    <2>3. TicksRequest' = TicksRequest
      BY DEF TicksRequest
    <2> QED BY <1>1, <1>3, <2>1, <2>2, <2>3 DEF TicksInStep
  <1> QED BY <1>2, <1>3

\* harddisk_interrupt_wait takes the interrupt that has come, or blocks for it.
LEMMA HdAwaitsKeeps ==
    ASSUME HIInv, HdAwaits
    PROVE  HIInv'
  <1> DEFINE m == [source |-> TASK_HARDDISK, body |-> Zeroed]
  <1>1. /\ HdRuns("interrupt") /\ hd_pc' = "interrupted"
        /\ message_receive(TASK_HARDDISK, SR_TARGET_INTERRUPT, m)
        /\ UNCHANGED <<pending, sys_tick_count, sys_pc, phase, asked, hd_msg, goal, cmd,
                       want, t, bytes_left, drive, irq, fs_phase>>
    BY DEF HdAwaits, HdRuns, HdGoesTo, Receive, sysVars, driveVars, fsVars
  <1>2. /\ hd_pc = "interrupt" /\ Free(TASK_HARDDISK) /\ ~panicked
        /\ phase[TASK_HARDDISK] = "idle"
        /\ \/ fs_phase = "called" /\ Free(TASK_FS)
           \/ fs_phase = "receiving" /\ Waiting(TASK_FS, TASK_HARDDISK)
        /\ DiskRequest(hd_msg)
    <2>1. HdRuns("interrupt")
      BY <1>1
    <2> QED BY <2>1, DriverRuns
  <1>3. /\ KernelInv /\ m \in Message
        /\ SR_TARGET_INTERRUPT \in
              (Proc \ {TASK_HARDDISK}) \cup {SR_TARGET_ANY, SR_TARGET_INTERRUPT}
    BY Tasks DEF HIInv, Message
  <1> HIDE DEF m
  <1>4. /\ KernelInv'
        /\ UNCHANGED panicked
        /\ \A p \in Proc \ {TASK_HARDDISK} : has_int_msg'[p] = has_int_msg[p]
        /\ \A x \in Proc \ {TASK_HARDDISK} :
              (Free(x)' <=> Free(x)) /\ \A y : Waiting(x, y)' <=> Waiting(x, y)
        /\ \A x, y \in Proc : Offers(x, y)' <=> Offers(x, y)
        /\ \/ /\ has_int_msg[TASK_HARDDISK] /\ ~has_int_msg'[TASK_HARDDISK]
              /\ Free(TASK_HARDDISK)'
           \/ /\ UNCHANGED has_int_msg
              /\ Waiting(TASK_HARDDISK, SR_TARGET_INTERRUPT)'
    <2>1. KernelInv'
      BY <1>1, <1>2, <1>3, MessageReceiveKeeps, Tasks DEF Free
    <2>2. CASE has_int_msg[TASK_HARDDISK]
      <3>1. ReceivesInterrupt(TASK_HARDDISK, SR_TARGET_INTERRUPT)
        BY <1>1, <2>2 DEF message_receive, ReceivesQueued, ReceiveBlocks, TakesInterrupt
      <3>2. /\ has_int_msg' = [has_int_msg EXCEPT ![TASK_HARDDISK] = FALSE]
            /\ UNCHANGED <<process_flags, recvfrom, sendto, panicked>>
        BY <3>1 DEF ReceivesInterrupt
      <3>3. has_int_msg \in [Proc -> BOOLEAN]
        BY <1>3 DEF KernelInv, KernelTypeOK
      <3>4. /\ \A x : Free(x)' <=> Free(x)
            /\ \A x, y : Waiting(x, y)' <=> Waiting(x, y)
            /\ \A x, y : Offers(x, y)' <=> Offers(x, y)
        BY <3>2 DEF Free, Waiting, Offers, Sending
      <3>5. /\ ~has_int_msg'[TASK_HARDDISK]
            /\ \A p \in Proc \ {TASK_HARDDISK} : has_int_msg'[p] = has_int_msg[p]
        BY <3>2, <3>3, Tasks
      <3> QED BY <1>2, <2>1, <2>2, <3>2, <3>4, <3>5
    <2>3. CASE ~has_int_msg[TASK_HARDDISK]
      <3>1. ~\E sender \in Proc : SR_TARGET_INTERRUPT \in {sender, SR_TARGET_ANY}
        BY TargetAssumption DEF Sentinel
      <3>2. /\ UNCHANGED <<has_int_msg, panicked>>
            /\ Waiting(TASK_HARDDISK, SR_TARGET_INTERRUPT)'
            /\ SameBut(TASK_HARDDISK)
            /\ \A x, y \in Proc : Offers(x, y)' <=> Offers(x, y)
        BY <1>1, <1>2, <1>3, <2>3, <3>1, ReceiveOutcome, Tasks
      <3> QED BY <2>1, <3>2 DEF SameBut
    <2> QED BY <2>2, <2>3
  <1>5. HTypes'
    BY <1>1 DEF HIInv, HTypes
  <1>6. Partners'
    <2>1. UNCHANGED <<phase, pending, fs_phase>>
      BY <1>1
    <2> QED BY <1>4, <2>1 DEF HIInv, Partners
  <1>7. TicksInStep'
    <2>1. /\ Free(TASK_SYS)' <=> Free(TASK_SYS)
          /\ \A y : Waiting(TASK_SYS, y)' <=> Waiting(TASK_SYS, y)
          /\ Offers(TASK_HARDDISK, TASK_SYS)' <=> Offers(TASK_HARDDISK, TASK_SYS)
      BY <1>4, Tasks
    <2> QED BY <1>1, <1>2, <2>1, SameTicks DEF HIInv
  <1>8. RequestsInStep'
    <2>1. Free(TASK_HARDDISK)' \/ Waiting(TASK_HARDDISK, SR_TARGET_INTERRUPT)'
      BY <1>4
    <2>2. DiskBusy'
      BY <1>1, <1>2, <2>1 DEF DiskBusy, DiskRequest, Working
    <2>3. /\ Free(TASK_FS)' <=> Free(TASK_FS)
          /\ Waiting(TASK_FS, TASK_HARDDISK)' <=> Waiting(TASK_FS, TASK_HARDDISK)
      BY <1>4, Tasks
    <2>4. UNCHANGED fs_phase
      BY <1>1
    <2> QED BY <1>2, <2>2, <2>3, <2>4 DEF RequestsInStep
  <1>9. DriveInStep'
    <2>1. InRead \/ AfterSector
      BY <1>2 DEF HIInv, DriveInStep
    <2>2. irq \in BOOLEAN /\ has_int_msg[TASK_HARDDISK] \in BOOLEAN
      BY <1>3, Tasks DEF HIInv, HTypes, KernelInv, KernelTypeOK
    <2>3. (NotYet => NotYet') /\ (Came => Came')
      <3>1. CASE has_int_msg[TASK_HARDDISK] /\ ~has_int_msg'[TASK_HARDDISK]
                 /\ Free(TASK_HARDDISK)'
        BY <1>1, <1>2, <2>2, <3>1 DEF NotYet, Came, Silent
      <3>2. CASE UNCHANGED has_int_msg /\ Waiting(TASK_HARDDISK, SR_TARGET_INTERRUPT)'
        <4>1. ~Free(TASK_HARDDISK)'
          BY <3>2 DEF Waiting, Free
        <4> QED BY <1>1, <1>2, <3>2, <4>1 DEF NotYet, Came, Silent
      <3> QED BY <1>4, <3>1, <3>2
    <2>4. InRead' \/ AfterSector'
      BY <1>1, <2>1, <2>3 DEF InRead, AfterSector, InWrite, CommandFits, Due
    <2> QED BY <1>1, <2>4 DEF DriveInStep
  <1>10. OnTime'
    BY <1>1, <1>2, <1>4 DEF OnTime
  <1> QED BY <1>4, <1>5, <1>6, <1>7, <1>8, <1>9, <1>10 DEF HIInv

\* The driver takes the request of the file system, or goes on waiting.
LEMMA HdReceivesKeeps ==
    ASSUME HIInv, HdReceives
    PROVE  HIInv'
  <1> DEFINE m == [source |-> TASK_HARDDISK, body |-> Zeroed]
  <1>1. /\ HdRuns("receive") /\ hd_pc' = "received"
        /\ message_receive(TASK_HARDDISK, SR_TARGET_ANY, m)
        /\ UNCHANGED <<pending, sys_tick_count, sys_pc, phase, asked, hd_msg, goal, cmd,
                       want, t, bytes_left, drive, irq, fs_phase>>
    BY DEF HdReceives, HdRuns, HdGoesTo, Receive, sysVars, driveVars, fsVars
  <1>2. /\ hd_pc = "receive" /\ Free(TASK_HARDDISK) /\ ~panicked
        /\ phase[TASK_HARDDISK] = "idle"
    <2>1. HdRuns("receive")
      BY <1>1
    <2> QED BY <2>1, DriverRuns
  <1>3. Quiet
    BY <1>2 DEF HIInv, DriveInStep
  <1>4. /\ KernelInv /\ m \in Message /\ ~has_int_msg[TASK_HARDDISK]
        /\ SR_TARGET_ANY \in
              (Proc \ {TASK_HARDDISK}) \cup {SR_TARGET_ANY, SR_TARGET_INTERRUPT}
    BY <1>3, Tasks DEF HIInv, Message, Quiet, Silent
  <1> HIDE DEF m
  <1>5. /\ KernelInv'
        /\ UNCHANGED <<has_int_msg, panicked>>
        /\ \A x \in Proc \ {TASK_HARDDISK} : buffer'[x] = buffer[x]
        /\ \/ \E sender \in Proc :
                 /\ Offers(sender, TASK_HARDDISK) /\ SR_TARGET_ANY \in {sender, SR_TARGET_ANY}
                 /\ Free(TASK_HARDDISK)' /\ Free(sender)'
                 /\ buffer'[TASK_HARDDISK] = buffer[sender]
                 /\ SameBut(sender)
                 /\ \A x, y \in Proc :
                       Offers(x, y)' <=> Offers(x, y) /\ x # sender
           \/ /\ \A x \in Proc : Offers(x, TASK_HARDDISK) =>
                    SR_TARGET_ANY \notin {x, SR_TARGET_ANY}
              /\ Waiting(TASK_HARDDISK, SR_TARGET_ANY)'
              /\ SameBut(TASK_HARDDISK)
              /\ \A x, y \in Proc : Offers(x, y)' <=> Offers(x, y)
    BY <1>1, <1>2, <1>4, ReceiveOutcome, Tasks
  <1>6. HTypes'
    BY <1>1 DEF HIInv, HTypes
  <1>7. Partners'
    <2>1. \A x, y \in Proc : Offers(x, y)' => Offers(x, y)
      BY <1>5
    <2>2. UNCHANGED <<has_int_msg, phase, pending, fs_phase>>
      BY <1>1, <1>5
    <2> QED BY <2>1, <2>2 DEF HIInv, Partners
  <1>8. DriveInStep'
    <2>1. Quiet'
      BY <1>1, <1>3, <1>5 DEF Quiet, Silent
    <2> QED BY <1>1, <2>1 DEF DriveInStep
  <1>9. OnTime'
    BY <1>1, <1>2, <1>5 DEF OnTime
  <1>10. ~Waiting(TASK_HARDDISK, SR_TARGET_ANY) /\ ~Offers(TASK_HARDDISK, TASK_FS)
    BY <1>2, <1>4, NotSending, Tasks DEF Offers
  <1>11. ~DiskBusy /\ ~DiskAnswering
    BY <1>2, <1>10 DEF DiskBusy, DiskAnswering, Working
  <1>12. CASE \E x \in Proc : Offers(x, TASK_HARDDISK)
    <2>1. ~Sending(TASK_SYS) /\ SysFree
      BY <1>2, TicksCases DEF HIInv, TicksInStep
    <2>2. PICK sender \in Proc :
                 /\ Offers(sender, TASK_HARDDISK)
                 /\ Free(TASK_HARDDISK)' /\ Free(sender)'
                 /\ buffer'[TASK_HARDDISK] = buffer[sender]
                 /\ SameBut(sender)
                 /\ \A x, y \in Proc :
                       Offers(x, y)' <=> Offers(x, y) /\ x # sender
      BY <1>5, <1>12
    <2>3. sender = TASK_FS
      BY <2>1, <2>2, Tasks DEF HIInv, Partners, Offers
    <2>4. /\ Offers(TASK_FS, TASK_HARDDISK) /\ ~Free(TASK_FS)
      BY <1>4, <2>2, <2>3, NotSending, Tasks DEF Offers
    <2>5. fs_phase = "called" /\ DiskRequest(buffer[TASK_FS])
      <3>1. ~Waiting(TASK_FS, TASK_HARDDISK)
        BY <1>4, <2>4, NotSending, Tasks DEF Offers
      <3> QED BY <2>4, <3>1 DEF HIInv, RequestsInStep
    <2>6. Free(TASK_HARDDISK)' /\ Free(TASK_FS)' /\ buffer'[TASK_HARDDISK] = buffer[TASK_FS]
      BY <2>2, <2>3
    <2>7. RequestsInStep'
      <3>1. DiskRequest(buffer[TASK_HARDDISK])'
        BY <2>5, <2>6 DEF DiskRequest
      <3>2. DiskBusy'
        BY <1>1, <2>6, <3>1 DEF DiskBusy
      <3>3. fs_phase' = "called"
        BY <1>1, <2>5
      <3> QED BY <2>6, <3>2, <3>3 DEF RequestsInStep
    <2>8. TicksInStep'
      <3>1. /\ Free(TASK_SYS)' <=> Free(TASK_SYS)
            /\ \A y : Waiting(TASK_SYS, y)' <=> Waiting(TASK_SYS, y)
            /\ Offers(TASK_HARDDISK, TASK_SYS)' <=> Offers(TASK_HARDDISK, TASK_SYS)
        BY <2>2, <2>3, Tasks DEF SameBut
      <3> QED BY <1>1, <1>2, <3>1, SameTicks DEF HIInv
    <2> QED BY <1>5, <1>6, <1>7, <1>8, <1>9, <2>7, <2>8 DEF HIInv
  <1>13. CASE ~\E x \in Proc : Offers(x, TASK_HARDDISK)
    <2>1. /\ Waiting(TASK_HARDDISK, SR_TARGET_ANY)'
          /\ SameBut(TASK_HARDDISK)
          /\ \A x, y \in Proc : Offers(x, y)' <=> Offers(x, y)
      BY <1>5, <1>13
    <2>2. /\ Free(TASK_SYS)' <=> Free(TASK_SYS)
          /\ \A y : Waiting(TASK_SYS, y)' <=> Waiting(TASK_SYS, y)
          /\ Offers(TASK_HARDDISK, TASK_SYS)' <=> Offers(TASK_HARDDISK, TASK_SYS)
          /\ Free(TASK_FS)' <=> Free(TASK_FS)
      BY <2>1, Tasks DEF SameBut
    <2>3. TicksInStep'
      BY <1>1, <1>2, <2>2, SameTicks DEF HIInv
    <2>4. RequestsInStep'
      <3>1. fs_phase \in {"idle", "receiving"} /\ Free(TASK_FS)
        BY <1>11, <1>13, Tasks DEF HIInv, RequestsInStep
      <3>2. DiskFree'
        BY <1>1, <2>1 DEF DiskFree
      <3>3. UNCHANGED fs_phase
        BY <1>1
      <3> QED BY <2>2, <3>1, <3>2, <3>3 DEF RequestsInStep
    <2> QED BY <1>5, <1>6, <1>7, <1>8, <1>9, <2>3, <2>4 DEF HIInv
  <1> QED BY <1>12, <1>13

\* The answer comes to the file system, or waits for it.
LEMMA HdRepliesKeeps ==
    ASSUME HIInv, HdReplies
    PROVE  HIInv'
  <1> DEFINE m == [source |-> TASK_HARDDISK, body |-> hd_msg.body]
  <1>1. /\ HdRuns("reply") /\ hd_pc' = "receive"
        /\ message_send(TASK_HARDDISK, hd_msg.source, m)
        /\ UNCHANGED <<pending, sys_tick_count, sys_pc, phase, asked, hd_msg, goal, cmd,
                       want, t, bytes_left, drive, irq, fs_phase>>
    BY DEF HdReplies, HdRuns, HdGoesTo, Send, sysVars, driveVars, fsVars
  <1>2. /\ hd_pc = "reply" /\ Free(TASK_HARDDISK) /\ ~panicked
        /\ phase[TASK_HARDDISK] = "idle"
        /\ \/ fs_phase = "called" /\ Free(TASK_FS)
           \/ fs_phase = "receiving" /\ Waiting(TASK_FS, TASK_HARDDISK)
        /\ DiskRequest(hd_msg)
    <2>1. HdRuns("reply")
      BY <1>1
    <2> QED BY <2>1, DriverRuns
  <1>3. KernelInv /\ m \in Message
    BY <1>2, Tasks, HardDiskAssumption DEF HIInv, Message, DiskRequest
  <1>4. ~Sending(TASK_FS) /\ (Free(TASK_FS) => \A y : ~Waiting(TASK_FS, y))
    BY <1>2, <1>3, NotSending, Tasks
  <1> HIDE DEF m
  <1>5. /\ KernelInv'
        /\ UNCHANGED <<has_int_msg, panicked>>
        /\ \/ /\ Waiting(TASK_FS, TASK_HARDDISK) \/ Waiting(TASK_FS, SR_TARGET_ANY)
              /\ Free(TASK_HARDDISK)' /\ Free(TASK_FS)'
              /\ SameBut(TASK_FS)
              /\ \A x, y \in Proc : Offers(x, y)' <=> Offers(x, y)
           \/ /\ ~Waiting(TASK_FS, TASK_HARDDISK)
              /\ SameBut(TASK_HARDDISK)
              /\ \A x, y \in Proc :
                    Offers(x, y)' <=> Offers(x, y) \/ (x = TASK_HARDDISK /\ y = TASK_FS)
    <2>1. message_send(TASK_HARDDISK, TASK_FS, m) /\ TASK_FS \in Proc \ {TASK_HARDDISK}
      BY <1>1, <1>2, Tasks DEF DiskRequest
    <2> QED BY <1>2, <1>3, <1>4, <2>1, SendOutcome, Tasks
  <1>6. HTypes'
    BY <1>1 DEF HIInv, HTypes
  <1>7. Partners'
    <2>1. \A x, y \in Proc :
             Offers(x, y)' => Offers(x, y) \/ (x = TASK_HARDDISK /\ y = TASK_FS)
      BY <1>5
    <2>2. UNCHANGED <<has_int_msg, phase, pending, fs_phase>>
      BY <1>1, <1>5
    <2> QED BY <2>1, <2>2 DEF HIInv, Partners
  <1>8. TicksInStep'
    <2>1. /\ Free(TASK_SYS)' <=> Free(TASK_SYS)
          /\ \A y : Waiting(TASK_SYS, y)' <=> Waiting(TASK_SYS, y)
          /\ Offers(TASK_HARDDISK, TASK_SYS)' <=> Offers(TASK_HARDDISK, TASK_SYS)
      BY <1>5, Tasks DEF SameBut
    <2> QED BY <1>1, <1>2, <2>1, SameTicks DEF HIInv
  <1>9. RequestsInStep'
    <2>1. UNCHANGED fs_phase
      BY <1>1
    <2>2. CASE fs_phase = "called" /\ Free(TASK_FS)
      <3>1. SameBut(TASK_HARDDISK) /\ Offers(TASK_HARDDISK, TASK_FS)'
        BY <1>4, <1>5, <2>2, Tasks
      <3>2. Free(TASK_FS)' /\ DiskAnswering'
        BY <1>1, <2>2, <3>1, Tasks DEF SameBut, DiskAnswering
      <3> QED BY <2>1, <2>2, <3>2 DEF RequestsInStep
    <2>3. CASE fs_phase = "receiving" /\ Waiting(TASK_FS, TASK_HARDDISK)
      <3>1. Free(TASK_HARDDISK)' /\ Free(TASK_FS)'
        BY <1>5, <2>3
      <3>2. DiskFree'
        BY <1>1, <3>1 DEF DiskFree
      <3> QED BY <2>1, <2>3, <3>1, <3>2 DEF RequestsInStep
    <2> QED BY <1>2, <2>2, <2>3
  <1>10. DriveInStep'
    <2>1. Quiet
      BY <1>2 DEF HIInv, DriveInStep
    <2>2. Quiet'
      BY <1>1, <1>5, <2>1 DEF Quiet, Silent
    <2> QED BY <1>1, <2>2 DEF DriveInStep
  <1>11. OnTime'
    BY <1>1, <1>2, <1>5 DEF OnTime
  <1> QED BY <1>5, <1>6, <1>7, <1>8, <1>9, <1>10, <1>11 DEF HIInv

\* A request comes to the driver when the driver is free for one.
LEMMA FsCallsKeeps ==
    ASSUME HIInv, NEW r \in Requests, FsCalls(r)
    PROVE  HIInv'
  <1> DEFINE m == [source |-> TASK_FS, body |-> r]
  <1>1. /\ fs_phase = "idle" /\ fs_phase' = "called"
        /\ Free(TASK_FS) /\ ~panicked
        /\ pending' = [pending EXCEPT ![TASK_FS] = TASK_HARDDISK]
        /\ message_send(TASK_FS, TASK_HARDDISK, m)
        /\ UNCHANGED <<sys_tick_count, sys_pc, phase, asked, hdVars, driveVars>>
    BY DEF FsCalls, SendBoth, Runnable, Free, sysVars
  <1>2. UNCHANGED <<hd_pc, hd_msg, t, want, bytes_left, drive, irq>>
    BY <1>1 DEF hdVars, driveVars
  <1>3. KernelInv /\ m \in Message /\ TASK_HARDDISK \in Proc \ {TASK_FS}
    BY Tasks, HardDiskAssumption DEF HIInv, Message
  <1>4. DiskFree
    BY <1>1 DEF HIInv, RequestsInStep
  <1>5. hd_pc \in {"receive", "received"} /\ phase[TASK_HARDDISK] = "idle"
    BY <1>4, TicksCases DEF DiskFree, HIInv, TicksInStep
  <1>6. /\ ~Sending(TASK_HARDDISK)
        /\ \A y : Waiting(TASK_HARDDISK, y) => ~Free(TASK_HARDDISK)
    BY <1>3, <1>4, NotSending, Tasks DEF DiskFree
  <1> HIDE DEF m
  <1>7. /\ KernelInv'
        /\ UNCHANGED <<has_int_msg, panicked>>
        /\ buffer'[TASK_FS] = m
        /\ \/ /\ Waiting(TASK_HARDDISK, TASK_FS) \/ Waiting(TASK_HARDDISK, SR_TARGET_ANY)
              /\ Free(TASK_FS)' /\ Free(TASK_HARDDISK)' /\ buffer'[TASK_HARDDISK] = m
              /\ SameBut(TASK_HARDDISK)
              /\ \A x, y \in Proc : Offers(x, y)' <=> Offers(x, y)
           \/ /\ ~Waiting(TASK_HARDDISK, TASK_FS)
              /\ ~Waiting(TASK_HARDDISK, SR_TARGET_ANY)
              /\ SameBut(TASK_FS)
              /\ \A x, y \in Proc :
                    Offers(x, y)' <=> Offers(x, y) \/ (x = TASK_FS /\ y = TASK_HARDDISK)
    BY <1>1, <1>3, <1>6, SendOutcome, Tasks
  <1>8. HTypes'
    <2>1. pending \in [Proc -> Proc \cup {SR_TARGET_NONE}]
      BY DEF HIInv, HTypes
    <2>2. pending' \in [Proc -> Proc \cup {SR_TARGET_NONE}]
      BY <1>1, <2>1, Tasks
    <2>3. UNCHANGED <<sys_tick_count, phase, asked>>
      BY <1>1
    <2> QED BY <1>2, <2>2, <2>3 DEF HIInv, HTypes
  <1>9. Partners'
    <2>1. \A x, y \in Proc :
             Offers(x, y)' => Offers(x, y) \/ (x = TASK_FS /\ y = TASK_HARDDISK)
      BY <1>7
    <2>2. UNCHANGED <<has_int_msg, phase>>
      BY <1>1, <1>7
    <2>3. /\ pending'[TASK_FS] = TASK_HARDDISK
          /\ pending'[TASK_SYS] = pending[TASK_SYS]
          /\ pending'[TASK_HARDDISK] = pending[TASK_HARDDISK]
      BY <1>1, Tasks DEF HIInv, HTypes
    <2> QED BY <1>1, <2>1, <2>2, <2>3 DEF HIInv, Partners
  <1>10. TicksInStep'
    <2>1. /\ Free(TASK_SYS)' <=> Free(TASK_SYS)
          /\ \A y : Waiting(TASK_SYS, y)' <=> Waiting(TASK_SYS, y)
          /\ Offers(TASK_HARDDISK, TASK_SYS)' <=> Offers(TASK_HARDDISK, TASK_SYS)
      BY <1>7, Tasks DEF SameBut
    <2>2. UNCHANGED <<sys_tick_count, sys_pc, phase, asked>>
      BY <1>1
    <2> QED BY <1>5, <2>1, <2>2, SameTicks DEF HIInv
  <1>11. DiskRequest(m)
    BY DEF DiskRequest, m
  <1>12. RequestsInStep'
    <2>1. CASE Waiting(TASK_HARDDISK, TASK_FS) \/ Waiting(TASK_HARDDISK, SR_TARGET_ANY)
      <3>1. Free(TASK_FS)' /\ Free(TASK_HARDDISK)' /\ buffer'[TASK_HARDDISK] = m
        BY <1>7, <2>1
      <3>2. hd_pc' = "received"
        BY <1>2, <1>4, <1>6, <2>1 DEF DiskFree
      <3>3. DiskBusy'
        BY <1>11, <3>1, <3>2 DEF DiskBusy, DiskRequest
      <3> QED BY <1>1, <3>1, <3>3 DEF RequestsInStep
    <2>2. CASE ~(Waiting(TASK_HARDDISK, TASK_FS) \/ Waiting(TASK_HARDDISK, SR_TARGET_ANY))
      <3>1. SameBut(TASK_FS) /\ Offers(TASK_FS, TASK_HARDDISK)'
        BY <1>7, <2>2, Tasks
      <3>2. hd_pc = "receive" /\ Free(TASK_HARDDISK)
        BY <1>4, <2>2 DEF DiskFree
      <3>3. DiskFree'
        BY <1>2, <3>1, <3>2, Tasks DEF DiskFree, SameBut
      <3>4. DiskRequest(buffer[TASK_FS])'
        BY <1>7, <1>11 DEF DiskRequest
      <3> QED BY <1>1, <3>1, <3>3, <3>4 DEF RequestsInStep
    <2> QED BY <2>1, <2>2
  <1>13. DriveInStep'
    BY <1>1, <1>5, <1>7, SameDrive DEF HIInv
  <1>14. OnTime'
    BY <1>1, <1>2, <1>7 DEF OnTime, HIInv
  <1> QED BY <1>7, <1>8, <1>9, <1>10, <1>12, <1>13, <1>14 DEF HIInv

\* The file system takes the answer to its request, or waits for it.
LEMMA FsReceivesKeeps ==
    ASSUME HIInv, FsReceives
    PROVE  HIInv'
  <1> DEFINE m == [buffer[TASK_FS] EXCEPT !.source = TASK_FS]
  <1>1. /\ fs_phase = "called" /\ fs_phase' = "receiving"
        /\ Free(TASK_FS) /\ ~panicked
        /\ pending' = [pending EXCEPT ![TASK_FS] = SR_TARGET_NONE]
        /\ message_receive(TASK_FS, pending[TASK_FS], m)
        /\ UNCHANGED <<sys_tick_count, sys_pc, phase, asked, hdVars, driveVars>>
    BY DEF FsReceives, ReceiveReply, Runnable, Free, sysVars
  <1>2. UNCHANGED <<hd_pc, hd_msg, t, want, bytes_left, drive, irq>>
    BY <1>1 DEF hdVars, driveVars
  <1>3. KernelInv /\ TASK_HARDDISK # SR_TARGET_ANY
    BY Tasks, TargetAssumption DEF HIInv, Sentinel
  <1>4. DiskBusy \/ DiskAnswering
    <2>1. ~Offers(TASK_FS, TASK_HARDDISK)
      BY <1>1, <1>3, NotSending, Tasks DEF Offers
    <2> QED BY <1>1, <2>1 DEF HIInv, RequestsInStep
  <1>5. DiskBusy => ~Offers(TASK_HARDDISK, TASK_FS)
    <2>1. /\ Sending(TASK_HARDDISK) =>
                ~Free(TASK_HARDDISK) /\ \A y : ~Waiting(TASK_HARDDISK, y)
      BY <1>3, NotSending, Tasks
    <2>2. phase[TASK_HARDDISK] # "idle" => ~Offers(TASK_HARDDISK, TASK_FS)
      BY <2>1, TicksCases, Tasks DEF HIInv, TicksInStep, Offers
    <2> QED BY <2>1, <2>2 DEF DiskBusy, Offers
  <1>6. /\ m \in Message /\ pending[TASK_FS] = TASK_HARDDISK /\ ~has_int_msg[TASK_FS]
        /\ TASK_HARDDISK \in (Proc \ {TASK_FS}) \cup {SR_TARGET_ANY, SR_TARGET_INTERRUPT}
    <2>1. buffer[TASK_FS] \in Message
      BY Tasks DEF HIInv, KernelInv, KernelTypeOK
    <2>2. m \in Message
      BY <2>1, Tasks DEF Message
    <2>3. pending[TASK_FS] = TASK_HARDDISK /\ ~has_int_msg[TASK_FS]
      BY <1>1, Tasks DEF HIInv, Partners
    <2> QED BY <2>2, <2>3, Tasks
  <1> HIDE DEF m
  <1>7. /\ KernelInv'
        /\ UNCHANGED <<has_int_msg, panicked>>
        /\ \A x \in Proc \ {TASK_FS} : buffer'[x] = buffer[x]
        /\ \/ /\ Offers(TASK_HARDDISK, TASK_FS)
              /\ Free(TASK_FS)' /\ Free(TASK_HARDDISK)'
              /\ SameBut(TASK_HARDDISK)
              /\ \A x, y \in Proc : Offers(x, y)' <=> Offers(x, y) /\ x # TASK_HARDDISK
           \/ /\ ~Offers(TASK_HARDDISK, TASK_FS)
              /\ Waiting(TASK_FS, TASK_HARDDISK)'
              /\ SameBut(TASK_FS)
              /\ \A x, y \in Proc : Offers(x, y)' <=> Offers(x, y)
    <2>1. /\ KernelInv'
          /\ UNCHANGED <<has_int_msg, panicked>>
          /\ \A x \in Proc \ {TASK_FS} : buffer'[x] = buffer[x]
          /\ \/ \E sender \in Proc :
                   /\ Offers(sender, TASK_FS) /\ TASK_HARDDISK \in {sender, SR_TARGET_ANY}
                   /\ Free(TASK_FS)' /\ Free(sender)'
                   /\ buffer'[TASK_FS] = buffer[sender]
                   /\ SameBut(sender)
                   /\ \A x, y \in Proc :
                         Offers(x, y)' <=> Offers(x, y) /\ x # sender
             \/ /\ \A x \in Proc : Offers(x, TASK_FS) =>
                      TASK_HARDDISK \notin {x, SR_TARGET_ANY}
                /\ Waiting(TASK_FS, TASK_HARDDISK)'
                /\ SameBut(TASK_FS)
                /\ \A x, y \in Proc : Offers(x, y)' <=> Offers(x, y)
      <3>1. message_receive(TASK_FS, TASK_HARDDISK, m)
        BY <1>1, <1>6
      <3> QED BY <1>1, <1>3, <1>6, <3>1, ReceiveOutcome, Tasks
    <2>2. CASE \E sender \in Proc :
                   /\ Offers(sender, TASK_FS) /\ TASK_HARDDISK \in {sender, SR_TARGET_ANY}
                   /\ Free(TASK_FS)' /\ Free(sender)'
                   /\ SameBut(sender)
                   /\ \A x, y \in Proc :
                         Offers(x, y)' <=> Offers(x, y) /\ x # sender
      BY <1>3, <2>1, <2>2
    <2>3. CASE /\ \A x \in Proc : Offers(x, TASK_FS) =>
                      TASK_HARDDISK \notin {x, SR_TARGET_ANY}
               /\ Waiting(TASK_FS, TASK_HARDDISK)'
               /\ SameBut(TASK_FS)
               /\ \A x, y \in Proc : Offers(x, y)' <=> Offers(x, y)
      BY <2>1, <2>3, Tasks
    <2> QED BY <2>1, <2>2, <2>3
  <1>8. HTypes'
    <2>1. pending \in [Proc -> Proc \cup {SR_TARGET_NONE}]
      BY DEF HIInv, HTypes
    <2>2. pending' \in [Proc -> Proc \cup {SR_TARGET_NONE}]
      BY <1>1, <2>1
    <2>3. UNCHANGED <<sys_tick_count, phase, asked>>
      BY <1>1
    <2> QED BY <1>2, <2>2, <2>3 DEF HIInv, HTypes
  <1>9. Partners'
    <2>1. \A x, y \in Proc : Offers(x, y)' => Offers(x, y)
      BY <1>7
    <2>2. UNCHANGED <<has_int_msg, phase>>
      BY <1>1, <1>7
    <2>3. /\ pending'[TASK_FS] = SR_TARGET_NONE
          /\ pending'[TASK_SYS] = pending[TASK_SYS]
          /\ pending'[TASK_HARDDISK] = pending[TASK_HARDDISK]
      BY <1>1, Tasks DEF HIInv, HTypes
    <2> QED BY <1>1, <2>1, <2>2, <2>3 DEF HIInv, Partners
  <1>10. UNCHANGED <<sys_tick_count, sys_pc, phase, asked>>
    BY <1>1
  <1>11. OnTime'
    BY <1>1, <1>2, <1>7 DEF OnTime, HIInv
  <1>12. CASE Offers(TASK_HARDDISK, TASK_FS)
    <2>1. DiskAnswering
      BY <1>4, <1>5, <1>12
    <2>2. hd_pc = "receive" /\ phase[TASK_HARDDISK] = "idle"
      BY <2>1, TicksCases DEF DiskAnswering, HIInv, TicksInStep
    <2>3. /\ Free(TASK_FS)' /\ Free(TASK_HARDDISK)'
          /\ SameBut(TASK_HARDDISK)
          /\ \A x, y \in Proc : Offers(x, y)' <=> Offers(x, y) /\ x # TASK_HARDDISK
      BY <1>7, <1>12
    <2>4. RequestsInStep'
      <3>1. DiskFree'
        BY <1>2, <2>2, <2>3 DEF DiskFree
      <3> QED BY <1>1, <2>3, <3>1 DEF RequestsInStep
    <2>5. TicksInStep'
      <3>1. ~Offers(TASK_HARDDISK, TASK_SYS)
        BY <1>12, Tasks DEF Offers
      <3>2. /\ Free(TASK_SYS)' <=> Free(TASK_SYS)
            /\ \A y : Waiting(TASK_SYS, y)' <=> Waiting(TASK_SYS, y)
            /\ Offers(TASK_HARDDISK, TASK_SYS)' <=> Offers(TASK_HARDDISK, TASK_SYS)
        BY <2>3, <3>1, Tasks DEF SameBut
      <3> QED BY <1>10, <2>2, <3>2, SameTicks DEF HIInv
    <2>6. DriveInStep'
      BY <1>1, <1>7, <2>2, SameDrive DEF HIInv
    <2> QED BY <1>7, <1>8, <1>9, <1>11, <2>4, <2>5, <2>6 DEF HIInv
  <1>13. CASE ~Offers(TASK_HARDDISK, TASK_FS)
    <2>1. DiskBusy
      BY <1>4, <1>13 DEF DiskAnswering
    <2>2. /\ Waiting(TASK_FS, TASK_HARDDISK)'
          /\ SameBut(TASK_FS)
          /\ \A x, y \in Proc : Offers(x, y)' <=> Offers(x, y)
      BY <1>7, <1>13
    <2>3. /\ Free(TASK_HARDDISK)' <=> Free(TASK_HARDDISK)
          /\ \A y : Waiting(TASK_HARDDISK, y)' <=> Waiting(TASK_HARDDISK, y)
          /\ Free(TASK_SYS)' <=> Free(TASK_SYS)
          /\ \A y : Waiting(TASK_SYS, y)' <=> Waiting(TASK_SYS, y)
      BY <2>2, Tasks DEF SameBut
    <2>4. /\ Offers(TASK_HARDDISK, TASK_SYS)' <=> Offers(TASK_HARDDISK, TASK_SYS)
          /\ Offers(TASK_SYS, TASK_HARDDISK)' <=> Offers(TASK_SYS, TASK_HARDDISK)
          /\ buffer'[TASK_HARDDISK] = buffer[TASK_HARDDISK]
          /\ buffer'[TASK_SYS] = buffer[TASK_SYS]
      BY <1>7, <2>2, Tasks
    <2>5. RequestsInStep'
      <3>1. DiskBusy'
        BY <1>2, <1>10, <2>1, <2>3, <2>4 DEF DiskBusy, DiskRequest
      <3> QED BY <1>1, <2>2, <3>1 DEF RequestsInStep
    <2>6. TicksInStep'
      BY <1>2, <1>10, <2>3, <2>4, TicksCases, SameTicks DEF HIInv
    <2>7. DriveInStep'
      BY <1>1, <1>7, <2>3, SameDrive DEF HIInv
    <2> QED BY <1>7, <1>8, <1>9, <1>11, <2>5, <2>6, <2>7 DEF HIInv
  <1> QED BY <1>12, <1>13

\* The call of the file system returns.
LEMMA FsReturnsKeeps ==
    ASSUME HIInv, FsReturns
    PROVE  HIInv'
  <1>1. /\ fs_phase = "receiving" /\ Free(TASK_FS) /\ fs_phase' = "idle"
        /\ UNCHANGED <<kernelVars, buffer, pending, panicked, sys_tick_count, sys_pc,
                       phase, asked, hdVars, driveVars>>
    BY DEF FsReturns, Runnable, Free, svars, vars
  <1>2. UNCHANGED <<hd_pc, hd_msg, t, want, bytes_left, drive, irq>>
    BY <1>1 DEF hdVars, driveVars
  <1>3. /\ \A x : Free(x)' <=> Free(x)
        /\ \A x, y : Waiting(x, y)' <=> Waiting(x, y)
        /\ \A x, y : Offers(x, y)' <=> Offers(x, y)
        /\ UNCHANGED has_int_msg
    BY <1>1, SameIpc
  <1>4. KernelInv'
    BY <1>1, SameKernelInv DEF HIInv, KernelInv, KernelTypeOK
  <1>5. HTypes'
    BY <1>1, <1>2 DEF HIInv, HTypes
  <1>6. Partners'
    BY <1>1, <1>3 DEF HIInv, Partners
  <1>7. TicksInStep'
    BY <1>1, <1>2, <1>3, TicksCases, SameTicks DEF HIInv
  <1>8. RequestsInStep'
    <2>1. ~Waiting(TASK_FS, TASK_HARDDISK)
      BY <1>1, NotSending, Tasks DEF HIInv
    <2>2. DiskFree
      BY <1>1, <2>1 DEF HIInv, RequestsInStep
    <2>3. DiskFree'
      BY <1>2, <1>3, <2>2 DEF DiskFree
    <2> QED BY <1>1, <1>3, <2>3 DEF RequestsInStep
  <1>9. DriveInStep'
    BY <1>1, <1>3, SameDrive DEF HIInv
  <1>10. OnTime'
    BY <1>1, <1>2 DEF HIInv, OnTime
  <1> QED BY <1>4, <1>5, <1>6, <1>7, <1>8, <1>9, <1>10 DEF HIInv

-----------------------------------------------------------------------------
(* The drive and its interrupt.                                            *)

\* The drive asks for an interrupt only when the driver awaits one for the
\* sector at hand.
LEMMA DriveMoves ==
    ASSUME HIInv, DriveReady \/ DriveStores, UNCHANGED <<svars, hdVars, fsVars>>
    PROVE  /\ DriveInStep'
           /\ DOMAIN drive' = DOMAIN IdleDrive /\ drive'.left \in Nat /\ irq' \in BOOLEAN
  <1>1. UNCHANGED <<hd_pc, goal, cmd, want, bytes_left, has_int_msg, process_flags>>
    BY DEF hdVars, svars, vars, kernelVars
  <1>2. /\ DriveInStep /\ irq \in BOOLEAN /\ bytes_left \in Nat
        /\ DOMAIN drive = DOMAIN IdleDrive /\ drive.left \in Nat
    BY DEF HIInv, HTypes
  <1>3. Free(TASK_HARDDISK)' <=> Free(TASK_HARDDISK)
    BY <1>1 DEF Free
  <1>4. CASE DriveReady
    <2>1. /\ drive.status = "busy"
          /\ drive' = [drive EXCEPT !.status = "drq"]
          /\ irq' = (irq \/ drive.command # "WRITE")
      BY <1>4 DEF DriveReady
    <2>2. /\ DOMAIN drive' = DOMAIN IdleDrive
          /\ drive'.status = "drq" /\ drive'.left = drive.left
          /\ drive'.command = drive.command
      BY <1>2, <2>1 DEF IdleDrive
    <2>3. drive'.left \in Nat /\ irq' \in BOOLEAN
      BY <1>2, <2>1, <2>2
    <2>4. ~Quiet /\ ~AfterSector
      BY <2>1 DEF Quiet, AfterSector
    <2>5. BeforeSector => BeforeSector'
      BY <1>1, <2>1, <2>2 DEF BeforeSector, InWrite, Silent
    <2>6. InRead => InRead'
      <3>1. ASSUME InRead
            PROVE  NotYet /\ drive.command # "WRITE" /\ drive.command = cmd.command
        BY <2>1, <3>1 DEF InRead
      <3>2. ASSUME InRead
            PROVE  Came'
        BY <1>1, <1>3, <2>1, <3>1, <3>2 DEF NotYet, Came, Silent
      <3> QED BY <1>1, <2>2, <3>2 DEF InRead, CommandFits, Due
    <2>7. DriveInStep'
      <3>1. hd_pc \notin {"receive", "received", "reply", "command", "write"}
        BY <1>2, <2>1, <2>4 DEF DriveInStep, BeforeCommand
      <3>2. hd_pc \in {"start", "poll", "status", "timeout"} =>
               want = "DRQ" /\ BeforeSector
        BY <1>2, <2>4 DEF DriveInStep, BeforeCommand
      <3>3. hd_pc \in {"interrupt", "interrupted"} => InRead
        BY <1>2, <2>4 DEF DriveInStep
      <3> QED BY <1>1, <2>5, <2>6, <3>1, <3>2, <3>3 DEF DriveInStep
    <2> QED BY <2>2, <2>3, <2>7
  <1>5. CASE DriveStores
    <2>1. /\ drive.status = "full" /\ irq' = TRUE
          /\ drive' = [drive EXCEPT !.status = IF drive.left = 1 THEN "idle" ELSE "drq",
                                    !.lba = @ + 1, !.left = @ - 1]
      BY <1>5 DEF DriveStores
    <2>2. /\ DOMAIN drive' = DOMAIN IdleDrive
          /\ drive'.status = IF drive.left = 1 THEN "idle" ELSE "drq"
          /\ drive'.left = drive.left - 1
          /\ drive'.command = drive.command
      BY <1>2, <2>1 DEF IdleDrive
    <2>3. ~Quiet /\ ~BeforeSector /\ ~InRead
      BY <2>1 DEF Quiet, BeforeSector, InRead
    <2>4. hd_pc \notin {"receive", "received", "reply", "start", "poll", "status",
                        "timeout", "command", "write"}
      BY <1>2, <2>3 DEF DriveInStep, BeforeCommand
    <2>5. hd_pc \in {"interrupt", "interrupted"}
      BY <2>4 DEF HIInv, RequestsInStep, DiskFree, DiskBusy, DiskAnswering, Working
    <2>6. AfterSector
      BY <1>2, <2>3, <2>5 DEF DriveInStep
    <2>7. InWrite /\ NotYet /\ drive.left = bytes_left
      BY <2>1, <2>6 DEF AfterSector
    <2>8. bytes_left > 0
      BY <2>7 DEF InWrite
    <2>9. drive'.left = bytes_left - 1
      BY <2>2, <2>7
    <2>10. drive'.left \in Nat /\ (drive'.left = 0 <=> drive.left = 1)
      <3>1. bytes_left - 1 \in Nat /\ (bytes_left - 1 = 0 <=> bytes_left = 1)
        BY <1>2, <2>8
      <3> QED BY <2>7, <2>9, <3>1
    <2>11. Came'
      BY <1>1, <1>3, <2>1, <2>7 DEF NotYet, Came, Silent
    <2>12. InWrite'
      BY <1>1, <2>2, <2>7 DEF InWrite
    <2>13. drive'.status = IF drive'.left = 0 THEN "idle" ELSE "drq"
      BY <2>2, <2>10
    <2>14. AfterSector'
      BY <1>1, <2>9, <2>11, <2>12, <2>13 DEF AfterSector
    <2>15. DriveInStep'
      BY <1>1, <2>5, <2>14 DEF DriveInStep
    <2> QED BY <2>1, <2>2, <2>10, <2>15
  <1> QED BY <1>4, <1>5

\* A step of the drive.
LEMMA DriveStepKeeps ==
    ASSUME HIInv, DriveStep
    PROVE  HIInv'
  <1>1. /\ DriveReady \/ DriveStores
        /\ UNCHANGED <<svars, hdVars, fsVars>>
    BY DEF DriveStep
  <1>2. /\ DriveInStep'
        /\ DOMAIN drive' = DOMAIN IdleDrive /\ drive'.left \in Nat /\ irq' \in BOOLEAN
    BY <1>1, DriveMoves
  <1>3. UNCHANGED <<kernelVars, buffer, pending, panicked, sys_tick_count, sys_pc,
                    phase, asked, hd_pc, hd_msg, t, want, bytes_left, fs_phase>>
    BY <1>1 DEF svars, vars, hdVars, fsVars
  <1>4. /\ \A x : Free(x)' <=> Free(x)
        /\ \A x, y : Waiting(x, y)' <=> Waiting(x, y)
        /\ \A x, y : Offers(x, y)' <=> Offers(x, y)
        /\ UNCHANGED has_int_msg
    BY <1>3, SameIpc
  <1>5. KernelInv'
    BY <1>3, SameKernelInv DEF HIInv, KernelInv, KernelTypeOK
  <1>6. HTypes'
    BY <1>2, <1>3 DEF HIInv, HTypes
  <1>7. Partners'
    BY <1>3, <1>4 DEF HIInv, Partners
  <1>8. TicksInStep'
    BY <1>3, <1>4, TicksCases, SameTicks DEF HIInv
  <1>9. RequestsInStep'
    BY <1>3, <1>4, SameRequests DEF HIInv
  <1>10. OnTime'
    BY <1>3 DEF HIInv, OnTime
  <1> QED BY <1>2, <1>5, <1>6, <1>7, <1>8, <1>9, <1>10 DEF HIInv

\* The interrupt wakes the driver where it waits for one, or is recorded where
\* it is about to.
LEMMA HandlerKeeps ==
    ASSUME HIInv, harddisk_handler
    PROVE  HIInv'
  <1>1. /\ irq /\ irq' = FALSE /\ ~panicked
        /\ process_inform_interrupt(TASK_HARDDISK)
        /\ UNCHANGED <<pending, panicked, sysVars, hdVars, drive, disk, fsVars>>
    BY DEF harddisk_handler, Interrupt
  <1>2. UNCHANGED <<sys_tick_count, sys_pc, phase, asked, hd_pc, hd_msg, goal, cmd, t,
                    want, bytes_left, fs_phase>>
    BY <1>1 DEF sysVars, hdVars, fsVars
  <1>3. /\ KernelInv /\ DriveInStep
        /\ process_flags \in [Proc -> SUBSET {SENDING, RECEIVING}]
        /\ recvfrom \in [Proc -> Proc \cup Sentinel]
        /\ has_int_msg \in [Proc -> BOOLEAN]
    BY DEF HIInv, KernelInv, KernelTypeOK
  <1>4. KernelInv'
    BY <1>1, <1>3, InformInterruptKeeps, Tasks
  <1>5. ~Quiet /\ ~BeforeSector /\ ~BeforeCommand /\ ~NotYet
    BY <1>1 DEF Quiet, Silent, BeforeSector, BeforeCommand, NotYet
  <1>6. hd_pc \in {"interrupt", "interrupted"} /\ (InRead \/ AfterSector)
    <2>1. hd_pc \notin {"receive", "received", "reply", "start", "poll", "status",
                        "timeout", "command", "write"}
      BY <1>3, <1>5 DEF DriveInStep
    <2>2. hd_pc \in {"interrupt", "interrupted"}
      BY <2>1 DEF HIInv, RequestsInStep, DiskFree, DiskBusy, DiskAnswering, Working
    <2> QED BY <1>3, <2>2 DEF DriveInStep
  <1>7. /\ ~has_int_msg[TASK_HARDDISK]
        /\ ~(hd_pc = "interrupted" /\ Free(TASK_HARDDISK))
    <2>1. Came
      BY <1>5, <1>6 DEF InRead, AfterSector
    <2>2. has_int_msg[TASK_HARDDISK] \in BOOLEAN
      BY <1>3, Tasks
    <2> QED BY <1>1, <2>1, <2>2 DEF Came, Silent
  <1>8. /\ phase[TASK_HARDDISK] = "idle" /\ DiskBusy /\ DiskRequest(hd_msg)
        /\ \/ fs_phase = "called" /\ Free(TASK_FS)
           \/ fs_phase = "receiving" /\ Waiting(TASK_FS, TASK_HARDDISK)
    <2>1. phase[TASK_HARDDISK] = "idle"
      BY <1>6, TicksCases DEF HIInv, TicksInStep
    <2>2. ~DiskFree /\ ~DiskAnswering
      BY <1>6 DEF DiskFree, DiskAnswering
    <2>3. /\ DiskBusy
          /\ \/ fs_phase = "called" /\ Free(TASK_FS)
             \/ fs_phase = "receiving" /\ Waiting(TASK_FS, TASK_HARDDISK)
      BY <2>2 DEF HIInv, RequestsInStep
    <2> QED BY <1>6, <2>1, <2>3 DEF DiskBusy
  <1>9. /\ \A p \in Proc \ {TASK_HARDDISK} : has_int_msg'[p] = has_int_msg[p]
        /\ SameBut(TASK_HARDDISK)
        /\ \A x, y \in Proc : Offers(x, y)' <=> Offers(x, y)
        /\ \/ hd_pc = "interrupted" /\ Free(TASK_HARDDISK)' /\ ~has_int_msg'[TASK_HARDDISK]
           \/ /\ has_int_msg'[TASK_HARDDISK]
              /\ Free(TASK_HARDDISK)' <=> Free(TASK_HARDDISK)
              /\ \A y : Waiting(TASK_HARDDISK, y)' <=> Waiting(TASK_HARDDISK, y)
    <2>1. CASE WaitsFor(TASK_HARDDISK, SR_TARGET_INTERRUPT)
      <3>1. /\ has_int_msg' = [has_int_msg EXCEPT ![TASK_HARDDISK] = FALSE]
            /\ process_flags' = [process_flags EXCEPT ![TASK_HARDDISK] = @ \ {RECEIVING}]
            /\ recvfrom' = [recvfrom EXCEPT ![TASK_HARDDISK] = SR_TARGET_NONE]
            /\ UNCHANGED sendto
        BY <1>1, <2>1 DEF process_inform_interrupt
      <3>2. Waiting(TASK_HARDDISK, recvfrom[TASK_HARDDISK]) /\ ~Free(TASK_HARDDISK)
        BY <1>3, <2>1, NotSending, Tasks DEF WaitsFor
      <3>3. process_flags[TASK_HARDDISK] = {RECEIVING}
        BY <3>2 DEF Waiting
      <3>4. /\ process_flags'[TASK_HARDDISK] = {}
            /\ \A x \in Proc \ {TASK_HARDDISK} :
                  process_flags'[x] = process_flags[x] /\ recvfrom'[x] = recvfrom[x]
        BY <1>3, <3>1, <3>3, Tasks
      <3>5. /\ ~has_int_msg'[TASK_HARDDISK]
            /\ \A p \in Proc \ {TASK_HARDDISK} : has_int_msg'[p] = has_int_msg[p]
        BY <1>3, <3>1, Tasks
      <3>6. SENDING # RECEIVING
        BY DEF SENDING, RECEIVING
      <3>7. \A x \in Proc : Sending(x)' <=> Sending(x)
        BY <3>3, <3>4, <3>6 DEF Sending
      <3>8. \A x, y \in Proc : Offers(x, y)' <=> Offers(x, y)
        BY <3>1, <3>7 DEF Offers
      <3>9. SameBut(TASK_HARDDISK) /\ Free(TASK_HARDDISK)'
        BY <3>4 DEF SameBut, Free, Waiting
      <3>10. hd_pc = "interrupted"
        BY <1>6, <1>8, <3>2 DEF DiskBusy
      <3> QED BY <3>5, <3>8, <3>9, <3>10
    <2>2. CASE ~WaitsFor(TASK_HARDDISK, SR_TARGET_INTERRUPT)
      <3>1. /\ has_int_msg' = [has_int_msg EXCEPT ![TASK_HARDDISK] = TRUE]
            /\ UNCHANGED <<process_flags, recvfrom, sendto>>
        BY <1>1, <2>2 DEF process_inform_interrupt
      <3>2. /\ has_int_msg'[TASK_HARDDISK]
            /\ \A p \in Proc \ {TASK_HARDDISK} : has_int_msg'[p] = has_int_msg[p]
        BY <1>3, <3>1, Tasks
      <3>3. /\ \A x : Free(x)' <=> Free(x)
            /\ \A x, y : Waiting(x, y)' <=> Waiting(x, y)
            /\ \A x, y : Offers(x, y)' <=> Offers(x, y)
        BY <3>1 DEF Free, Waiting, Offers, Sending
      <3> QED BY <3>2, <3>3 DEF SameBut
    <2> QED BY <2>1, <2>2
  <1>10. HTypes'
    BY <1>1, <1>2 DEF HIInv, HTypes
  <1>11. Partners'
    <2>1. UNCHANGED <<phase, pending, fs_phase>>
      BY <1>1, <1>2
    <2> QED BY <1>9, <2>1 DEF HIInv, Partners
  <1>12. TicksInStep'
    <2>1. /\ Free(TASK_SYS)' <=> Free(TASK_SYS)
          /\ \A y : Waiting(TASK_SYS, y)' <=> Waiting(TASK_SYS, y)
          /\ Offers(TASK_HARDDISK, TASK_SYS)' <=> Offers(TASK_HARDDISK, TASK_SYS)
      BY <1>9, Tasks DEF SameBut
    <2> QED BY <1>2, <1>8, <2>1, SameTicks DEF HIInv
  <1>13. RequestsInStep'
    <2>1. DiskBusy'
      <3>1. \/ Free(TASK_HARDDISK)
            \/ hd_pc = "interrupted" /\ Waiting(TASK_HARDDISK, SR_TARGET_INTERRUPT)
        BY <1>6, <1>8 DEF DiskBusy
      <3> QED BY <1>2, <1>6, <1>8, <1>9, <3>1 DEF DiskBusy, DiskRequest, Working
    <2>2. /\ Free(TASK_FS)' <=> Free(TASK_FS)
          /\ Waiting(TASK_FS, TASK_HARDDISK)' <=> Waiting(TASK_FS, TASK_HARDDISK)
      BY <1>9, Tasks DEF SameBut
    <2> QED BY <1>2, <1>8, <2>1, <2>2 DEF RequestsInStep
  <1>14. DriveInStep'
    <2>1. Came'
      BY <1>1, <1>2, <1>7, <1>9 DEF Came, Silent
    <2>2. InRead' \/ AfterSector'
      BY <1>1, <1>2, <1>5, <1>6, <2>1 DEF InRead, AfterSector, InWrite, CommandFits, Due
    <2> QED BY <1>2, <1>6, <2>2 DEF DriveInStep
  <1>15. OnTime'
    BY <1>1, <1>2 DEF HIInv, OnTime
  <1> QED BY <1>4, <1>10, <1>11, <1>12, <1>13, <1>14, <1>15 DEF HIInv

-----------------------------------------------------------------------------
(* Every step, and what follows.                                           *)

\* A step in which nothing changes.
LEMMA HStutterKeeps ==
    ASSUME HIInv, UNCHANGED hvars
    PROVE  HIInv'
  <1>1. UNCHANGED <<kernelVars, buffer, pending, panicked, sys_tick_count, sys_pc,
                    phase, asked, hd_pc, hd_msg, t, want, bytes_left, drive, irq,
                    fs_phase, hdVars, driveVars>>
    BY DEF hvars, svars, vars, hdVars, driveVars, fsVars
  <1>2. /\ \A x : Free(x)' <=> Free(x)
        /\ \A x, y : Waiting(x, y)' <=> Waiting(x, y)
        /\ \A x, y : Offers(x, y)' <=> Offers(x, y)
        /\ UNCHANGED has_int_msg
    BY <1>1, SameIpc
  <1>3. KernelInv'
    BY <1>1, SameKernelInv DEF HIInv, KernelInv, KernelTypeOK
  <1>4. HTypes'
    BY <1>1 DEF HIInv, HTypes
  <1>5. Partners'
    BY <1>1, <1>2 DEF HIInv, Partners
  <1>6. TicksInStep'
    BY <1>1, <1>2, TicksCases, SameTicks DEF HIInv
  <1>7. RequestsInStep'
    BY <1>1, <1>2, SameRequests DEF HIInv
  <1>8. DriveInStep'
    BY <1>1, <1>2, SameDrive DEF HIInv
  <1>9. OnTime'
    BY <1>1 DEF HIInv, OnTime
  <1> QED BY <1>3, <1>4, <1>5, <1>6, <1>7, <1>8, <1>9 DEF HIInv

\* The calls of get_ticks that the driver makes.
LEMMA HdGetsTicksKeeps ==
    ASSUME HIInv, HdGetsTicks
    PROVE  HIInv'
  BY GetTicksKeeps, GetTicksReceiveKeeps DEF HdGetsTicks

\* Every step of the driver keeps the invariant.
LEMMA HdStepKeeps ==
    ASSUME HIInv, HdStep
    PROVE  HIInv'
  <1>1. CASE HdReceives \/ HdHandles \/ HdReplies
    BY <1>1, HdReceivesKeeps, HdHandlesKeeps, HdRepliesKeeps
  <1>2. CASE HdGetsTicks \/ HdStartsWaiting \/ HdGoesOnWaiting \/ HdReadsStatus
    BY <1>2, HdGetsTicksKeeps, WaitforKeeps, HdReadsStatusKeeps
  <1>3. CASE HdGivesUp \/ HdCommandOut \/ HdAwaits
    BY <1>3, HdGivesUpKeeps, HdCommandOutKeeps, HdAwaitsKeeps
  <1>4. CASE HdIdentifies \/ HdReadsPrimary \/ HdReadsExtended
    BY <1>4, HdIdentifiesKeeps, TablesKeep
  <1>5. CASE HdReadsSector \/ HdWritesSector \/ HdWroteSector
    BY <1>5, HdReadsSectorKeeps, HdWritesSectorKeeps, HdWroteSectorKeeps
  <1> QED BY <1>1, <1>2, <1>3, <1>4, <1>5 DEF HdStep

\* The invariant is inductive.
LEMMA NextHIInv == HIInv /\ [HNext]_hvars => HIInv'
  <1> SUFFICES ASSUME HIInv, [HNext]_hvars PROVE HIInv'
    OBVIOUS
  <1>1. CASE HdStep
    BY <1>1, HdStepKeeps
  <1>2. CASE FsStep
    BY <1>2, FsReceivesKeeps, FsReturnsKeeps DEF FsStep
  <1>3. CASE SystemStep
    BY <1>3, SysReceiveKeeps, SysHandleKeeps, SysSendKeeps DEF SystemStep, SysStep
  <1>4. CASE \E r \in Requests : FsCalls(r)
    BY <1>4, FsCallsKeeps
  <1>5. CASE DriveStep \/ harddisk_handler
    BY <1>5, DriveStepKeeps, HandlerKeeps
  <1>6. CASE Tick /\ UNCHANGED <<hdVars, driveVars, fsVars>>
    BY <1>6, TickKeeps
  <1>7. CASE UNCHANGED hvars
    BY <1>7, HStutterKeeps
  <1> QED BY <1>1, <1>2, <1>3, <1>4, <1>5, <1>6, <1>7 DEF HNext

\* The driver, the drive, the system task and the file system stay in step.
THEOREM HInvariance == HSpec => []HIInv
  BY InitHIInv, NextHIInv, PTL DEF HSpec

\* get_ticks returns the answer of task_sys to this call and no older one.
THEOREM TicksAreFresh == HSpec => []FreshTicks
  <1>1. HIInv => FreshTicks
    <2> SUFFICES ASSUME HIInv, NEW c \in Client, Returns(c)
                 PROVE  /\ buffer[c].source = TASK_SYS
                        /\ \E n \in asked[c]..sys_tick_count : buffer[c].body = Answer(n)
      BY DEF FreshTicks
    <2>1. c = TASK_HARDDISK
      BY DEF HIInv, Partners, Returns
    <2>2. FreshAnswer(buffer[TASK_HARDDISK], TASK_SYS)
      BY <2>1, AnswerCame
    <2> QED BY <2>1, <2>2 DEF FreshAnswer
  <1> QED BY <1>1, HInvariance, PTL

\* Commands go to a drive that is idle and owes no interrupt, and data is moved
\* only while the drive asks for it.
THEOREM ProtocolIsKept == HSpec => []KeepsProtocol
  <1>1. HIInv => KeepsProtocol
    <2> SUFFICES ASSUME HIInv PROVE KeepsProtocol
      OBVIOUS
    <2>1. hd_pc = "command" =>
             drive.status = "idle" /\ ~irq /\ ~has_int_msg[TASK_HARDDISK]
      BY DEF HIInv, DriveInStep, BeforeCommand, Quiet, Silent
    <2>2. hd_pc = "write" => drive.status = "drq"
      BY DEF HIInv, DriveInStep
    <2>3. HdRuns("interrupted") /\ cmd.command # "WRITE" => drive.status = "drq"
      BY SectorCame
    <2> QED BY <2>1, <2>2, <2>3 DEF KeepsProtocol
  <1> QED BY <1>1, HInvariance, PTL

\* The driver stops the system only when the drive has been silent for the whole
\* timeout, and never spins.
THEOREM GivesUpNoEarlier == HSpec => []GivesUpLate
  <1>1. HIInv => GivesUpLate
    <2> SUFFICES ASSUME HIInv PROVE GivesUpLate
      OBVIOUS
    <2>1. hd_pc # "spin"
      BY DEF HIInv, RequestsInStep, DiskFree, DiskBusy, DiskAnswering, Working
    <2> QED BY <2>1 DEF HIInv, OnTime, GivesUpLate
  <1> QED BY <1>1, HInvariance, PTL

-----------------------------------------------------------------------------
(* The data.  A chain of tables is a recursive function; it exists.        *)

\* A set of numbers that is not empty has a least one.
LEMMA LeastNumber ==
    ASSUME NEW S \in SUBSET Nat, S # {}
    PROVE  \E m \in S : \A k \in S : m <= k
  <1> DEFINE less == OpToRel(<, Nat)
  <1>1. IsWellFoundedOn(less, Nat)
    BY NatLessThanWellFounded
  <1>2. \A x, y \in Nat : y < x => <<y, x>> \in less
    BY DEF OpToRel
  <1> HIDE DEF less
  <1>3. PICK x \in S : \A y \in S : ~(<<y, x>> \in less)
    BY <1>1, WFMin
  <1>4. \A y \in S : x \in Nat /\ y \in Nat /\ ~(y < x)
    BY <1>2, <1>3
  <1> QED BY <1>4

\* The walk along a chain of tables is well defined: it begins at the extended
\* partition, and each table names the next.
LEMMA TableAtIs ==
    ASSUME NEW p
    PROVE  \A j \in Nat :
              TableAt(p)[j] = IF j = 0 THEN Table[0][p].start
                              ELSE Table[0][p].start + Table[TableAt(p)[j - 1]][2].start
  <1> DEFINE Hop(x)    == Table[0][p].start + Table[x][2].start
             Walk(f, n) == /\ f[0] = Table[0][p].start
                           /\ \A i \in 1..n : f[i] = Hop(f[i - 1])
  <1> HIDE DEF Hop
  <1>1. \A n \in Nat : \E f : Walk(f, n)
    <2> DEFINE Bad == {n \in Nat : ~\E f : Walk(f, n)}
    <2>1. SUFFICES Bad = {}
      OBVIOUS
    <2>2. SUFFICES ASSUME Bad # {} PROVE FALSE
      OBVIOUS
    <2>3. PICK n \in Bad : \A k \in Bad : n <= k
      <3>1. Bad \in SUBSET Nat
        OBVIOUS
      <3> HIDE DEF Bad
      <3> QED BY <2>2, <3>1, LeastNumber
    <2>4. n \in Nat /\ ~\E f : Walk(f, n)
      BY <2>3
    <2>5. CASE n = 0
      <3>1. Walk([i \in {0} |-> Table[0][p].start], 0)
        OBVIOUS
      <3> QED BY <2>4, <2>5, <3>1
    <2>6. CASE n # 0
      <3>1. n - 1 \in Nat /\ n - 1 \notin Bad
        <4>1. n - 1 \in Nat /\ ~(n <= n - 1)
          BY <2>4, <2>6
        <4> HIDE DEF Bad
        <4> QED BY <2>3, <4>1
      <3>2. PICK f : Walk(f, n - 1)
        BY <3>1
      <3> DEFINE g == [i \in 0..n |-> IF i = n THEN Hop(f[n - 1]) ELSE f[i]]
      <3>3. g[0] = Table[0][p].start
        BY <2>4, <2>6, <3>2
      <3>4. ASSUME NEW i \in 1..n
            PROVE  g[i] = Hop(g[i - 1])
        <4>1. i \in 0..n /\ i - 1 \in 0..n /\ i - 1 # n
          BY <2>4
        <4>2. g[i] = (IF i = n THEN Hop(f[n - 1]) ELSE f[i]) /\ g[i - 1] = f[i - 1]
          BY <4>1
        <4>3. CASE i = n
          BY <4>2, <4>3
        <4>4. CASE i # n
          <5>1. i \in 1..n - 1
            BY <4>4, <2>4
          <5>2. f[i] = Hop(f[i - 1])
            BY <3>2, <5>1
          <5> QED BY <4>2, <4>4, <5>2
        <4> QED BY <4>3, <4>4
      <3>5. Walk(g, n)
        <4> HIDE DEF g
        <4> QED BY <3>3, <3>4
      <3> QED BY <2>4, <3>5
    <2> QED BY <2>5, <2>6
  <1>2. ASSUME NEW f, NEW g, NEW m \in Nat, NEW n \in Nat, Walk(f, m), Walk(g, n),
               NEW k \in Nat, k <= m, k <= n
        PROVE  f[k] = g[k]
    <2> DEFINE Bad == {i \in 0..k : f[i] # g[i]}
    <2>1. SUFFICES ASSUME Bad # {} PROVE FALSE
      OBVIOUS
    <2>2. PICK i \in Bad : \A h \in Bad : i <= h
      <3>1. Bad \in SUBSET Nat
        OBVIOUS
      <3> HIDE DEF Bad
      <3> QED BY <2>1, <3>1, LeastNumber
    <2>3. i \in 0..k /\ f[i] # g[i]
      BY <2>2
    <2>4. i # 0
      BY <1>2, <2>3
    <2>5. i - 1 \in 0..k /\ i - 1 \notin Bad
      <3>1. i - 1 \in 0..k /\ ~(i <= i - 1)
        BY <2>3, <2>4
      <3> HIDE DEF Bad
      <3> QED BY <2>2, <3>1
    <2>6. f[i - 1] = g[i - 1]
      BY <2>5
    <2>7. i \in 1..m /\ i \in 1..n
      BY <1>2, <2>3, <2>4
    <2>8. f[i] = Hop(f[i - 1]) /\ g[i] = Hop(g[i - 1])
      BY <1>2, <2>7
    <2> QED BY <2>3, <2>6, <2>8
  <1>3. \A n \in Nat : Walk(CHOOSE f : Walk(f, n), n)
    BY <1>1
  <1> DEFINE W(n) == CHOOSE f : Walk(f, n)
             F    == [j \in Nat |-> W(j)[j]]
  <1>4. \A n \in Nat : Walk(W(n), n)
    BY <1>3
  <1> HIDE DEF W
  <1>5. \A j \in Nat : F[j] = IF j = 0 THEN Table[0][p].start ELSE Hop(F[j - 1])
    <2> SUFFICES ASSUME NEW j \in Nat
                 PROVE  F[j] = IF j = 0 THEN Table[0][p].start ELSE Hop(F[j - 1])
      OBVIOUS
    <2>1. Walk(W(j), j)
      BY <1>4
    <2>2. CASE j = 0
      BY <2>1, <2>2
    <2>3. CASE j # 0
      <3>1. j - 1 \in Nat /\ j \in 1..j /\ j - 1 <= j
        BY <2>3
      <3>2. Walk(W(j - 1), j - 1)
        BY <1>4, <3>1
      <3>3. W(j)[j] = Hop(W(j)[j - 1])
        BY <2>1, <3>1
      <3> HIDE DEF Walk
      <3>4. W(j)[j - 1] = W(j - 1)[j - 1]
        BY <1>2, <2>1, <3>1, <3>2
      <3>5. F[j] = W(j)[j] /\ F[j - 1] = W(j - 1)[j - 1]
        BY <3>1
      <3> QED BY <2>3, <3>3, <3>4, <3>5
    <2> QED BY <2>2, <2>3
  <1>6. F = [j \in Nat |-> IF j = 0 THEN Table[0][p].start ELSE Hop(F[j - 1])]
    <2>1. F = [j \in Nat |-> F[j]]
      OBVIOUS
    <2> HIDE DEF F
    <2> QED BY <1>5, <2>1
  <1> HIDE DEF F
  <1>7. TableAt(p) = [j \in Nat |-> IF j = 0 THEN Table[0][p].start
                                    ELSE Hop(TableAt(p)[j - 1])]
    BY <1>6 DEF TableAt, Hop
  <1> QED
    <2> HIDE DEF Hop
    <2>1. \A j \in Nat : TableAt(p)[j] = IF j = 0 THEN Table[0][p].start
                                        ELSE Hop(TableAt(p)[j - 1])
      BY <1>7
    <2> QED BY <2>1 DEF Hop

-----------------------------------------------------------------------------
(* The inductive invariant of the data.                                    *)

\* Memory as the file system has handed it over.
Untouched == mem = [i \in 1..NSECTOR |-> InMemory(i)]

\* A request that the driver has not looked at yet.
Unhandled(r) ==
    \/ Offers(TASK_FS, TASK_HARDDISK) /\ buffer[TASK_FS].body = r
    \/ hd_pc = "received" /\ Free(TASK_HARDDISK) /\ buffer[TASK_HARDDISK].body = r

RequestsFit == \A r \in Requests : Unhandled(r) => MayAsk(r) /\ Untouched

\* What an info array notes: where a device is; all that the walk finds up to
\* the entry of the j-th logical partition of p; all devices.
NotedIn(info, d) ==
    IF d < HD_MAX_PRIM
    THEN info.primary[d]
    ELSE info.logical[(d - HD_MINOR_1A) % HD_NUM_SUB_PER_DRIVE]

Known(info, d) == NotedIn(info, d) = Partition[d]

KnownBefore(info, p, j) ==
    /\ Known(info, 0)
    /\ \A q \in Part : q <= p /\ Table[0][q].id # "NONE" => Known(info, q)
    /\ \A q \in Part, k \in Sub :
          (q < p \/ (q = p /\ k < j)) /\ HasLogical(q, k) => Known(info, MinorOf(q, k))

AllKnown(info) == \A d \in DOMAIN Partition : Known(info, d)

AtWork == hd_pc \in Working \ {"reply"}

\* Where the walk over the tables is.
WalkInStep ==
    /\ harddisk_info.open_count > 0 /\ ~(AtWork /\ goal \in {"primary", "extended"})
          => AllKnown(harddisk_info)
    /\ AtWork /\ goal \in {"identify", "primary", "extended"} =>
          hd_msg.body.type = "DEVOPEN"
    /\ AtWork /\ goal = "identify" => harddisk_info.open_count < MaxOpen
    /\ AtWork /\ goal = "primary" => cmd.lba = 0 /\ Known(harddisk_info, 0)
    /\ AtWork /\ goal = "extended" =>
          /\ scan.part \in Part /\ scan.table = Table[0]
          /\ HasLogical(scan.part, scan.sub)
          /\ scan.base = TableAt(scan.part)[scan.sub] /\ cmd.lba = scan.base
          /\ KnownBefore(harddisk_info, scan.part, scan.sub)

\* What is done of a transfer, and the sector that the drive is at.
Done(n) == \A i \in 1..n : mem[i] = disk[Place(hd_msg.body, i)]

TransferInStep ==
    AtWork /\ goal = "transfer" =>
        /\ hd_msg.body.type = IF cmd.command = "WRITE" THEN "DEVWRITE" ELSE "DEVREAD"
        /\ bytes_left <= hd_msg.body.count
        /\ cmd.command = "WRITE" => Untouched
        /\ Done(la - 1)

Sent == cmd.command = "WRITE" /\ drive.status # "full"

PlaceInStep ==
    /\ hd_pc \in {"start", "poll", "status", "timeout", "command"} =>
          IF want = "DRQ"
          THEN drive.lba = Place(hd_msg.body, la)
          ELSE goal = "transfer" =>
                  bytes_left = hd_msg.body.count /\ cmd.lba = Place(hd_msg.body, 1)
    /\ hd_pc = "command" => want # "DRQ"
    /\ hd_pc = "write" => drive.lba = Place(hd_msg.body, la)
    /\ hd_pc \in {"interrupt", "interrupted"} =>
          IF goal # "transfer" THEN drive.lba = cmd.lba
          ELSE /\ drive.lba = Place(hd_msg.body, la) + (IF Sent THEN 1 ELSE 0)
               /\ drive.status = "full" => drive.held = mem[la]
               /\ Sent => Done(la)

ReplyInStep ==
    hd_pc = "reply" =>
        /\ hd_msg.body.type \in {"DEVREAD", "DEVWRITE"} => Done(hd_msg.body.count)
        /\ hd_msg.body.type = "DEVWRITE" => Untouched
        /\ hd_msg.body.type = "DEVIOCTL" => geo = Partition[hd_msg.body.device]

Notes == [open_count : 0..MaxOpen,
          primary : [0..HD_NUM_PART_PER_DRIVE -> Info],
          logical : [0..HD_NUM_SUB_PER_DRIVE - 1 -> Info]]

\* The types of what the driver knows and moves; the others are in HIInv.
DataTypes ==
    /\ goal \in {"none", "identify", "primary", "extended", "transfer"}
    /\ cmd.command \in {"NONE", "IDENTIFY", "READ", "WRITE"}
    /\ cmd.lba \in 0..DiskSize /\ cmd.sector_count \in 0..NSECTOR - 1
    /\ bytes_left \in 0..NSECTOR
    /\ harddisk_info \in Notes
    /\ DOMAIN scan = DOMAIN NoScan
    /\ scan.part \in 0..HD_NUM_PART_PER_DRIVE /\ scan.sub \in Sub
    /\ scan.base \in 0..DiskSize
    /\ drive.status \in {"idle", "busy", "full", "drq"}
    /\ drive.lba \in 0..DiskSize /\ drive.left \in 0..NSECTOR
    /\ disk \in [Sector -> Data] /\ mem \in [1..NSECTOR -> Data]
    /\ geo \in Info

DInv ==
    /\ DataTypes /\ RequestsFit /\ WalkInStep
    /\ TransferInStep /\ PlaceInStep /\ ReplyInStep

-----------------------------------------------------------------------------
(* The devices of the drive.                                               *)

LEMMA Sizes ==
    /\ HD_NUM_PART_PER_DRIVE \in Nat /\ HD_NUM_PART_PER_DRIVE > 0
    /\ HD_NUM_SUB_PER_PART \in Nat /\ HD_NUM_SUB_PER_PART > 0
    /\ HD_MINOR_1A \in Nat /\ DiskSize \in Nat /\ DiskSize > 0
    /\ HD_MINOR_1A >= HD_MAX_PRIM
    /\ HD_MAX_PRIM \in Nat /\ HD_MAX_PRIM > HD_NUM_PART_PER_DRIVE
    /\ NSECTOR \in Nat /\ NSECTOR > 1 /\ MaxOpen \in Nat
  BY HardDiskAssumption, TableAssumption DEF HD_MAX_PRIM

\* Where in the array a logical partition is noted.
Index(p, j) == (p - 1) * HD_NUM_SUB_PER_PART + j

\* Each logical partition has a place of its own in the array.
LEMMA IndexFits ==
    ASSUME NEW p \in Part, NEW j \in Sub
    PROVE  /\ Index(p, j) \in 0..HD_NUM_SUB_PER_DRIVE - 1
           /\ \A q \in Part, k \in Sub : Index(p, j) = Index(q, k) => p = q /\ j = k
  <1> DEFINE S == HD_NUM_SUB_PER_PART
             N == HD_NUM_PART_PER_DRIVE
  <1>1. N \in Nat /\ S \in Nat /\ N > 0 /\ S > 0
    BY Sizes
  <1>2. p \in 1..N /\ j \in 0..S - 1
    BY DEF Part, Sub
  <1>3. \A a, b \in Nat : a < b => a * S + S <= b * S
    <2> SUFFICES ASSUME NEW a \in Nat, NEW b \in Nat, a < b
                 PROVE  a * S + S <= b * S
      OBVIOUS
    <2>1. PICK d \in Nat : b = a + 1 + d
      <3>1. b - a - 1 \in Nat /\ b = a + 1 + (b - a - 1)
        OBVIOUS
      <3> QED BY <3>1
    <2>2. b * S = a * S + S + d * S /\ d * S \in Nat /\ a * S \in Nat
      BY <1>1, <2>1
    <2> QED BY <1>1, <2>2
  <1>4. \A a \in Nat : a * S \in Nat
    BY <1>1
  <1> HIDE DEF S, N
  <1>5. Index(p, j) \in 0..S * N - 1
    <2>1. p - 1 \in Nat /\ p - 1 < N
      BY <1>1, <1>2
    <2>2. (p - 1) * S + S <= N * S /\ N * S = S * N
      BY <1>1, <1>3, <2>1
    <2>3. (p - 1) * S \in Nat /\ N * S \in Nat
      BY <1>1, <1>4, <2>1
    <2> QED BY <1>1, <1>2, <2>2, <2>3 DEF Index, S
  <1>6. ASSUME NEW q \in Part, NEW k \in Sub, Index(p, j) = Index(q, k)
        PROVE  p = q /\ j = k
    <2>1. q \in 1..N /\ k \in 0..S - 1
      BY DEF Part, Sub, N, S
    <2>2. p - 1 \in Nat /\ q - 1 \in Nat
      BY <1>1, <1>2, <2>1
    <2>3. (p - 1) * S \in Nat /\ (q - 1) * S \in Nat
      BY <1>4, <2>2
    <2>4. (p - 1) * S + j = (q - 1) * S + k
      BY <1>6 DEF Index, S
    <2>5. ~(p - 1 < q - 1)
      <3>1. p - 1 < q - 1 => (p - 1) * S + S <= (q - 1) * S
        BY <1>3, <2>2
      <3> QED BY <1>1, <1>2, <2>1, <2>3, <2>4, <3>1
    <2>6. ~(q - 1 < p - 1)
      <3>1. q - 1 < p - 1 => (q - 1) * S + S <= (p - 1) * S
        BY <1>3, <2>2
      <3> QED BY <1>1, <1>2, <2>1, <2>3, <2>4, <3>1
    <2>7. p = q
      BY <1>1, <1>2, <2>1, <2>2, <2>5, <2>6
    <2> QED BY <1>2, <2>1, <2>3, <2>4, <2>7
  <1> QED BY <1>5, <1>6 DEF HD_NUM_SUB_PER_DRIVE, S, N

\* The devices of a drive have different numbers.
LEMMA MinorFits ==
    ASSUME NEW p \in Part, NEW j \in Sub
    PROVE  /\ MinorOf(p, j) = HD_MINOR_1A + Index(p, j)
           /\ MinorOf(p, j) \in Nat /\ ~(MinorOf(p, j) < HD_MAX_PRIM)
           /\ MinorOf(p, j) # 0 /\ MinorOf(p, j) \notin Part
           /\ \A q \in Part, k \in Sub : MinorOf(p, j) = MinorOf(q, k) => p = q /\ j = k
  <1>1. \A q \in Part, k \in Sub :
           /\ MinorOf(q, k) = HD_MINOR_1A + Index(q, k)
           /\ Index(q, k) \in Nat
    <2>1. HD_NUM_SUB_PER_DRIVE \in Nat
      BY Sizes DEF HD_NUM_SUB_PER_DRIVE
    <2> SUFFICES ASSUME NEW q \in Part, NEW k \in Sub
                 PROVE  /\ MinorOf(q, k) = HD_MINOR_1A + Index(q, k)
                        /\ Index(q, k) \in Nat
      OBVIOUS
    <2>2. Index(q, k) \in Nat
      BY <2>1, IndexFits
    <2>3. (q - 1) * HD_NUM_SUB_PER_PART \in Int /\ k \in Int
      BY Sizes DEF Part, Sub
    <2> QED BY <2>2, <2>3, Sizes DEF MinorOf, Index
  <1>2. MinorOf(p, j) \in Nat /\ ~(MinorOf(p, j) < HD_MAX_PRIM)
    BY <1>1, Sizes
  <1>3. MinorOf(p, j) # 0 /\ MinorOf(p, j) \notin Part
    BY <1>2, Sizes DEF Part
  <1>4. ASSUME NEW q \in Part, NEW k \in Sub, MinorOf(p, j) = MinorOf(q, k)
        PROVE  p = q /\ j = k
    <2>1. Index(p, j) = Index(q, k)
      BY <1>1, <1>4, Sizes
    <2> QED BY <2>1, IndexFits
  <1> QED BY <1>1, <1>2, <1>3, <1>4

\* Where the devices are, by the tables.
LEMMA PartitionIs ==
    /\ DOMAIN Partition =
          {0} \cup {p \in Part : Table[0][p].id # "NONE"}
              \cup {MinorOf(x[1], x[2]) :
                       x \in {y \in Part \X Sub : HasLogical(y[1], y[2])}}
    /\ Partition[0] = [base |-> 0, size |-> DiskSize]
    /\ \A p \in Part : Table[0][p].id # "NONE" =>
          Partition[p] = [base |-> Table[0][p].start, size |-> Table[0][p].size]
    /\ \A p \in Part, j \in Sub : HasLogical(p, j) =>
          MinorOf(p, j) \in DOMAIN Partition /\ Partition[MinorOf(p, j)] = Logical(p, j)
  <1> DEFINE D == {0} \cup {p \in Part : Table[0][p].id # "NONE"}
                      \cup {MinorOf(x[1], x[2]) :
                               x \in {y \in Part \X Sub : HasLogical(y[1], y[2])}}
             At(d) == CHOOSE y \in Part \X Sub : MinorOf(y[1], y[2]) = d
             Place0(d) == CASE d = 0       -> [base |-> 0, size |-> DiskSize]
                            [] d \in Part  -> [base |-> Table[0][d].start,
                                               size |-> Table[0][d].size]
                            [] OTHER       -> Logical(At(d)[1], At(d)[2])
  <1>1. Partition = [d \in D |-> Place0(d)]
    BY DEF Partition
  <1>2. 0 \notin Part
    BY DEF Part
  <1>3. ASSUME NEW p \in Part, NEW j \in Sub, HasLogical(p, j)
        PROVE  MinorOf(p, j) \in D /\ Place0(MinorOf(p, j)) = Logical(p, j)
    <2>1. <<p, j>> \in Part \X Sub /\ HasLogical(<<p, j>>[1], <<p, j>>[2])
      BY <1>3
    <2>2. MinorOf(<<p, j>>[1], <<p, j>>[2]) = MinorOf(p, j)
      OBVIOUS
    <2>3. MinorOf(p, j) \in D
      <3>1. \E x \in {y \in Part \X Sub : HasLogical(y[1], y[2])} :
               MinorOf(p, j) = MinorOf(x[1], x[2])
        BY <2>1, <2>2
      <3> QED BY <3>1
    <2>4. /\ At(MinorOf(p, j)) \in Part \X Sub
          /\ MinorOf(At(MinorOf(p, j))[1], At(MinorOf(p, j))[2]) = MinorOf(p, j)
      BY <2>1, <2>2
    <2> HIDE DEF At
    <2>5. At(MinorOf(p, j))[1] \in Part /\ At(MinorOf(p, j))[2] \in Sub
      BY <2>4
    <2>6. At(MinorOf(p, j))[1] = p /\ At(MinorOf(p, j))[2] = j
      BY <2>4, <2>5, MinorFits
    <2>7. MinorOf(p, j) # 0 /\ MinorOf(p, j) \notin Part
      BY MinorFits
    <2> QED BY <2>3, <2>6, <2>7
  <1>4. \A p \in Part : Table[0][p].id # "NONE" => p \in D
    OBVIOUS
  <1>5. 0 \in D /\ Place0(0) = [base |-> 0, size |-> DiskSize]
    BY <1>2
  <1>6. \A p \in Part : Place0(p) = [base |-> Table[0][p].start, size |-> Table[0][p].size]
    BY <1>2
  <1>7. DOMAIN Partition = D /\ \A d \in D : Partition[d] = Place0(d)
    BY <1>1
  <1> HIDE DEF Place0, D
  <1>8. /\ Partition[0] = [base |-> 0, size |-> DiskSize]
        /\ \A p \in Part : Table[0][p].id # "NONE" =>
              Partition[p] = [base |-> Table[0][p].start, size |-> Table[0][p].size]
        /\ \A p \in Part, j \in Sub : HasLogical(p, j) =>
              MinorOf(p, j) \in DOMAIN Partition /\ Partition[MinorOf(p, j)] = Logical(p, j)
    BY <1>3, <1>4, <1>5, <1>6, <1>7
  <1> QED BY <1>7, <1>8 DEF D

\* Where the driver looks for a device.
LEMMA NotedInIs ==
    ASSUME NEW info
    PROVE  /\ NotedIn(info, 0) = info.primary[0]
           /\ \A p \in Part : NotedIn(info, p) = info.primary[p]
           /\ \A p \in Part, j \in Sub :
                 NotedIn(info, MinorOf(p, j)) = info.logical[Index(p, j)]
  <1>1. 0 < HD_MAX_PRIM /\ \A p \in Part : p < HD_MAX_PRIM
    BY Sizes DEF Part
  <1>2. ASSUME NEW p \in Part, NEW j \in Sub
        PROVE  NotedIn(info, MinorOf(p, j)) = info.logical[Index(p, j)]
    <2>1. MinorOf(p, j) - HD_MINOR_1A = Index(p, j)
      <3>1. Index(p, j) \in Int
        BY IndexFits, Sizes DEF HD_NUM_SUB_PER_DRIVE
      <3> QED BY <3>1, MinorFits, Sizes
    <2>2. Index(p, j) % HD_NUM_SUB_PER_DRIVE = Index(p, j)
      <3>1. \A n \in Nat : \A i \in 0..n - 1 : i % n = i
        OBVIOUS
      <3>2. HD_NUM_SUB_PER_DRIVE \in Nat
        BY Sizes DEF HD_NUM_SUB_PER_DRIVE
      <3> QED BY <3>1, <3>2, IndexFits
    <2>3. ~(MinorOf(p, j) < HD_MAX_PRIM)
      BY MinorFits
    <2> QED BY <2>1, <2>2, <2>3 DEF NotedIn
  <1> QED BY <1>1, <1>2 DEF NotedIn

\* Every device is a part of the drive.
LEMMA DevicesAre ==
    ASSUME NEW d \in DOMAIN Partition
    PROVE  Partition[d] \in Info
  <1>1. CASE d = 0
    BY <1>1, PartitionIs, Sizes DEF Info
  <1>2. CASE d \in Part /\ Table[0][d].id # "NONE"
    <2>1. Partition[d] = [base |-> Table[0][d].start, size |-> Table[0][d].size]
      BY <1>2, PartitionIs
    <2>2. Table[0][d].start \in 0..DiskSize /\ Table[0][d].size \in 0..DiskSize
      BY <1>2, TableAssumption
    <2> QED BY <2>1, <2>2 DEF Info
  <1>3. ASSUME NEW x \in Part \X Sub, HasLogical(x[1], x[2]), d = MinorOf(x[1], x[2])
        PROVE  Partition[d] \in Info
    <2>1. x[1] \in Part /\ x[2] \in Sub
      OBVIOUS
    <2>2. Partition[d] = Logical(x[1], x[2])
      BY <1>3, <2>1, PartitionIs
    <2>3. /\ Logical(x[1], x[2]).base \in 0..DiskSize
          /\ Logical(x[1], x[2]).size \in 0..DiskSize
      BY <1>3, <2>1, TableAssumption
    <2> QED BY <2>2, <2>3 DEF Info, Logical
  <1> QED BY <1>1, <1>2, <1>3, PartitionIs

\* The sectors of a request lie side by side.
LEMMA PlacesAre ==
    ASSUME NEW r \in Requests
    PROVE  /\ r.count \in 1..NSECTOR /\ r.device \in DOMAIN Partition
           /\ Place(r, 1) \in Nat
           /\ Place(r, 1) = Partition[r.device].base + r.sector
           /\ \A i \in Int : Place(r, i) = Place(r, 1) + i - 1
           /\ \A i \in 1..r.count : Place(r, i) \in Sector
  <1>1. r.count \in 1..NSECTOR /\ r.device \in DOMAIN Partition /\ r.sector \in Nat
    BY HardDiskAssumption
  <1>2. \A i \in 1..r.count : Place(r, i) \in Sector
    BY HardDiskAssumption
  <1>3. Partition[r.device].base \in Nat
    BY <1>1, DevicesAre, Sizes DEF Info
  <1>4. \A i \in Int : Place(r, i) = Partition[r.device].base + r.sector + i - 1
    BY DEF Place
  <1> QED BY <1>1, <1>2, <1>3, <1>4

\* At the end of the walk all devices are known.
LEMMA WalkedAll ==
    ASSUME NEW info, KnownBefore(info, HD_NUM_PART_PER_DRIVE, HD_NUM_SUB_PER_PART)
    PROVE  AllKnown(info)
  <1>1. Known(info, 0)
    BY DEF KnownBefore
  <1>2. \A q \in Part : Table[0][q].id # "NONE" => Known(info, q)
    BY Sizes DEF KnownBefore, Part
  <1>3. \A q \in Part, k \in Sub : HasLogical(q, k) => Known(info, MinorOf(q, k))
    <2> SUFFICES ASSUME NEW q \in Part, NEW k \in Sub, HasLogical(q, k)
                 PROVE  Known(info, MinorOf(q, k))
      OBVIOUS
    <2>1. \/ q < HD_NUM_PART_PER_DRIVE
          \/ q = HD_NUM_PART_PER_DRIVE /\ k < HD_NUM_SUB_PER_PART
      BY Sizes DEF Part, Sub
    <2> QED BY <2>1 DEF KnownBefore
  <1>4. ASSUME NEW x \in Part \X Sub, HasLogical(x[1], x[2])
        PROVE  Known(info, MinorOf(x[1], x[2]))
    BY <1>3, <1>4
  <1> QED BY <1>1, <1>2, <1>4, PartitionIs DEF AllKnown

\* While the driver works on a request there is no other, and no message of the
\* file system on its way.
LEMMA WorkingHandles ==
    ASSUME HIInv', hd_pc' \in Working
    PROVE  RequestsFit'
  <1>1. SENDING # RECEIVING
    BY DEF SENDING, RECEIVING
  <1>2. hd_pc' \notin {"receive", "received"}
    BY DEF Working
  <1>3. ~DiskFree'
    BY <1>2 DEF DiskFree
  <1>4. ~Offers(TASK_FS, TASK_HARDDISK)'
    <2>1. RequestsInStep'
      BY DEF HIInv
    <2>2. Free(TASK_FS)' \/ Waiting(TASK_FS, TASK_HARDDISK)'
      BY <1>3, <2>1 DEF RequestsInStep
    <2> QED BY <1>1, <2>2 DEF Offers, Sending, Free, Waiting
  <1> QED BY <1>2, <1>4 DEF RequestsFit, Unhandled

\* The types that HIInv has.
LEMMA TypesFollow ==
    ASSUME HIInv, DataTypes
    PROVE  HTypeOK
  <1>1. TypeOK
    BY DEF HIInv, HTypes, KernelInv, TypeOK
  <1>2. MaxTick \in Nat
    BY SysTaskAssumption
  <1>3. /\ sys_tick_count \in 0..MaxTick /\ t \in 0..MaxTick
        /\ phase \in [Client -> {"idle", "called", "receiving"}]
        /\ asked \in [Client -> 0..MaxTick]
        /\ hd_msg \in Message /\ want \in {"not BSY", "DRQ"} /\ irq \in BOOLEAN
    <2>1. /\ sys_tick_count \in 0..MaxTick /\ t \in 0..sys_tick_count
          /\ asked \in [Client -> 0..sys_tick_count]
      BY DEF HIInv, HTypes
    <2>2. 0..sys_tick_count \subseteq 0..MaxTick
      BY <1>2, <2>1
    <2>3. asked \in [Client -> 0..MaxTick]
      BY <2>1, <2>2
    <2> QED BY <2>1, <2>2, <2>3 DEF HIInv, HTypes
  <1>4. sys_pc \in {"receive", "received", "send"}
    <2>1. SysFree \/ SysBusy \/ SysAnswering
      BY <1>3, Tasks DEF HIInv, TicksInStep
    <2> QED BY <2>1 DEF SysFree, SysBusy, SysAnswering
  <1>5. /\ fs_phase \in {"idle", "called", "receiving"}
        /\ hd_pc \in Working \cup {"receive", "received"}
    <2>1. RequestsInStep
      BY DEF HIInv
    <2>2. DiskFree \/ DiskBusy \/ DiskAnswering
      BY <2>1 DEF RequestsInStep
    <2> QED BY <2>1, <2>2 DEF RequestsInStep, DiskFree, DiskBusy, DiskAnswering
  <1> QED BY <1>1, <1>3, <1>4, <1>5 DEF HTypeOK, STypeOK, DataTypes, Notes, Working

-----------------------------------------------------------------------------
(* The steps.                                                              *)

\* At the start nothing is asked, known or done.
LEMMA InitDInv == HInit => DInv
  <1> SUFFICES ASSUME HInit PROVE DInv
    OBVIOUS
  <1>1. /\ hd_pc = "receive" /\ goal = "none" /\ cmd = NoCmd /\ bytes_left = 0
        /\ harddisk_info = [open_count |-> 0,
                            primary |-> [i \in 0..HD_NUM_PART_PER_DRIVE |-> Nothing],
                            logical |-> [i \in 0..HD_NUM_SUB_PER_DRIVE - 1 |-> Nothing]]
        /\ scan = NoScan /\ drive = IdleDrive /\ geo = Nothing
        /\ disk = [s \in Sector |-> OnDisk(s)]
        /\ mem = [i \in 1..NSECTOR |-> InMemory(i)]
    BY DEF HInit
  <1>2. Nothing \in Info
    BY Sizes DEF Nothing, Info
  <1>3. \A s \in Sector : OnDisk(s) \in Data
    BY DEF Data
  <1>4. \A i \in 1..NSECTOR : InMemory(i) \in Data
    BY DEF Data
  <1>5. DataTypes
    <2>1. harddisk_info \in Notes
      BY <1>1, <1>2, Sizes DEF Notes
    <2>2. /\ cmd.command = "NONE" /\ cmd.lba = 0 /\ cmd.sector_count = 0
          /\ DOMAIN scan = DOMAIN NoScan
          /\ scan.part = 0 /\ scan.sub = 0 /\ scan.base = 0
          /\ drive.status = "idle" /\ drive.lba = 0 /\ drive.left = 0
      BY <1>1 DEF NoCmd, NoScan, IdleDrive
    <2>3. disk \in [Sector -> Data] /\ mem \in [1..NSECTOR -> Data]
      BY <1>1, <1>3, <1>4
    <2>4. 0 \in 0..DiskSize /\ 0 \in 0..NSECTOR - 1 /\ 0 \in 0..NSECTOR
          /\ 0 \in 0..HD_NUM_PART_PER_DRIVE /\ 0 \in Sub
      BY Sizes DEF Sub
    <2> QED BY <1>1, <1>2, <2>1, <2>2, <2>3, <2>4 DEF DataTypes
  <1>6. RequestsFit
    <2>1. \A p \in Proc : process_flags[p] = {}
      BY DEF HInit, SInit, Init
    <2> QED BY <1>1, <2>1, Tasks DEF RequestsFit, Unhandled, Offers, Sending
  <1>7. ~AtWork /\ harddisk_info.open_count = 0
    BY <1>1 DEF AtWork, Working
  <1>8. WalkInStep /\ TransferInStep
    BY <1>7 DEF WalkInStep, TransferInStep
  <1>9. PlaceInStep /\ ReplyInStep
    BY <1>1 DEF PlaceInStep, ReplyInStep
  <1> QED BY <1>5, <1>6, <1>8, <1>9 DEF DInv

\* A step of the driver to its next place that moves no data.
GoesOn ==
    \/ UNCHANGED hd_pc
    \/ {hd_pc, hd_pc'} \subseteq {"start", "poll", "status", "timeout"}
    \/ hd_pc = "status" /\ hd_pc' = IF want = "DRQ" THEN "write" ELSE "command"
    \/ hd_pc = "interrupt" /\ hd_pc' = "interrupted"
    \/ hd_pc \in {"receive", "reply"} /\ hd_pc' \in {"receive", "received"}

LEMMA SameData ==
    ASSUME DInv, RequestsFit', GoesOn,
           UNCHANGED <<hd_msg, goal, cmd, want, bytes_left, harddisk_info, scan,
                       drive, disk, mem, geo>>
    PROVE  DInv'
  <1>1. /\ AtWork' <=> AtWork
        /\ hd_pc' = "reply" => hd_pc = "reply"
        /\ hd_pc' \in {"interrupt", "interrupted"} => hd_pc \in {"interrupt", "interrupted"}
    BY DEF GoesOn, AtWork, Working
  <1>2. DataTypes'
    BY DEF DInv, DataTypes
  <1>3. WalkInStep'
    <2>1. /\ Known(harddisk_info, 0)' <=> Known(harddisk_info, 0)
          /\ AllKnown(harddisk_info)' <=> AllKnown(harddisk_info)
          /\ KnownBefore(harddisk_info, scan.part, scan.sub)' <=>
                KnownBefore(harddisk_info, scan.part, scan.sub)
      BY DEF AllKnown, KnownBefore, Known, NotedIn
    <2> QED BY <1>1, <2>1 DEF DInv, WalkInStep
  <1>4. TransferInStep'
    BY <1>1 DEF DInv, TransferInStep, Done, Untouched, la
  <1>5. ReplyInStep'
    BY <1>1 DEF DInv, ReplyInStep, Done, Untouched
  <1>6. PlaceInStep'
    <2>1. UNCHANGED <<la, Sent>> /\ (Done(la)' <=> Done(la))
      BY DEF la, Sent, Done
    <2>2. /\ hd_pc' \in {"start", "poll", "status", "timeout"} =>
                hd_pc \in {"start", "poll", "status", "timeout"}
          /\ hd_pc' = "command" => hd_pc = "command" \/ (hd_pc = "status" /\ want # "DRQ")
          /\ hd_pc' = "write" => hd_pc = "write" \/ (hd_pc = "status" /\ want = "DRQ")
      BY DEF GoesOn
    <2> QED BY <1>1, <2>1, <2>2 DEF DInv, PlaceInStep
  <1> QED BY <1>2, <1>3, <1>4, <1>5, <1>6 DEF DInv

\* No step but that of the file system brings a new request.
LEMMA SameRequest ==
    ASSUME DInv, UNCHANGED <<harddisk_info, mem>>,
           \A r \in Requests : Unhandled(r)' => Unhandled(r)
    PROVE  RequestsFit'
  BY DEF DInv, RequestsFit, MayAsk, Untouched

-----------------------------------------------------------------------------
(* The steps that move no data.                                            *)

LEMMA DriverPlace ==
    ASSUME HIInv
    PROVE  /\ hd_pc \in Working \cup {"receive", "received"}
           /\ hd_pc \notin Working => phase[TASK_HARDDISK] = "idle" /\ Quiet
  <1>1. RequestsInStep
    BY DEF HIInv
  <1>2. DiskFree \/ DiskBusy \/ DiskAnswering
    BY <1>1 DEF RequestsInStep
  <1>3. hd_pc \in Working \cup {"receive", "received"}
    BY <1>2 DEF DiskFree, DiskBusy, DiskAnswering
  <1>4. ASSUME hd_pc \notin Working
        PROVE  phase[TASK_HARDDISK] = "idle" /\ Quiet
    BY <1>3, <1>4 DEF HIInv, TicksInStep, DriveInStep, Working
  <1> QED BY <1>3, <1>4

\* The driver waits, is told the status or an interrupt, or gives up.
LEMMA WaitsKeepData ==
    ASSUME HIInv, DInv, HIInv',
           \/ HdGetsTicks \/ HdStartsWaiting \/ HdGoesOnWaiting
           \/ HdReadsStatus \/ HdGivesUp \/ HdAwaits
    PROVE  DInv'
  <1>1. UNCHANGED <<hd_msg, goal, cmd, want, bytes_left, harddisk_info, scan, drive,
                    disk, mem, geo>>
    BY DEF HdGetsTicks, HdStartsWaiting, HdGoesOnWaiting, HdReadsStatus, HdGivesUp,
           HdAwaits, hdVars, driveVars, fsVars
  <1>2. GoesOn /\ hd_pc' \in Working
    <2>1. CASE HdGetsTicks
      <3>1. hd_pc \in {"start", "poll"} /\ hd_pc' = hd_pc
        BY <2>1, Tasks DEF HIInv, TicksInStep, HdGetsTicks, GetTicksReceive, hdVars
      <3> QED BY <3>1 DEF GoesOn, Working
    <2>2. CASE HdStartsWaiting \/ HdGoesOnWaiting
      BY <2>2 DEF HdStartsWaiting, HdGoesOnWaiting, HdGoesTo, GoesOn, Working
    <2>3. CASE HdReadsStatus
      <3>1. want \in {"not BSY", "DRQ"}
        BY DEF HIInv, HTypes
      <3>2. /\ hd_pc = "status"
            /\ hd_pc' = CASE ~Satisfied                    -> "poll"
                          [] Satisfied /\ want = "DRQ"     -> "write"
                          [] Satisfied /\ want = "not BSY" -> "command"
        BY <2>3 DEF HdReadsStatus, HdRuns, HdGoesTo
      <3>3. CASE Satisfied
        BY <3>1, <3>2, <3>3 DEF GoesOn, Working
      <3>4. CASE ~Satisfied
        BY <3>1, <3>2, <3>4 DEF GoesOn, Working
      <3> QED BY <3>3, <3>4
    <2>4. CASE HdGivesUp
      BY <2>4 DEF HdGivesUp, HdRuns, hdVars, GoesOn, Working
    <2>5. CASE HdAwaits
      BY <2>5 DEF HdAwaits, HdGoesTo, GoesOn, Working
    <2> QED BY <2>1, <2>2, <2>3, <2>4, <2>5
  <1> QED BY <1>1, <1>2, WorkingHandles, SameData

\* The driver takes the request that the file system has offered.
LEMMA HdReceivesKeepsData ==
    ASSUME HIInv, DInv, HdReceives
    PROVE  DInv'
  <1> DEFINE m == [source |-> TASK_HARDDISK, body |-> Zeroed]
  <1>1. /\ hd_pc = "receive" /\ hd_pc' = "received"
        /\ Free(TASK_HARDDISK) /\ ~panicked
        /\ message_receive(TASK_HARDDISK, SR_TARGET_ANY, m)
        /\ UNCHANGED <<hd_msg, goal, cmd, want, bytes_left, harddisk_info, scan, drive,
                       disk, mem, geo>>
    BY DEF HdReceives, HdGoesTo, Receive, Runnable, Free, driveVars, fsVars
  <1>2. phase[TASK_HARDDISK] = "idle" /\ Quiet
    BY <1>1, DriverPlace DEF Working
  <1>3. KernelInv /\ ~has_int_msg[TASK_HARDDISK] /\ ~Sending(TASK_SYS)
    BY <1>2, TicksCases DEF HIInv, Quiet, Silent, TicksInStep
  <1>4. m \in Message
    BY Tasks DEF Message
  <1> HIDE DEF m
  <1>5. \/ \E sender \in Proc :
              /\ Offers(sender, TASK_HARDDISK)
              /\ buffer'[TASK_HARDDISK] = buffer[sender]
              /\ \A x, y \in Proc : Offers(x, y)' <=> Offers(x, y) /\ x # sender
        \/ /\ Waiting(TASK_HARDDISK, SR_TARGET_ANY)'
           /\ \A x, y \in Proc : Offers(x, y)' <=> Offers(x, y)
           /\ \A x \in Proc \ {TASK_HARDDISK} : buffer'[x] = buffer[x]
    BY <1>1, <1>3, <1>4, Tasks, ReceiveOutcome
  <1>6. ASSUME NEW r \in Requests, Unhandled(r)'
        PROVE  Unhandled(r)
    <2>1. CASE /\ Waiting(TASK_HARDDISK, SR_TARGET_ANY)'
               /\ \A x, y \in Proc : Offers(x, y)' <=> Offers(x, y)
               /\ \A x \in Proc \ {TASK_HARDDISK} : buffer'[x] = buffer[x]
      <3>1. ~Free(TASK_HARDDISK)'
        BY <2>1 DEF Waiting, Free
      <3> QED BY <1>6, <2>1, <3>1, Tasks DEF Unhandled
    <2>2. ASSUME NEW sender \in Proc, Offers(sender, TASK_HARDDISK),
                 buffer'[TASK_HARDDISK] = buffer[sender],
                 \A x, y \in Proc : Offers(x, y)' <=> Offers(x, y) /\ x # sender
          PROVE  Unhandled(r)
      <3>1. sender = TASK_FS
        <4>1. sender \in {TASK_SYS, TASK_FS}
          BY <2>2, Tasks DEF HIInv, Partners
        <4> QED BY <1>3, <2>2, <4>1 DEF Offers
      <3>2. ~Offers(TASK_FS, TASK_HARDDISK)'
        BY <2>2, <3>1, Tasks
      <3> QED BY <1>6, <2>2, <3>1, <3>2 DEF Unhandled
    <2> QED BY <1>5, <2>1, <2>2
  <1>7. RequestsFit'
    BY <1>1, <1>6, SameRequest
  <1> QED BY <1>1, <1>7, SameData DEF GoesOn

\* The driver answers the file system.
LEMMA HdRepliesKeepsData ==
    ASSUME HIInv, DInv, HdReplies
    PROVE  DInv'
  <1> DEFINE m == [source |-> TASK_HARDDISK, body |-> hd_msg.body]
  <1>1. /\ HdRuns("reply") /\ hd_pc' = "receive"
        /\ message_send(TASK_HARDDISK, hd_msg.source, m)
        /\ UNCHANGED <<hd_msg, goal, cmd, want, bytes_left, harddisk_info, scan, drive,
                       disk, mem, geo>>
    BY DEF HdReplies, HdGoesTo, HdRuns, Send, driveVars, fsVars
  <1>2. /\ hd_pc = "reply" /\ Free(TASK_HARDDISK) /\ DiskRequest(hd_msg)
        /\ Free(TASK_FS) \/ Waiting(TASK_FS, TASK_HARDDISK)
    BY <1>1, DriverRuns
  <1>3. KernelInv /\ ~Sending(TASK_FS) /\ hd_msg.source = TASK_FS
    BY <1>2, NotSending, Tasks DEF HIInv, DiskRequest
  <1>4. m \in Message
    BY <1>2, Tasks, HardDiskAssumption DEF Message, DiskRequest
  <1> HIDE DEF m
  <1>5. ~Offers(TASK_FS, TASK_HARDDISK)'
    <2>1. \/ \A x, y \in Proc : Offers(x, y)' <=> Offers(x, y)
          \/ \A x, y \in Proc :
                Offers(x, y)' <=> Offers(x, y) \/ (x = TASK_HARDDISK /\ y = TASK_FS)
      BY <1>1, <1>2, <1>3, <1>4, Tasks, SendOutcome
    <2> QED BY <1>3, <2>1, Tasks DEF Offers
  <1>6. RequestsFit'
    BY <1>1, <1>5, SameRequest DEF Unhandled
  <1> QED BY <1>1, <1>2, <1>6, SameData DEF GoesOn

\* The system task, the clock and the handler have nothing to do with the data.
LEMMA OthersKeepData ==
    ASSUME HIInv, DInv, HIInv', UNCHANGED <<hdVars, fsVars, drive, disk>>,
           SysStep \/ UNCHANGED vars \/ harddisk_handler
    PROVE  DInv'
  <1>1. UNCHANGED <<hd_pc, hd_msg, goal, cmd, want, bytes_left, harddisk_info, scan, drive,
                    disk, mem, geo>>
    BY DEF hdVars, fsVars
  <1>2. CASE hd_pc \in Working
    BY <1>1, <1>2, WorkingHandles, SameData DEF GoesOn
  <1>3. CASE hd_pc \notin Working
    <2>1. phase[TASK_HARDDISK] = "idle" /\ Quiet
      BY <1>3, DriverPlace
    <2>2. SysFree /\ ~Offers(TASK_HARDDISK, TASK_SYS)
      BY <2>1 DEF HIInv, TicksInStep
    <2>3. ASSUME NEW r \in Requests, Unhandled(r)'
          PROVE  Unhandled(r)
      <3>1. CASE UNCHANGED vars
        BY <1>1, <2>3, <3>1, SameIpc DEF Unhandled, vars
      <3>2. CASE harddisk_handler
        BY <2>1, <3>2 DEF harddisk_handler, Quiet, Silent
      <3>3. CASE SysHandle \/ SysSend
        <4>1. Free(TASK_SYS) /\ sys_pc # "receive"
          BY <3>3 DEF SysHandle, SysAnswers, SysSend, Send, Runnable, Free
        <4> QED BY <2>2, <4>1 DEF SysFree, Free, Waiting
      <3>4. CASE SysReceive
        <4> DEFINE m == [source |-> TASK_SYS, body |-> Zeroed]
        <4>1. Free(TASK_SYS) /\ ~panicked /\ message_receive(TASK_SYS, SR_TARGET_ANY, m)
          BY <3>4 DEF SysReceive, Receive, Runnable, Free
        <4>2. KernelInv /\ ~has_int_msg[TASK_SYS] /\ m \in Message
          BY Tasks DEF HIInv, Partners, Message
        <4> HIDE DEF m
        <4>3. ASSUME NEW sender \in Proc
              PROVE  ~Offers(sender, TASK_SYS)
          BY <2>2, <4>3, Tasks DEF HIInv, Partners
        <4>4. /\ \A x \in Proc \ {TASK_SYS} : buffer'[x] = buffer[x]
              /\ SameBut(TASK_SYS)
              /\ \A x, y \in Proc : Offers(x, y)' <=> Offers(x, y)
          BY <4>1, <4>2, <4>3, Tasks, ReceiveOutcome
        <4> QED BY <1>1, <2>3, <4>4, Tasks DEF Unhandled, SameBut
      <3> QED BY <3>1, <3>2, <3>3, <3>4 DEF SysStep
    <2> QED BY <1>1, <2>3, SameRequest, SameData DEF GoesOn
  <1> QED BY <1>2, <1>3

\* The file system takes its answer, or waits for it.
LEMMA FsReceivesKeepsData ==
    ASSUME HIInv, DInv, HIInv', FsReceives
    PROVE  DInv'
  <1> DEFINE m == [buffer[TASK_FS] EXCEPT !.source = TASK_FS]
  <1>1. /\ fs_phase = "called" /\ Free(TASK_FS) /\ ~panicked
        /\ message_receive(TASK_FS, pending[TASK_FS], m)
        /\ UNCHANGED <<hd_pc, hd_msg, goal, cmd, want, bytes_left, harddisk_info, scan,
                       drive, disk, mem, geo>>
    BY DEF FsReceives, ReceiveReply, Runnable, Free, hdVars, driveVars
  <1>2. KernelInv /\ TASK_HARDDISK # SR_TARGET_ANY
    BY Tasks, TargetAssumption DEF HIInv, Sentinel
  <1>3. /\ m \in Message /\ pending[TASK_FS] = TASK_HARDDISK /\ ~has_int_msg[TASK_FS]
        /\ ~Offers(TASK_FS, TASK_HARDDISK)
    <2>1. buffer[TASK_FS] \in Message
      BY Tasks DEF HIInv, KernelInv, KernelTypeOK
    <2>2. m \in Message
      BY <2>1, Tasks DEF Message
    <2>3. pending[TASK_FS] = TASK_HARDDISK /\ ~has_int_msg[TASK_FS]
      BY <1>1, Tasks DEF HIInv, Partners
    <2>4. ~Offers(TASK_FS, TASK_HARDDISK)
      BY <1>1, <1>2, NotSending, Tasks DEF Offers
    <2> QED BY <2>2, <2>3, <2>4
  <1> HIDE DEF m
  <1>4. CASE hd_pc \in Working
    BY <1>1, <1>4, WorkingHandles, SameData DEF GoesOn
  <1>5. CASE hd_pc \notin Working
    <2>1. message_receive(TASK_FS, TASK_HARDDISK, m)
      BY <1>1, <1>3
    <2>2. /\ \A x \in Proc \ {TASK_FS} : buffer'[x] = buffer[x]
          /\ \/ \E sender \in Proc :
                   /\ Offers(sender, TASK_FS) /\ TASK_HARDDISK \in {sender, SR_TARGET_ANY}
                   /\ \A x, y \in Proc : Offers(x, y)' <=> Offers(x, y) /\ x # sender
             \/ /\ SameBut(TASK_FS)
                /\ \A x, y \in Proc : Offers(x, y)' <=> Offers(x, y)
      BY <1>1, <1>2, <1>3, <2>1, ReceiveOutcome, Tasks
    <2>3. ~Offers(TASK_FS, TASK_HARDDISK)'
      BY <1>3, <2>2, Tasks
    <2>4. ASSUME NEW r \in Requests, Unhandled(r)'
          PROVE  Unhandled(r)
      <3>1. hd_pc = "received" /\ Free(TASK_HARDDISK)' /\ buffer[TASK_HARDDISK].body = r
        BY <1>1, <2>2, <2>3, <2>4, Tasks DEF Unhandled
      <3>2. Free(TASK_HARDDISK)
        BY <1>1, <1>3, <3>1 DEF HIInv, RequestsInStep, DiskBusy, DiskAnswering, Working
      <3> QED BY <3>1, <3>2 DEF Unhandled
    <2> QED BY <1>1, <2>4, SameRequest, SameData DEF GoesOn
  <1> QED BY <1>4, <1>5

\* The call of the file system returns.
LEMMA FsReturnsKeepsData ==
    ASSUME HIInv, DInv, FsReturns
    PROVE  DInv'
  <1>1. UNCHANGED <<vars, hd_pc, hd_msg, goal, cmd, want, bytes_left, harddisk_info,
                    scan, drive, disk, mem, geo>>
    BY DEF FsReturns, svars, hdVars, driveVars
  <1>2. \A r \in Requests : Unhandled(r)' => Unhandled(r)
    BY <1>1, SameIpc DEF Unhandled, vars
  <1> QED BY <1>1, <1>2, SameRequest, SameData DEF GoesOn

\* The file system asks for what it may ask for, with fresh memory.
LEMMA FsCallsKeepsData ==
    ASSUME HIInv, DInv, NEW r \in Requests, FsCalls(r)
    PROVE  DInv'
  <1> DEFINE m == [source |-> TASK_FS, body |-> r]
  <1>1. /\ fs_phase = "idle" /\ Free(TASK_FS) /\ MayAsk(r)
        /\ message_send(TASK_FS, TASK_HARDDISK, m)
        /\ mem' = [i \in 1..NSECTOR |-> InMemory(i)] /\ geo' = Nothing
        /\ UNCHANGED <<hd_pc, hd_msg, goal, cmd, want, bytes_left, harddisk_info, scan,
                       drive, disk>>
    BY DEF FsCalls, SendBoth, Runnable, Free, hdVars, driveVars
  <1>2. KernelInv /\ m \in Message /\ TASK_HARDDISK \in Proc \ {TASK_FS} /\ m.body = r
    BY Tasks, HardDiskAssumption DEF HIInv, Message
  <1>3. DiskFree
    BY <1>1 DEF HIInv, RequestsInStep
  <1>4. hd_pc \in {"receive", "received"}
    BY <1>3 DEF DiskFree
  <1>5. /\ ~Sending(TASK_HARDDISK)
        /\ \A y : Waiting(TASK_HARDDISK, y) => ~Free(TASK_HARDDISK)
    BY <1>2, <1>3, NotSending, Tasks DEF DiskFree
  <1> HIDE DEF m
  <1>6. /\ buffer'[TASK_FS] = m
        /\ \/ buffer'[TASK_HARDDISK] = m
           \/ /\ ~Waiting(TASK_HARDDISK, SR_TARGET_ANY)
              /\ SameBut(TASK_FS)
    BY <1>1, <1>2, <1>5, SendOutcome, Tasks
  <1>7. DataTypes'
    <2>1. Nothing \in Info
      BY Sizes DEF Nothing, Info
    <2>2. \A i \in 1..NSECTOR : InMemory(i) \in Data
      BY DEF Data
    <2>3. mem' \in [1..NSECTOR -> Data] /\ geo' \in Info
      BY <1>1, <2>1, <2>2
    <2> QED BY <1>1, <2>3 DEF DInv, DataTypes
  <1>8. RequestsFit'
    <2> SUFFICES ASSUME NEW s \in Requests, Unhandled(s)'
                 PROVE  MayAsk(s)' /\ Untouched'
      BY DEF RequestsFit
    <2>1. s = r
      <3>1. CASE buffer'[TASK_HARDDISK] = m
        BY <1>2, <1>6, <3>1 DEF Unhandled
      <3>2. CASE ~Waiting(TASK_HARDDISK, SR_TARGET_ANY)
        <4>1. hd_pc' = "receive"
          BY <1>1, <1>3, <3>2 DEF DiskFree
        <4> QED BY <1>2, <1>6, <4>1 DEF Unhandled
      <3> QED BY <1>6, <3>1, <3>2
    <2> QED BY <1>1, <2>1 DEF MayAsk, Untouched
  <1>9. ~AtWork /\ ~AtWork'
    BY <1>1, <1>4 DEF AtWork, Working
  <1>10. WalkInStep'
    <2>1. AllKnown(harddisk_info)' <=> AllKnown(harddisk_info)
      BY <1>1 DEF AllKnown, Known, NotedIn
    <2> QED BY <1>1, <1>9, <2>1 DEF DInv, WalkInStep
  <1>11. TransferInStep' /\ PlaceInStep' /\ ReplyInStep'
    BY <1>1, <1>4, <1>9 DEF TransferInStep, PlaceInStep, ReplyInStep
  <1> QED BY <1>7, <1>8, <1>10, <1>11 DEF DInv

-----------------------------------------------------------------------------
(* A transfer.                                                             *)

\* The driver at work has a request.
LEMMA HasRequest ==
    ASSUME HIInv, hd_pc \in Working
    PROVE  DiskRequest(hd_msg) /\ hd_msg.body \in Requests
  <1>1. ~DiskFree /\ ~DiskAnswering
    BY DEF Working, DiskFree, DiskAnswering
  <1>2. DiskBusy
    BY <1>1 DEF HIInv, RequestsInStep
  <1> QED BY <1>2 DEF DiskBusy, DiskRequest, Working

\* The sector that the transfer has come to is one of the request.
LEMMA AtSector ==
    ASSUME HIInv, DInv, AtWork, goal = "transfer"
    PROVE  /\ hd_msg.body \in Requests /\ hd_msg.body.count \in 1..NSECTOR
           /\ bytes_left \in Nat /\ bytes_left > 0
           /\ la \in 1..hd_msg.body.count /\ la \in 1..NSECTOR
           /\ la + bytes_left = hd_msg.body.count + 1
           /\ \A i \in 1..hd_msg.body.count : Place(hd_msg.body, i) \in Sector
           /\ \A i \in Int : Place(hd_msg.body, i) = Place(hd_msg.body, 1) + i - 1
           /\ Place(hd_msg.body, 1) \in Nat
  <1>1. hd_pc \in Working
    BY DEF AtWork
  <1>2. hd_msg.body \in Requests
    BY <1>1, HasRequest
  <1>3. /\ hd_msg.body.count \in 1..NSECTOR
        /\ \A i \in 1..hd_msg.body.count : Place(hd_msg.body, i) \in Sector
        /\ \A i \in Int : Place(hd_msg.body, i) = Place(hd_msg.body, 1) + i - 1
        /\ Place(hd_msg.body, 1) \in Nat
    BY <1>2, PlacesAre
  <1>4. bytes_left > 0
    BY DEF HIInv, DriveInStep, BeforeSector, BeforeCommand, InRead, AfterSector, InWrite,
           CommandFits, AtWork, Working
  <1>5. bytes_left \in Nat /\ bytes_left <= hd_msg.body.count
    BY DEF HIInv, HTypes, DInv, TransferInStep
  <1>6. la \in 1..hd_msg.body.count /\ la \in 1..NSECTOR
        /\ la + bytes_left = hd_msg.body.count + 1
    BY <1>3, <1>4, <1>5, Sizes DEF la
  <1> QED BY <1>2, <1>3, <1>4, <1>5, <1>6

\* A step that leaves what the driver knows.
LEMMA SameWalk ==
    ASSUME WalkInStep, UNCHANGED <<harddisk_info, hd_msg, goal, cmd, scan>>,
           AtWork' => AtWork, AtWork /\ goal # "transfer" => AtWork'
    PROVE  WalkInStep'
  <1>1. /\ Known(harddisk_info, 0)' <=> Known(harddisk_info, 0)
        /\ AllKnown(harddisk_info)' <=> AllKnown(harddisk_info)
        /\ KnownBefore(harddisk_info, scan.part, scan.sub)' <=>
              KnownBefore(harddisk_info, scan.part, scan.sub)
    BY DEF AllKnown, KnownBefore, Known, NotedIn
  <1> QED BY <1>1 DEF WalkInStep

\* The drive stores a sector of a write request, at its place.
LEMMA StoresInPlace ==
    ASSUME HIInv, DInv, drive.status = "full"
    PROVE  /\ hd_pc \in {"interrupt", "interrupted"}
           /\ InWrite /\ drive.left = bytes_left
           /\ hd_msg.body.type = "DEVWRITE"
           /\ la \in 1..hd_msg.body.count
           /\ drive.lba = Place(hd_msg.body, la) /\ drive.held = mem[la]
  <1> DEFINE r == hd_msg.body
  <1>1. hd_pc \in {"interrupt", "interrupted"}
    <2>1. hd_pc \notin {"receive", "received", "reply", "start", "poll", "status",
                        "timeout", "command", "write"}
      BY DEF HIInv, DriveInStep, Quiet, BeforeSector, BeforeCommand
    <2> QED BY <2>1, DriverPlace DEF Working
  <1>2. InWrite /\ drive.left = bytes_left
    BY <1>1 DEF HIInv, DriveInStep, InRead, AfterSector
  <1>3. AtWork /\ goal = "transfer" /\ cmd.command = "WRITE"
    BY <1>1, <1>2 DEF AtWork, Working, InWrite
  <1>4. la \in 1..r.count /\ Place(r, la) \in Sector
    BY <1>3, AtSector
  <1>5. hd_msg.body.type = "DEVWRITE"
    BY <1>3 DEF DInv, TransferInStep
  <1>6. ~Sent
    BY DEF Sent
  <1>7. drive.lba = Place(r, la) + 0 /\ drive.held = mem[la]
    BY <1>1, <1>3, <1>6 DEF DInv, PlaceInStep
  <1>8. Place(r, la) \in Int
    BY <1>4 DEF Sector
  <1> QED BY <1>1, <1>2, <1>4, <1>5, <1>7, <1>8

\* The drive makes a sector ready, or stores the one it was given, which is the
\* one of the request that the driver has come to.
LEMMA DriveStepKeepsData ==
    ASSUME HIInv, DInv, HIInv', DriveStep
    PROVE  DInv'
  <1>1. /\ DriveReady \/ DriveStores
        /\ UNCHANGED <<vars, hd_pc, hd_msg, goal, cmd, want, bytes_left, harddisk_info,
                       scan, mem, geo>>
    BY DEF DriveStep, svars, hdVars, fsVars
  <1>2. DOMAIN drive = DOMAIN IdleDrive /\ drive.left \in Nat
    BY DEF HIInv, HTypes
  <1>3. RequestsFit' /\ WalkInStep'
    <2>1. \A r \in Requests : Unhandled(r)' => Unhandled(r)
      BY <1>1, SameIpc DEF Unhandled, vars
    <2>2. AtWork' <=> AtWork
      BY <1>1 DEF AtWork
    <2> QED BY <1>1, <2>1, <2>2, SameRequest, SameWalk DEF DInv
  <1>4. CASE DriveReady
    <2>1. /\ drive.status = "busy" /\ disk' = disk
          /\ drive' = [drive EXCEPT !.status = "drq"]
      BY <1>4 DEF DriveReady
    <2>2. /\ drive'.status = "drq" /\ drive'.lba = drive.lba /\ drive'.left = drive.left
      BY <1>2, <2>1 DEF IdleDrive
    <2>3. DataTypes'
      BY <1>1, <2>1, <2>2 DEF DInv, DataTypes
    <2>4. TransferInStep' /\ ReplyInStep'
      BY <1>1, <2>1 DEF DInv, TransferInStep, ReplyInStep, AtWork, Done, Untouched, la
    <2>5. PlaceInStep'
      <3>1. la' = la /\ (Sent' <=> Sent) /\ (Done(la)' <=> Done(la))
        BY <1>1, <2>1, <2>2 DEF la, Sent, Done
      <3> QED BY <1>1, <2>1, <2>2, <3>1 DEF DInv, PlaceInStep
    <2> QED BY <1>3, <2>3, <2>4, <2>5 DEF DInv
  <1>5. CASE DriveStores
    <2> DEFINE r == hd_msg.body
    <2>1. /\ drive.status = "full"
          /\ disk' = [disk EXCEPT ![drive.lba] = drive.held]
          /\ drive' = [drive EXCEPT !.status = IF drive.left = 1 THEN "idle" ELSE "drq",
                                    !.lba = @ + 1, !.left = @ - 1]
      BY <1>5 DEF DriveStores
    <2>2. /\ drive'.status = IF drive.left = 1 THEN "idle" ELSE "drq"
          /\ drive'.lba = drive.lba + 1 /\ drive'.left = drive.left - 1
      BY <1>2, <2>1 DEF IdleDrive
    <2>3. hd_pc \in {"interrupt", "interrupted"}
      BY <2>1, StoresInPlace
    <2>4. InWrite /\ drive.left = bytes_left
      BY <2>1, StoresInPlace
    <2>5. AtWork /\ goal = "transfer" /\ cmd.command = "WRITE"
      BY <2>3, <2>4 DEF AtWork, Working, InWrite
    <2>6. /\ bytes_left \in Nat /\ bytes_left > 0
          /\ la \in 1..r.count /\ la \in 1..NSECTOR
          /\ \A i \in 1..r.count : Place(r, i) \in Sector
          /\ \A i \in Int : Place(r, i) = Place(r, 1) + i - 1
          /\ Place(r, 1) \in Nat
          /\ r.count \in 1..NSECTOR
      BY <2>5, AtSector
    <2>7. /\ drive.lba = Place(r, la) /\ drive.held = mem[la] /\ Done(la - 1)
          /\ drive.left \in 0..NSECTOR /\ disk \in [Sector -> Data]
          /\ mem \in [1..NSECTOR -> Data]
      BY <2>1, <2>5, StoresInPlace DEF DInv, DataTypes, TransferInStep
    <2>8. disk' = [disk EXCEPT ![Place(r, la)] = mem[la]]
      BY <2>1, <2>7
    <2>9. ASSUME NEW i \in 1..la
          PROVE  mem[i] = disk'[Place(r, i)]
      <3>1. i \in 1..r.count /\ la \in Int /\ i \in Int
        BY <2>6
      <3>2. Place(r, i) \in Sector /\ Place(r, la) \in Sector
        BY <2>6, <3>1
      <3>3. CASE i = la
        BY <2>7, <2>8, <3>2, <3>3
      <3>4. CASE i # la
        <4>1. Place(r, i) = Place(r, 1) + i - 1 /\ Place(r, la) = Place(r, 1) + la - 1
          BY <2>6, <3>1
        <4>2. Place(r, i) # Place(r, la)
          <5> DEFINE x == Place(r, 1)
          <5>1. x \in Nat /\ Place(r, i) = x + i - 1 /\ Place(r, la) = x + la - 1
            BY <2>6, <4>1
          <5> HIDE DEF x
          <5> QED BY <3>1, <3>4, <5>1
        <4>3. i \in 1..la - 1
          BY <2>6, <3>4
        <4>4. mem[i] = disk[Place(r, i)]
          BY <2>7, <4>3 DEF Done
        <4> QED BY <2>7, <2>8, <3>2, <4>2, <4>4
      <3> QED BY <3>3, <3>4
    <2>10. la' = la /\ hd_msg'.body = r
      BY <1>1 DEF la
    <2>11. Done(la)' /\ Done(la - 1)'
      <3>1. \A i \in 1..la - 1 : i \in 1..la
        BY <2>6
      <3> QED BY <1>1, <2>9, <2>10, <3>1 DEF Done
    <2>12. DataTypes'
      <3>1. drive'.lba \in 0..DiskSize
        <4>1. Place(r, la) \in Sector
          BY <2>6
        <4> QED BY <2>2, <2>7, <4>1, Sizes DEF Sector
      <3>2. drive'.left \in 0..NSECTOR
        BY <2>2, <2>4, <2>6, <2>7, Sizes
      <3>3. disk' \in [Sector -> Data]
        <4>1. mem[la] \in Data
          BY <2>6, <2>7
        <4> QED BY <2>7, <2>8, <4>1
      <3>4. drive'.status \in {"idle", "drq"}
        BY <2>2
      <3> QED BY <1>1, <3>1, <3>2, <3>3, <3>4 DEF DInv, DataTypes
    <2>13. TransferInStep'
      BY <1>1, <2>11 DEF DInv, TransferInStep, AtWork, Untouched
    <2>14. ReplyInStep'
      BY <1>1, <2>3 DEF ReplyInStep
    <2>15. PlaceInStep'
      <3>1. Sent' /\ drive'.status # "full"
        BY <1>1, <2>2, <2>5 DEF Sent
      <3>2. drive'.lba = Place(r, la) + 1
        BY <2>2, <2>7
      <3> QED BY <1>1, <2>3, <2>5, <2>10, <2>11, <3>1, <3>2 DEF PlaceInStep
    <2> QED BY <1>3, <2>12, <2>13, <2>14, <2>15 DEF DInv
  <1> QED BY <1>1, <1>4, <1>5

\* The command goes to the drive with the first sector of the request.
LEMMA HdCommandOutKeepsData ==
    ASSUME HIInv, DInv, HIInv', HdCommandOut
    PROVE  DInv'
  <1> DEFINE r == hd_msg.body
  <1>1. /\ HdRuns("command") /\ DriveCommand(cmd)
        /\ IF cmd.command = "WRITE"
           THEN want' = "DRQ" /\ hd_pc' = "start"
           ELSE want' = want /\ hd_pc' = "interrupt"
        /\ UNCHANGED <<hd_msg, goal, cmd, bytes_left, harddisk_info, scan, disk, mem, geo>>
    BY DEF HdCommandOut, HdGoesTo, fsVars
  <1>2. hd_pc = "command" /\ BeforeCommand
    BY <1>1, DriverRuns DEF HIInv, DriveInStep
  <1>3. AtWork /\ AtWork' /\ hd_pc' \in Working
    BY <1>1, <1>2 DEF AtWork, Working
  <1>4. /\ drive'.status = "busy" /\ drive'.lba = cmd.lba
        /\ drive'.left = IF cmd.sector_count = 0 THEN NSECTOR ELSE cmd.sector_count
    BY <1>1 DEF DriveCommand, IdleDrive
  <1>5. RequestsFit' /\ WalkInStep'
    BY <1>1, <1>3, WorkingHandles, SameWalk DEF DInv
  <1>6. DataTypes'
    <2>1. drive'.left \in 0..NSECTOR /\ drive'.lba \in 0..DiskSize
      BY <1>4, Sizes DEF DInv, DataTypes
    <2> QED BY <1>1, <1>4, <2>1 DEF DInv, DataTypes
  <1>7. TransferInStep'
    BY <1>1, <1>3 DEF DInv, TransferInStep, Done, Untouched, la
  <1>8. ReplyInStep'
    BY <1>1 DEF ReplyInStep
  <1>9. PlaceInStep'
    <2>1. CASE goal = "transfer"
      <3>1. /\ bytes_left = r.count /\ cmd.lba = Place(r, 1)
        BY <1>2, <2>1 DEF DInv, PlaceInStep
      <3>2. la = 1 /\ Place(r, 1) \in Nat
        BY <1>3, <2>1, <3>1, AtSector DEF la
      <3>3. drive'.status # "full" /\ la' = la
        BY <1>1, <1>4 DEF la
      <3>4. drive'.lba = Place(r, la)
        BY <1>4, <3>1, <3>2
      <3>5. CASE cmd.command = "WRITE"
        BY <1>1, <3>3, <3>4, <3>5 DEF PlaceInStep
      <3>6. CASE cmd.command # "WRITE"
        <4>1. ~Sent'
          BY <1>1, <3>6 DEF Sent
        <4>2. drive'.lba = Place(r, la) + 0
          BY <3>2, <3>4
        <4> QED BY <1>1, <2>1, <3>3, <3>6, <4>1, <4>2 DEF PlaceInStep
      <3> QED BY <3>5, <3>6
    <2>2. CASE goal # "transfer"
      <3>1. cmd.command # "WRITE"
        BY <1>2, <2>2 DEF BeforeCommand, CommandFits
      <3> QED BY <1>1, <1>4, <2>2, <3>1 DEF PlaceInStep
    <2> QED BY <2>1, <2>2
  <1> QED BY <1>5, <1>6, <1>7, <1>8, <1>9 DEF DInv

\* The sector that has come is put where the request wants it.
LEMMA HdReadsSectorKeepsData ==
    ASSUME HIInv, DInv, HIInv', HdReadsSector
    PROVE  DInv'
  <1> DEFINE r == hd_msg.body
  <1>1. /\ HdRuns("interrupted") /\ goal = "transfer" /\ cmd.command = "READ"
        /\ mem' = [mem EXCEPT ![la] = disk[drive.lba]]
        /\ DriveWasRead /\ bytes_left' = bytes_left - 1
        /\ hd_pc' = IF bytes_left = 1 THEN "reply" ELSE "interrupt"
        /\ UNCHANGED <<hd_msg, goal, cmd, want, harddisk_info, scan, disk, geo>>
    BY DEF HdReadsSector, Interrupted, OneSectorLess, HdGoesTo
  <1>2. hd_pc = "interrupted" /\ AtWork /\ hd_pc' \in Working
    BY <1>1, DriverRuns DEF AtWork, Working
  <1>3. /\ bytes_left \in Nat /\ bytes_left > 0
        /\ la \in 1..r.count /\ la \in 1..NSECTOR /\ la + bytes_left = r.count + 1
        /\ \A i \in 1..r.count : Place(r, i) \in Sector
        /\ \A i \in Int : Place(r, i) = Place(r, 1) + i - 1
        /\ Place(r, 1) \in Nat /\ r.count \in 1..NSECTOR
    BY <1>1, <1>2, AtSector
  <1>4. drive.command = "READ" /\ drive.left = bytes_left
    BY <1>1, SectorCame DEF InRead, CommandFits, Due
  <1>5. /\ DOMAIN drive = DOMAIN IdleDrive /\ drive.left \in Nat
    BY DEF HIInv, HTypes
  <1>6. /\ drive.lba = Place(r, la) /\ Place(r, la) \in Sector
        /\ disk \in [Sector -> Data] /\ mem \in [1..NSECTOR -> Data]
        /\ Done(la - 1) /\ r.type = "DEVREAD"
    <2>1. ~Sent
      BY <1>1 DEF Sent
    <2>2. drive.lba = Place(r, la) + 0 /\ Place(r, la) \in Sector
      BY <1>1, <1>2, <1>3, <2>1 DEF DInv, PlaceInStep
    <2> QED BY <1>1, <1>2, <2>2 DEF DInv, DataTypes, TransferInStep, Sector
  <1>7. IF bytes_left = 1
        THEN drive' = IdleDrive
        ELSE /\ drive'.status = "busy" /\ drive'.lba = Place(r, la) + 1
             /\ drive'.left = bytes_left - 1
    <2>1. bytes_left = 1 => ~(drive.left > 1)
      BY <1>4
    <2>2. bytes_left # 1 => drive.left > 1
      BY <1>3, <1>4
    <2>3. CASE bytes_left = 1
      BY <1>1, <2>1, <2>3 DEF DriveWasRead
    <2>4. CASE bytes_left # 1
      <3>1. drive' = [drive EXCEPT !.status = "busy", !.lba = @ + 1, !.left = @ - 1]
        BY <1>1, <1>4, <2>2, <2>4 DEF DriveWasRead
      <3>2. /\ drive'.status = "busy" /\ drive'.lba = drive.lba + 1
            /\ drive'.left = drive.left - 1
        BY <1>5, <3>1 DEF IdleDrive
      <3> QED BY <1>4, <1>6, <2>4, <3>2
    <2> QED BY <2>3, <2>4
  <1>8. RequestsFit' /\ WalkInStep'
    <2>1. AtWork' => AtWork
      BY <1>2
    <2> QED BY <1>1, <1>2, <2>1, WorkingHandles, SameWalk DEF DInv
  <1>9. DataTypes'
    <2>1. drive'.status \in {"idle", "busy"} /\ drive'.lba \in 0..DiskSize
          /\ drive'.left \in 0..NSECTOR
      <3>1. CASE bytes_left = 1
        BY <1>7, <3>1, Sizes DEF IdleDrive
      <3>2. CASE bytes_left # 1
        <4>1. Place(r, la) + 1 \in 0..DiskSize
          BY <1>6, Sizes DEF Sector
        <4>2. bytes_left - 1 \in 0..NSECTOR
          BY <1>3, Sizes
        <4> QED BY <1>7, <3>2, <4>1, <4>2
      <3> QED BY <3>1, <3>2
    <2>2. mem' \in [1..NSECTOR -> Data]
      <3>1. disk[drive.lba] \in Data
        BY <1>6
      <3> QED BY <1>1, <1>6, <3>1
    <2>3. bytes_left' \in 0..NSECTOR
      BY <1>1, <1>3, Sizes
    <2> QED BY <1>1, <2>1, <2>2, <2>3 DEF DInv, DataTypes
  <1>10. ASSUME NEW i \in 1..la
         PROVE  mem'[i] = disk[Place(r, i)]
    <2>1. CASE i = la
      BY <1>1, <1>3, <1>6, <2>1
    <2>2. CASE i # la
      <3>1. i \in 1..la - 1
        BY <1>3, <2>2
      <3>2. mem[i] = disk[Place(r, i)]
        BY <1>6, <3>1 DEF Done
      <3> QED BY <1>1, <1>6, <2>2, <3>2
    <2> QED BY <2>1, <2>2
  <1>11. la' = la + 1 /\ la' - 1 = la /\ hd_msg'.body = r /\ (bytes_left = 1 => la = r.count)
    BY <1>1, <1>3 DEF la
  <1>12. Done(la - 1)'
    BY <1>1, <1>10, <1>11 DEF Done
  <1>13. TransferInStep'
    <2>1. bytes_left' <= r.count
      BY <1>1, <1>3
    <2> QED BY <1>1, <1>6, <1>12, <2>1 DEF TransferInStep
  <1>14. ReplyInStep'
    <2>1. CASE bytes_left = 1
      <3>1. \A i \in 1..r.count : mem'[i] = disk[Place(r, i)]
        BY <1>10, <1>11, <2>1
      <3> QED BY <1>1, <1>6, <3>1 DEF ReplyInStep, Done
    <2>2. CASE bytes_left # 1
      BY <1>1, <2>2 DEF ReplyInStep
    <2> QED BY <2>1, <2>2
  <1>15. PlaceInStep'
    <2>1. CASE bytes_left = 1
      BY <1>1, <2>1 DEF PlaceInStep
    <2>2. CASE bytes_left # 1
      <3>1. ~Sent'
        BY <1>1 DEF Sent
      <3>2. Place(r, la + 1) = Place(r, la) + 1
        <4>1. la \in Int /\ la + 1 \in Int
          BY <1>3
        <4>2. Place(r, la) = Place(r, 1) + la - 1 /\ Place(r, la + 1) = Place(r, 1) + (la + 1) - 1
          BY <1>3, <4>1
        <4> QED BY <1>3, <4>1, <4>2
      <3>3. drive'.lba = Place(r, la + 1) + 0
        <4>1. Place(r, la + 1) \in Int
          BY <1>6, <3>2 DEF Sector
        <4> QED BY <1>7, <2>2, <3>2, <4>1
      <3>4. drive'.status = "busy"
        BY <1>7, <2>2
      <3> QED BY <1>1, <1>11, <2>2, <3>1, <3>3, <3>4 DEF PlaceInStep
    <2> QED BY <2>1, <2>2
  <1> QED BY <1>8, <1>9, <1>13, <1>14, <1>15 DEF DInv

\* A sector is given to the drive, which is at its place.
LEMMA HdWritesSectorKeepsData ==
    ASSUME HIInv, DInv, HIInv', HdWritesSector
    PROVE  DInv'
  <1>1. /\ HdRuns("write") /\ hd_pc' = "interrupt"
        /\ drive' = [drive EXCEPT !.status = "full", !.held = mem[la]]
        /\ UNCHANGED <<hd_msg, goal, cmd, want, bytes_left, harddisk_info, scan, disk,
                       mem, geo>>
    BY DEF HdWritesSector, DriveWasWritten, HdGoesTo, fsVars
  <1>2. hd_pc = "write" /\ AtWork /\ AtWork' /\ hd_pc' \in Working
    BY <1>1, DriverRuns DEF AtWork, Working
  <1>3. goal = "transfer" /\ drive.lba = Place(hd_msg.body, la)
    BY <1>2 DEF HIInv, DriveInStep, BeforeSector, InWrite, DInv, PlaceInStep
  <1>4. /\ drive'.status = "full" /\ drive'.held = mem[la]
        /\ drive'.lba = drive.lba /\ drive'.left = drive.left
    BY <1>1 DEF HIInv, HTypes, IdleDrive
  <1>5. RequestsFit' /\ WalkInStep'
    BY <1>1, <1>2, WorkingHandles, SameWalk DEF DInv
  <1>6. DataTypes'
    BY <1>1, <1>4 DEF DInv, DataTypes
  <1>7. TransferInStep' /\ ReplyInStep'
    BY <1>1, <1>2 DEF DInv, TransferInStep, ReplyInStep, Done, Untouched, la
  <1>8. PlaceInStep'
    <2>1. ~Sent' /\ la' = la
      BY <1>1, <1>4 DEF Sent, la
    <2>2. drive.lba \in Int /\ drive'.lba = Place(hd_msg.body, la) + 0
      <3>1. drive.lba \in 0..DiskSize
        BY DEF DInv, DataTypes
      <3> QED BY <1>3, <1>4, <3>1
    <2> QED BY <1>1, <1>3, <1>4, <2>1, <2>2 DEF PlaceInStep
  <1> QED BY <1>5, <1>6, <1>7, <1>8 DEF DInv

\* The drive has stored the sector and is at the next one.
LEMMA HdWroteSectorKeepsData ==
    ASSUME HIInv, DInv, HIInv', HdWroteSector
    PROVE  DInv'
  <1> DEFINE r == hd_msg.body
  <1>1. /\ HdRuns("interrupted") /\ goal = "transfer" /\ cmd.command = "WRITE"
        /\ bytes_left' = bytes_left - 1
        /\ hd_pc' = IF bytes_left = 1 THEN "reply" ELSE "start"
        /\ UNCHANGED <<hd_msg, goal, cmd, want, harddisk_info, scan, drive, disk, mem, geo>>
    BY DEF HdWroteSector, Interrupted, OneSectorLess, HdGoesTo, driveVars, fsVars
  <1>2. hd_pc = "interrupted" /\ AtWork /\ hd_pc' \in Working
    BY <1>1, DriverRuns DEF AtWork, Working
  <1>3. /\ bytes_left \in Nat /\ bytes_left > 0
        /\ la \in 1..r.count /\ la + bytes_left = r.count + 1
        /\ \A i \in Int : Place(r, i) = Place(r, 1) + i - 1
        /\ Place(r, 1) \in Nat /\ r.count \in 1..NSECTOR
    BY <1>1, <1>2, AtSector
  <1>4. /\ Sent /\ want = "DRQ"
    BY <1>1, SectorCame DEF InWrite, Sent
  <1>5. /\ drive.lba = Place(r, la) + 1 /\ Done(la)
        /\ Untouched /\ r.type = "DEVWRITE"
    BY <1>1, <1>2, <1>4 DEF DInv, PlaceInStep, TransferInStep
  <1>6. la' = la + 1 /\ la' - 1 = la /\ hd_msg'.body = r /\ (bytes_left = 1 => la = r.count)
    BY <1>1, <1>3 DEF la
  <1>7. RequestsFit' /\ WalkInStep'
    <2>1. AtWork' => AtWork
      BY <1>2
    <2> QED BY <1>1, <1>2, <2>1, WorkingHandles, SameWalk DEF DInv
  <1>8. DataTypes'
    <2>1. bytes_left' \in 0..NSECTOR
      BY <1>1, <1>3, Sizes
    <2> QED BY <1>1, <2>1 DEF DInv, DataTypes
  <1>9. TransferInStep'
    <2>1. bytes_left' <= r.count
      BY <1>1, <1>3
    <2>2. Done(la - 1)'
      BY <1>1, <1>5, <1>6 DEF Done
    <2> QED BY <1>1, <1>5, <2>1, <2>2 DEF TransferInStep, Untouched
  <1>10. ReplyInStep'
    <2>1. CASE bytes_left = 1
      BY <1>1, <1>5, <1>6, <2>1 DEF ReplyInStep, Done, Untouched
    <2>2. CASE bytes_left # 1
      BY <1>1, <2>2 DEF ReplyInStep
    <2> QED BY <2>1, <2>2
  <1>11. PlaceInStep'
    <2>1. CASE bytes_left = 1
      BY <1>1, <2>1 DEF PlaceInStep
    <2>2. CASE bytes_left # 1
      <3>1. Place(r, la + 1) = Place(r, la) + 1
        <4>1. la \in Int /\ la + 1 \in Int
          BY <1>3
        <4>2. Place(r, la) = Place(r, 1) + la - 1 /\ Place(r, la + 1) = Place(r, 1) + (la + 1) - 1
          BY <1>3, <4>1
        <4> QED BY <1>3, <4>1, <4>2
      <3> QED BY <1>1, <1>4, <1>5, <1>6, <2>2, <3>1 DEF PlaceInStep
    <2> QED BY <2>1, <2>2
  <1> QED BY <1>7, <1>8, <1>9, <1>10, <1>11 DEF DInv

\* What is in place before a request is handled.
LEMMA Asked ==
    ASSUME HIInv, DInv, HdRuns("received")
    PROVE  /\ hd_pc = "received" /\ DiskRequest(buffer[TASK_HARDDISK])
           /\ MayAsk(buffer[TASK_HARDDISK].body) /\ Untouched
           /\ ~AtWork
           /\ harddisk_info.open_count > 0 => AllKnown(harddisk_info)
  <1>1. hd_pc = "received" /\ Free(TASK_HARDDISK) /\ DiskRequest(buffer[TASK_HARDDISK])
    BY DriverRuns
  <1>2. Unhandled(buffer[TASK_HARDDISK].body) /\ buffer[TASK_HARDDISK].body \in Requests
    BY <1>1 DEF Unhandled, DiskRequest
  <1>3. ~AtWork
    BY <1>1 DEF AtWork, Working
  <1> QED BY <1>1, <1>2, <1>3 DEF DInv, RequestsFit, WalkInStep

\* A request is taken up: the walk begins, or the place is worked out from what
\* the driver knows.
LEMMA HdHandlesKeepsData ==
    ASSUME HIInv, DInv, HIInv', HdHandles
    PROVE  DInv'
  <1> DEFINE r == buffer[TASK_HARDDISK].body
  <1>1. HdRuns("received")
    BY DEF HdHandles
  <1>2. /\ hd_pc = "received" /\ DiskRequest(buffer[TASK_HARDDISK])
        /\ MayAsk(r) /\ Untouched /\ ~AtWork
        /\ harddisk_info.open_count > 0 => AllKnown(harddisk_info)
    BY <1>1, Asked
  <1>3. r \in Requests
    BY <1>2 DEF DiskRequest
  <1>4. harddisk_open \/ harddisk_close \/ harddisk_readwrite \/ harddisk_ioctl
    BY <1>3 DEF HdHandles
  <1>5. /\ hd_msg' = buffer[TASK_HARDDISK] /\ hd_msg'.body = r
        /\ UNCHANGED <<scan, drive, disk, mem>>
    BY <1>4 DEF harddisk_open, harddisk_close, harddisk_readwrite, harddisk_ioctl,
                Received, driveVars
  <1>6. harddisk_info \in Notes
    BY DEF DInv, DataTypes
  <1>7. \A d : InfoOf(d) = NotedIn(harddisk_info, d)
    BY DEF InfoOf, NotedIn
  <1>8. harddisk_info.open_count > 0 => InfoOf(r.device) = Partition[r.device]
    BY <1>2, <1>3, <1>7, PlacesAre DEF AllKnown, Known
  <1>9. CASE harddisk_open
    <2>1. /\ cmd' = [command |-> "IDENTIFY", lba |-> 0, sector_count |-> 0]
          /\ goal' = "identify" /\ want' = "not BSY" /\ hd_pc' = "start"
          /\ UNCHANGED <<bytes_left, harddisk_info, geo>>
          /\ r.type = "DEVOPEN"
      BY <1>5, <1>9 DEF harddisk_open, Received, Commands, HdGoesTo, request
    <2>2. harddisk_info.open_count < MaxOpen
      BY <1>2, <2>1 DEF MayAsk
    <2>3. hd_pc' \in Working
      BY <2>1 DEF Working
    <2>4. RequestsFit'
      BY <2>3, WorkingHandles
    <2>5. DataTypes'
      <3>1. /\ cmd'.command = "IDENTIFY" /\ cmd'.lba = 0 /\ cmd'.sector_count = 0
        BY <2>1
      <3>2. 0 \in 0..DiskSize /\ 0 \in 0..NSECTOR - 1
        BY Sizes
      <3> QED BY <1>5, <2>1, <3>1, <3>2 DEF DInv, DataTypes
    <2>6. WalkInStep'
      <3>1. harddisk_info.open_count > 0 => AllKnown(harddisk_info)'
        BY <1>2, <2>1 DEF AllKnown, Known, NotedIn
      <3> QED BY <1>5, <2>1, <2>2, <3>1 DEF WalkInStep
    <2>7. TransferInStep' /\ PlaceInStep' /\ ReplyInStep'
      BY <2>1 DEF TransferInStep, PlaceInStep, ReplyInStep
    <2> QED BY <2>4, <2>5, <2>6, <2>7 DEF DInv
  <1>10. CASE harddisk_close
    <2>1. /\ harddisk_info' = [harddisk_info EXCEPT !.open_count = @ - 1]
          /\ hd_pc' = "reply" /\ r.type = "DEVCLOSE"
          /\ UNCHANGED <<goal, cmd, want, bytes_left, geo>>
      BY <1>5, <1>10 DEF harddisk_close, Received, HdGoesTo, request
    <2>2. harddisk_info.open_count > 0 /\ AllKnown(harddisk_info)
      BY <1>2, <2>1 DEF MayAsk
    <2>3. /\ harddisk_info'.primary = harddisk_info.primary
          /\ harddisk_info'.logical = harddisk_info.logical
          /\ harddisk_info'.open_count = harddisk_info.open_count - 1
          /\ harddisk_info' \in Notes
      <3>1. harddisk_info.open_count \in 0..MaxOpen
        BY <1>6 DEF Notes
      <3>2. harddisk_info.open_count - 1 \in 0..MaxOpen
        BY <2>2, <3>1, Sizes
      <3> QED BY <1>6, <2>1, <3>2 DEF Notes
    <2>4. AllKnown(harddisk_info)'
      BY <2>2, <2>3 DEF AllKnown, Known, NotedIn
    <2>5. hd_pc' \in Working /\ ~AtWork'
      BY <2>1 DEF Working, AtWork
    <2>6. RequestsFit'
      BY <2>5, WorkingHandles
    <2>7. DataTypes'
      BY <1>5, <2>1, <2>3 DEF DInv, DataTypes
    <2>8. WalkInStep' /\ TransferInStep'
      BY <2>4, <2>5 DEF WalkInStep, TransferInStep
    <2>9. PlaceInStep' /\ ReplyInStep'
      BY <1>5, <2>1 DEF PlaceInStep, ReplyInStep
    <2> QED BY <2>6, <2>7, <2>8, <2>9 DEF DInv
  <1>11. CASE harddisk_readwrite
    <2>1. /\ cmd' = [command |-> IF r.type = "DEVREAD" THEN "READ" ELSE "WRITE",
                     lba |-> InfoOf(r.device).base + r.sector,
                     sector_count |-> r.count % NSECTOR]
          /\ goal' = "transfer" /\ want' = "not BSY" /\ hd_pc' = "start"
          /\ bytes_left' = r.count /\ r.type \in {"DEVREAD", "DEVWRITE"}
          /\ UNCHANGED <<harddisk_info, geo>>
      BY <1>5, <1>11 DEF harddisk_readwrite, Received, Commands, HdGoesTo, request
    <2>2. harddisk_info.open_count > 0
      BY <1>2, <2>1 DEF MayAsk
    <2>3. /\ r.count \in 1..NSECTOR
          /\ Place(r, 1) = Partition[r.device].base + r.sector
          /\ Place(r, 1) \in Sector
      <3>1. /\ r.count \in 1..NSECTOR
            /\ Place(r, 1) = Partition[r.device].base + r.sector
            /\ \A i \in 1..r.count : Place(r, i) \in Sector
        BY <1>3, PlacesAre
      <3>2. 1 \in 1..r.count
        BY <3>1, Sizes
      <3> QED BY <3>1, <3>2
    <2>4. /\ cmd'.command = IF r.type = "DEVREAD" THEN "READ" ELSE "WRITE"
          /\ cmd'.lba = Place(r, 1) /\ cmd'.sector_count = r.count % NSECTOR
      BY <1>8, <2>1, <2>2, <2>3
    <2>5. hd_pc' \in Working /\ AtWork'
      BY <2>1 DEF Working, AtWork
    <2>6. RequestsFit'
      BY <2>5, WorkingHandles
    <2>7. DataTypes'
      <3>1. cmd'.lba \in 0..DiskSize
        BY <2>3, <2>4, Sizes DEF Sector
      <3>2. cmd'.sector_count \in 0..NSECTOR - 1
        <4> DEFINE n == r.count
        <4>1. n \in Nat /\ cmd'.sector_count = n % NSECTOR
          BY <2>3, <2>4, Sizes
        <4> HIDE DEF n
        <4> QED BY <4>1, Sizes
      <3>3. bytes_left' \in 0..NSECTOR
        <4>1. bytes_left' = r.count
          BY <2>1
        <4> QED BY <2>3, <4>1, Sizes
      <3>4. cmd'.command \in {"READ", "WRITE"}
        BY <2>4
      <3> QED BY <1>5, <2>1, <3>1, <3>2, <3>3, <3>4 DEF DInv, DataTypes
    <2>8. WalkInStep'
      <3>1. AllKnown(harddisk_info)'
        BY <1>2, <2>1, <2>2 DEF AllKnown, Known, NotedIn
      <3> QED BY <2>1, <3>1 DEF WalkInStep
    <2>9. TransferInStep'
      <3> DEFINE n == r.count
      <3>0. n \in Nat /\ bytes_left' = n /\ la' = n - bytes_left' + 1
        <4>1. bytes_left' = n
          BY <2>1
        <4>2. n \in Nat
          BY <2>3, Sizes
        <4>3. la' = n - bytes_left' + 1
          BY <1>5 DEF la
        <4> QED BY <4>1, <4>2, <4>3
      <3> HIDE DEF n
      <3>1. la' - 1 = 0
        BY <3>0
      <3>2. Done(la - 1)'
        BY <3>1 DEF Done
      <3>3. bytes_left' <= hd_msg'.body.count
        <4>1. hd_msg'.body.count = n
          BY <1>5 DEF n
        <4> QED BY <3>0, <4>1
      <3>4. Untouched'
        BY <1>2, <1>5 DEF Untouched
      <3>5. r.type = IF cmd'.command = "WRITE" THEN "DEVWRITE" ELSE "DEVREAD"
        BY <2>1, <2>4
      <3> QED BY <1>5, <3>2, <3>3, <3>4, <3>5 DEF TransferInStep
    <2>10. PlaceInStep' /\ ReplyInStep'
      BY <1>5, <2>1, <2>4 DEF PlaceInStep, ReplyInStep
    <2> QED BY <2>6, <2>7, <2>8, <2>9, <2>10 DEF DInv
  <1>12. CASE harddisk_ioctl
    <2>1. /\ geo' = InfoOf(r.device) /\ hd_pc' = "reply" /\ r.type = "DEVIOCTL"
          /\ UNCHANGED <<goal, cmd, want, bytes_left, harddisk_info>>
      BY <1>5, <1>12 DEF harddisk_ioctl, Received, HdGoesTo, request
    <2>2. harddisk_info.open_count > 0
      BY <1>2, <2>1 DEF MayAsk
    <2>3. geo' = Partition[r.device] /\ geo' \in Info
      BY <1>3, <1>8, <2>1, <2>2, PlacesAre, DevicesAre
    <2>4. hd_pc' \in Working /\ ~AtWork'
      BY <2>1 DEF Working, AtWork
    <2>5. RequestsFit'
      BY <2>4, WorkingHandles
    <2>6. DataTypes'
      BY <1>5, <2>1, <2>3 DEF DInv, DataTypes
    <2>7. WalkInStep' /\ TransferInStep'
      <3>1. AllKnown(harddisk_info)'
        BY <1>2, <2>1, <2>2 DEF AllKnown, Known, NotedIn
      <3> QED BY <2>4, <3>1 DEF WalkInStep, TransferInStep
    <2>8. PlaceInStep' /\ ReplyInStep'
      BY <1>5, <2>1, <2>3 DEF PlaceInStep, ReplyInStep
    <2> QED BY <2>5, <2>6, <2>7, <2>8 DEF DInv
  <1> QED BY <1>4, <1>9, <1>10, <1>11, <1>12

-----------------------------------------------------------------------------
(* The walk over the tables.                                               *)

\* The loop over the primary entries records those up to the first extended
\* partition that is left, or all.
LEMMA ScanRecords ==
    ASSUME NEW first \in 1..HD_NUM_PART_PER_DRIVE + 1, NEW info \in Notes,
           KnownBefore(info, first - 1, HD_NUM_SUB_PER_PART),
           ScanPrimary(Table[0], first, info)
    PROVE  /\ harddisk_info' \in Notes /\ harddisk_info'.open_count = info.open_count
           /\ \/ /\ hd_pc' = "reply" /\ scan' = NoScan /\ UNCHANGED <<cmd, goal, want>>
                 /\ AllKnown(harddisk_info')
              \/ \E p \in Part :
                    /\ GetTable(Table[0][p].start, "extended")
                    /\ scan' = [part |-> p, sub |-> 0, base |-> Table[0][p].start,
                                table |-> Table[0]]
                    /\ Table[0][p].start \in 0..DiskSize
                    /\ HasLogical(p, 0) /\ TableAt(p)[0] = Table[0][p].start
                    /\ KnownBefore(harddisk_info', p, 0)
  <1> DEFINE N == HD_NUM_PART_PER_DRIVE
             extended == {p \in Part : p >= first /\ Table[0][p].id = "EXTENDED"}
             last == IF extended = {} THEN N
                     ELSE CHOOSE p \in extended : \A q \in extended : p <= q
             Entry(p) == [base |-> Table[0][p].start, size |-> Table[0][p].size]
             primary == [p \in DOMAIN info.primary |->
                           IF p \in first..last /\ Table[0][p].id # "NONE"
                           THEN Entry(p) ELSE info.primary[p]]
  <1>1. /\ harddisk_info' = [info EXCEPT !.primary = primary]
        /\ IF extended = {}
           THEN /\ hd_pc' = "reply" /\ scan' = NoScan
                /\ UNCHANGED <<cmd, goal, want>>
           ELSE /\ GetTable(Table[0][last].start, "extended")
                /\ scan' = [part |-> last, sub |-> 0,
                            base |-> Table[0][last].start, table |-> Table[0]]
    BY DEF ScanPrimary, HdGoesTo
  <1>2. N \in Nat /\ N > 0 /\ first \in Nat /\ first >= 1 /\ 0 \notin Part
    BY Sizes DEF Part
  <1>3. /\ info.primary \in [0..N -> Info] /\ info.open_count \in 0..MaxOpen
        /\ info.logical \in [0..HD_NUM_SUB_PER_DRIVE - 1 -> Info]
    BY DEF Notes
  <1>4. last \in Part /\ \A q \in extended : last <= q
    <2>1. CASE extended = {}
      BY <1>2, <2>1 DEF Part
    <2>2. CASE extended # {}
      <3>1. extended \in SUBSET Nat
        BY DEF Part
      <3>2. \E p \in extended : \A q \in extended : p <= q
        <4> HIDE DEF extended
        <4> QED BY <2>2, <3>1, LeastNumber
      <3>3. last \in extended /\ \A q \in extended : last <= q
        BY <2>2, <3>2
      <3> QED BY <3>3
    <2> QED BY <2>1, <2>2
  <1>5. extended # {} => last \in extended
    <2> SUFFICES ASSUME extended # {} PROVE last \in extended
      OBVIOUS
    <2>1. extended \in SUBSET Nat
      BY DEF Part
    <2>2. \E p \in extended : \A q \in extended : p <= q
      <3> HIDE DEF extended
      <3> QED BY <2>1, LeastNumber
    <2> QED BY <2>2
  <1>6. extended = {} => last = N
    OBVIOUS
  <1> HIDE DEF last
  <1>7. primary \in [0..N -> Info]
    <2> SUFFICES ASSUME NEW p \in 0..N PROVE primary[p] \in Info
      BY <1>3
    <2>1. CASE p \in first..last /\ Table[0][p].id # "NONE"
      <3>1. p \in Part
        BY <1>2, <1>4, <2>1 DEF Part
      <3>2. Entry(p) \in Info
        BY <2>1, <3>1, TableAssumption DEF Info
      <3> QED BY <1>3, <2>1, <3>2
    <2>2. CASE ~(p \in first..last /\ Table[0][p].id # "NONE")
      BY <1>3, <2>2
    <2> QED BY <2>1, <2>2
  <1>8. /\ \A p \in Part : primary[p] = IF p \in first..last /\ Table[0][p].id # "NONE"
                                       THEN Entry(p) ELSE info.primary[p]
        /\ primary[0] = info.primary[0]
    <2>1. Part \subseteq 0..N /\ 0 \in 0..N
      BY <1>2 DEF Part
    <2>2. 0 \notin first..last
      BY <1>2, <1>4 DEF Part
    <2> QED BY <1>3, <2>1, <2>2
  <1> HIDE DEF primary
  <1>9. /\ harddisk_info' \in Notes /\ harddisk_info'.open_count = info.open_count
        /\ harddisk_info'.primary = primary /\ harddisk_info'.logical = info.logical
    BY <1>1, <1>3, <1>7 DEF Notes
  <1>10. \A q \in Part, k \in Sub : q < last /\ HasLogical(q, k) => q < first
    <2> SUFFICES ASSUME NEW q \in Part, NEW k \in Sub, q < last, HasLogical(q, k), q >= first
                 PROVE  FALSE
      BY <1>2 DEF Part
    <2>1. q \in extended
      BY DEF HasLogical
    <2> QED BY <1>4, <2>1 DEF Part
  <1>11. KnownBefore(harddisk_info', last, 0)
    <2> DEFINE new == harddisk_info'
    <2>1. Known(new, 0)
      BY <1>8, <1>9, NotedInIs DEF KnownBefore, Known
    <2>2. ASSUME NEW q \in Part, q <= last, Table[0][q].id # "NONE"
          PROVE  Known(new, q)
      <3>1. NotedIn(new, q) = primary[q] /\ NotedIn(info, q) = info.primary[q]
        BY <1>9, NotedInIs
      <3>2. CASE q < first
        <4>1. Known(info, q)
          BY <1>2, <2>2, <3>2 DEF KnownBefore, Part
        <4>2. q \notin first..last
          BY <1>2, <3>2 DEF Part
        <4> QED BY <1>8, <3>1, <4>1, <4>2 DEF Known
      <3>3. CASE q >= first
        <4>1. q \in first..last
          BY <1>2, <1>4, <2>2, <3>3 DEF Part
        <4>2. Partition[q] = Entry(q)
          BY <2>2, PartitionIs
        <4> QED BY <1>8, <2>2, <3>1, <4>1, <4>2 DEF Known
      <3> QED BY <1>2, <3>2, <3>3 DEF Part
    <2>3. ASSUME NEW q \in Part, NEW k \in Sub, q < last \/ (q = last /\ k < 0),
                 HasLogical(q, k)
          PROVE  Known(new, MinorOf(q, k))
      <3>1. q < last
        BY <2>3, Sizes DEF Sub
      <3>2. q < first
        BY <1>10, <2>3, <3>1
      <3>3. q < first - 1 \/ (q = first - 1 /\ k < HD_NUM_SUB_PER_PART)
        BY <1>2, <3>2, Sizes DEF Part, Sub
      <3>4. Known(info, MinorOf(q, k))
        BY <2>3, <3>3 DEF KnownBefore
      <3> QED BY <1>9, <3>4, NotedInIs DEF Known
    <2> QED BY <2>1, <2>2, <2>3 DEF KnownBefore
  <1>12. CASE extended = {}
    <2>1. last = N /\ N \notin extended
      BY <1>6, <1>12
    <2>2. ASSUME NEW k \in Sub, HasLogical(N, k)
          PROVE  Known(harddisk_info', MinorOf(N, k))
      <3>1. N \in Part /\ Table[0][N].id = "EXTENDED"
        BY <1>2, <2>2 DEF Part, HasLogical
      <3>2. N < first
        BY <1>2, <2>1, <3>1
      <3>3. N = first - 1 /\ k < HD_NUM_SUB_PER_PART
        BY <1>2, <3>2, Sizes DEF Sub
      <3>4. Known(info, MinorOf(N, k))
        BY <2>2, <3>1, <3>3 DEF KnownBefore
      <3> QED BY <1>9, <3>1, <3>4, NotedInIs DEF Known
    <2>3. KnownBefore(harddisk_info', N, HD_NUM_SUB_PER_PART)
      <3>1. KnownBefore(harddisk_info', N, 0)
        BY <1>11, <2>1
      <3> QED BY <2>2, <3>1 DEF KnownBefore
    <2>4. AllKnown(harddisk_info')
      BY <2>3, WalkedAll
    <2> QED BY <1>1, <1>9, <1>12, <2>4
  <1>13. CASE extended # {}
    <2>1. last \in Part /\ Table[0][last].id = "EXTENDED"
      BY <1>5, <1>13
    <2>2. HasLogical(last, 0)
      BY <2>1 DEF HasLogical
    <2>3. TableAt(last)[0] = Table[0][last].start
      BY TableAtIs
    <2>4. Table[0][last].start \in 0..DiskSize
      BY <2>1, TableAssumption
    <2> QED BY <1>1, <1>9, <1>11, <1>13, <2>1, <2>2, <2>3, <2>4
  <1> QED BY <1>12, <1>13

\* A step of the walk: the next table, or the answer.
LEMMA WalkGoesOn ==
    ASSUME HIInv, DInv, HIInv', HdRuns("interrupted"),
           goal \in {"identify", "primary", "extended"}, DriveWasRead,
           UNCHANGED <<hd_msg, bytes_left, disk, mem, geo>>,
           harddisk_info' \in Notes, DOMAIN scan' = DOMAIN NoScan,
           scan'.part \in 0..HD_NUM_PART_PER_DRIVE, scan'.sub \in Sub,
           scan'.base \in 0..DiskSize,
           \/ /\ hd_pc' = "reply" /\ UNCHANGED <<cmd, goal>>
              /\ AllKnown(harddisk_info')
           \/ \E lba \in 0..DiskSize, g \in {"primary", "extended"} :
                 GetTable(lba, g) /\ WalkInStep'
    PROVE  DInv'
  <1>1. hd_pc = "interrupted" /\ AtWork
    BY DriverRuns DEF AtWork, Working
  <1>2. hd_msg'.body.type = "DEVOPEN"
    BY <1>1 DEF DInv, WalkInStep
  <1>3. drive' = IdleDrive
    <2>1. InRead
      BY SectorCame DEF InWrite
    <2>2. drive.command # "READ" \/ drive.left = 1
      BY <2>1 DEF InRead, CommandFits, Due
    <2> QED BY <2>2 DEF DriveWasRead
  <1>4. ASSUME cmd'.command \in {"NONE", "IDENTIFY", "READ", "WRITE"},
               cmd'.lba \in 0..DiskSize, cmd'.sector_count \in 0..NSECTOR - 1,
               goal' \in {"none", "identify", "primary", "extended", "transfer"}
        PROVE  DataTypes'
    <2>1. /\ drive'.status = "idle" /\ drive'.lba = 0 /\ drive'.left = 0
          /\ 0 \in 0..DiskSize /\ 0 \in 0..NSECTOR
      BY <1>3, Sizes DEF IdleDrive
    <2> QED BY <1>4, <2>1 DEF DInv, DataTypes
  <1>5. CASE /\ hd_pc' = "reply" /\ UNCHANGED <<cmd, goal>>
             /\ AllKnown(harddisk_info')
    <2>1. hd_pc' \in Working /\ ~AtWork'
      BY <1>5 DEF Working, AtWork
    <2>2. RequestsFit'
      BY <2>1, WorkingHandles
    <2>3. DataTypes'
      BY <1>4, <1>5 DEF DInv, DataTypes
    <2>4. WalkInStep' /\ TransferInStep'
      <3>1. AllKnown(harddisk_info)'
        BY <1>5 DEF AllKnown, Known, NotedIn
      <3> QED BY <2>1, <3>1 DEF WalkInStep, TransferInStep
    <2>5. PlaceInStep' /\ ReplyInStep'
      BY <1>2, <1>5 DEF PlaceInStep, ReplyInStep
    <2> QED BY <2>2, <2>3, <2>4, <2>5 DEF DInv
  <1>6. ASSUME NEW lba \in 0..DiskSize, NEW g \in {"primary", "extended"},
               GetTable(lba, g), WalkInStep'
        PROVE  DInv'
    <2>1. /\ cmd' = [command |-> "READ", lba |-> lba, sector_count |-> 1]
          /\ goal' = g /\ want' = "not BSY" /\ hd_pc' = "start"
      BY <1>6 DEF GetTable, Commands, HdGoesTo
    <2>2. RequestsFit'
      BY <2>1, WorkingHandles DEF Working
    <2>3. DataTypes'
      <3>1. cmd'.command = "READ" /\ cmd'.lba = lba /\ cmd'.sector_count = 1
        BY <2>1
      <3>2. 1 \in 0..NSECTOR - 1
        BY Sizes
      <3> QED BY <1>4, <2>1, <3>1, <3>2
    <2>4. TransferInStep' /\ PlaceInStep' /\ ReplyInStep'
      BY <2>1 DEF TransferInStep, PlaceInStep, ReplyInStep
    <2> QED BY <1>6, <2>2, <2>3, <2>4 DEF DInv
  <1> QED BY <1>5, <1>6

\* The drive is known, and the tables are walked at the first open only.
LEMMA HdIdentifiesKeepsData ==
    ASSUME HIInv, DInv, HIInv', HdIdentifies
    PROVE  DInv'
  <1> DEFINE whole == [base |-> 0, size |-> DiskSize]
  <1>1. /\ HdRuns("interrupted") /\ goal = "identify" /\ DriveWasRead
        /\ UNCHANGED <<hd_msg, bytes_left, scan, disk, mem, geo>>
        /\ harddisk_info' = [harddisk_info EXCEPT !.open_count = @ + 1, !.primary[0] = whole]
        /\ IF harddisk_info.open_count = 0
           THEN GetTable(0, "primary")
           ELSE hd_pc' = "reply" /\ UNCHANGED <<cmd, goal, want>>
    BY DEF HdIdentifies, Interrupted, HdGoesTo, fsVars
  <1>2. hd_pc = "interrupted" /\ AtWork
    BY <1>1, DriverRuns DEF AtWork, Working
  <1>3. /\ harddisk_info.open_count < MaxOpen
        /\ harddisk_info \in Notes /\ hd_msg.body.type = "DEVOPEN"
        /\ DOMAIN scan = DOMAIN NoScan /\ scan.part \in 0..HD_NUM_PART_PER_DRIVE
        /\ scan.sub \in Sub /\ scan.base \in 0..DiskSize
    BY <1>1, <1>2 DEF DInv, DataTypes, WalkInStep
  <1>4. /\ harddisk_info.primary \in [0..HD_NUM_PART_PER_DRIVE -> Info]
        /\ harddisk_info.open_count \in 0..MaxOpen
        /\ harddisk_info.logical \in [0..HD_NUM_SUB_PER_DRIVE - 1 -> Info]
    BY <1>3 DEF Notes
  <1>5. whole \in Info /\ whole = Partition[0] /\ 0 \in 0..HD_NUM_PART_PER_DRIVE
    BY PartitionIs, Sizes DEF Info
  <1> HIDE DEF whole
  <1>6. /\ harddisk_info' \in Notes
        /\ harddisk_info'.primary = [harddisk_info.primary EXCEPT ![0] = whole]
        /\ harddisk_info'.logical = harddisk_info.logical
    <2>1. harddisk_info.open_count + 1 \in 0..MaxOpen
      BY <1>3, <1>4, Sizes
    <2>2. [harddisk_info.primary EXCEPT ![0] = whole] \in [0..HD_NUM_PART_PER_DRIVE -> Info]
      BY <1>4, <1>5
    <2>3. harddisk_info' = [open_count |-> harddisk_info.open_count + 1,
                            primary |-> [harddisk_info.primary EXCEPT ![0] = whole],
                            logical |-> harddisk_info.logical]
      BY <1>1, <1>3 DEF Notes
    <2> QED BY <1>4, <2>1, <2>2, <2>3 DEF Notes
  <1>7. Known(harddisk_info', 0)
    BY <1>4, <1>5, <1>6, NotedInIs DEF Known
  <1>8. CASE harddisk_info.open_count = 0
    <2>1. GetTable(0, "primary")
      BY <1>1, <1>8
    <2>2. /\ cmd' = [command |-> "READ", lba |-> 0, sector_count |-> 1]
          /\ goal' = "primary" /\ hd_pc' = "start"
      BY <2>1 DEF GetTable, Commands, HdGoesTo
    <2>3. WalkInStep'
      <3>1. AtWork' /\ cmd'.lba = 0
        BY <2>2 DEF AtWork, Working
      <3>2. Known(harddisk_info, 0)'
        BY <1>7 DEF Known, NotedIn
      <3> QED BY <1>1, <1>3, <2>2, <3>1, <3>2 DEF WalkInStep
    <2>4. 0 \in 0..DiskSize
      BY Sizes
    <2> QED BY <1>1, <1>3, <1>6, <2>1, <2>3, <2>4, WalkGoesOn
  <1>9. CASE harddisk_info.open_count # 0
    <2>1. AllKnown(harddisk_info)
      <3>1. harddisk_info.open_count > 0
        BY <1>4, <1>9
      <3> QED BY <1>1, <3>1 DEF DInv, WalkInStep
    <2>2. AllKnown(harddisk_info')
      <3> SUFFICES ASSUME NEW d \in DOMAIN Partition PROVE Known(harddisk_info', d)
        BY DEF AllKnown
      <3>1. CASE d = 0
        BY <1>7, <3>1
      <3>2. CASE d # 0
        <4>1. NotedIn(harddisk_info, d) = Partition[d]
          BY <2>1 DEF AllKnown, Known
        <4>2. NotedIn(harddisk_info', d) = NotedIn(harddisk_info, d)
          BY <1>4, <1>6, <3>2 DEF NotedIn
        <4> QED BY <4>1, <4>2 DEF Known
      <3> QED BY <3>1, <3>2
    <2>3. hd_pc' = "reply" /\ UNCHANGED <<cmd, goal>>
      BY <1>1, <1>9
    <2> QED BY <1>1, <1>3, <1>6, <2>2, <2>3, WalkGoesOn
  <1> QED BY <1>8, <1>9

\* The rest of the walk, from the primary entry at first.
LEMMA ScanGoesOn ==
    ASSUME HIInv, DInv, HIInv', HdRuns("interrupted"), goal \in {"primary", "extended"},
           DriveWasRead, UNCHANGED <<hd_msg, bytes_left, disk, mem, geo>>,
           NEW first \in 1..HD_NUM_PART_PER_DRIVE + 1, NEW info \in Notes,
           KnownBefore(info, first - 1, HD_NUM_SUB_PER_PART),
           ScanPrimary(Table[0], first, info)
    PROVE  DInv'
  <1>1. hd_pc = "interrupted" /\ AtWork
    BY DriverRuns DEF AtWork, Working
  <1>2. hd_msg.body.type = "DEVOPEN"
    BY <1>1 DEF DInv, WalkInStep
  <1>3. /\ harddisk_info' \in Notes
        /\ \/ /\ hd_pc' = "reply" /\ scan' = NoScan /\ UNCHANGED <<cmd, goal, want>>
              /\ AllKnown(harddisk_info')
           \/ \E p \in Part :
                 /\ GetTable(Table[0][p].start, "extended")
                 /\ scan' = [part |-> p, sub |-> 0, base |-> Table[0][p].start,
                             table |-> Table[0]]
                 /\ Table[0][p].start \in 0..DiskSize
                 /\ HasLogical(p, 0) /\ TableAt(p)[0] = Table[0][p].start
                 /\ KnownBefore(harddisk_info', p, 0)
    BY ScanRecords
  <1>4. 0 \in 0..HD_NUM_PART_PER_DRIVE /\ 0 \in Sub /\ 0 \in 0..DiskSize
        /\ Part \subseteq 0..HD_NUM_PART_PER_DRIVE
    BY Sizes DEF Sub, Part
  <1>5. CASE /\ hd_pc' = "reply" /\ scan' = NoScan /\ UNCHANGED <<cmd, goal, want>>
             /\ AllKnown(harddisk_info')
    <2>1. /\ DOMAIN scan' = DOMAIN NoScan /\ scan'.part = 0 /\ scan'.sub = 0
          /\ scan'.base = 0
      BY <1>5 DEF NoScan
    <2> QED BY <1>3, <1>4, <1>5, <2>1, WalkGoesOn
  <1>6. ASSUME NEW p \in Part, GetTable(Table[0][p].start, "extended"),
               scan' = [part |-> p, sub |-> 0, base |-> Table[0][p].start,
                        table |-> Table[0]],
               Table[0][p].start \in 0..DiskSize,
               HasLogical(p, 0), TableAt(p)[0] = Table[0][p].start,
               KnownBefore(harddisk_info', p, 0)
        PROVE  DInv'
    <2>1. /\ DOMAIN scan' = DOMAIN NoScan /\ scan'.part = p /\ scan'.sub = 0
          /\ scan'.base = Table[0][p].start /\ scan'.table = Table[0]
      BY <1>6 DEF NoScan
    <2>2. cmd'.lba = Table[0][p].start /\ goal' = "extended" /\ AtWork'
      BY <1>6 DEF GetTable, Commands, HdGoesTo, AtWork, Working
    <2>3. KnownBefore(harddisk_info, scan.part, scan.sub)'
      BY <1>6, <2>1 DEF KnownBefore, Known, NotedIn
    <2>4. HasLogical(scan.part, scan.sub)' /\ (scan.base = TableAt(scan.part)[scan.sub])'
      BY <1>6, <2>1
    <2>5. WalkInStep'
      BY <1>2, <2>1, <2>2, <2>3, <2>4 DEF WalkInStep
    <2> QED BY <1>3, <1>4, <1>6, <2>1, <2>5, WalkGoesOn
  <1> QED BY <1>3, <1>5, <1>6

\* The walk begins with the primary partitions.
LEMMA HdReadsPrimaryKeepsData ==
    ASSUME HIInv, DInv, HIInv', HdReadsPrimary
    PROVE  DInv'
  <1>1. /\ HdRuns("interrupted") /\ goal = "primary" /\ DriveWasRead
        /\ UNCHANGED <<hd_msg, bytes_left, disk, mem, geo>>
        /\ ScanPrimary(Table[drive.lba], 1, harddisk_info)
    BY DEF HdReadsPrimary, Interrupted, fsVars
  <1>2. hd_pc = "interrupted" /\ AtWork
    BY <1>1, DriverRuns DEF AtWork, Working
  <1>3. /\ drive.lba = 0 /\ Known(harddisk_info, 0) /\ harddisk_info \in Notes
    BY <1>1, <1>2 DEF DInv, WalkInStep, PlaceInStep, DataTypes
  <1>4. KnownBefore(harddisk_info, 1 - 1, HD_NUM_SUB_PER_PART)
    <2>1. \A q \in Part : ~(q <= 1 - 1)
      BY DEF Part
    <2>2. \A q \in Part : ~(q < 1 - 1) /\ ~(q = 1 - 1)
      BY DEF Part
    <2> QED BY <1>3, <2>1, <2>2 DEF KnownBefore
  <1>5. 1 \in 1..HD_NUM_PART_PER_DRIVE + 1
    BY Sizes
  <1> QED BY <1>1, <1>3, <1>4, <1>5, ScanGoesOn

\* A logical partition is noted, and the walk follows the chain or goes back to
\* the primary entries.
LEMMA HdReadsExtendedKeepsData ==
    ASSUME HIInv, DInv, HIInv', HdReadsExtended
    PROVE  DInv'
  <1> DEFINE p == scan.part
             j == scan.sub
             base == TableAt(p)[j]
             entries == Table[base]
             at == [base |-> base + entries[1].start, size |-> entries[1].size]
             next == Table[0][p].start + entries[2].start
             info == [harddisk_info EXCEPT !.logical[Index(p, j)] = at]
  <1>1. /\ HdRuns("interrupted") /\ goal = "extended" /\ DriveWasRead
        /\ UNCHANGED <<hd_msg, bytes_left, disk, mem, geo>>
        /\ ScanExtended(Table[drive.lba], harddisk_info.primary[scan.part].base)
    BY DEF HdReadsExtended, Interrupted, fsVars
  <1>2. hd_pc = "interrupted" /\ AtWork
    BY <1>1, DriverRuns DEF AtWork, Working
  <1>3. /\ p \in Part /\ j \in Sub /\ scan.table = Table[0] /\ HasLogical(p, j)
        /\ scan.base = base /\ drive.lba = base
        /\ KnownBefore(harddisk_info, p, j) /\ harddisk_info \in Notes
        /\ DOMAIN scan = DOMAIN NoScan /\ hd_msg.body.type = "DEVOPEN"
    BY <1>1, <1>2 DEF DInv, WalkInStep, PlaceInStep, DataTypes
  <1>4. harddisk_info.primary[p].base = Table[0][p].start
    <2>1. p \in Nat /\ p <= p /\ Table[0][p].id # "NONE"
      BY <1>3 DEF HasLogical, Part
    <2>2. Known(harddisk_info, p)
      BY <1>3, <2>1 DEF KnownBefore
    <2>3. harddisk_info.primary[p] = [base |-> Table[0][p].start, size |-> Table[0][p].size]
      BY <1>3, <2>1, <2>2, NotedInIs, PartitionIs DEF Known
    <2> QED BY <2>3
  <1>5. IF entries[2].id = "NONE" \/ j + 1 = HD_NUM_SUB_PER_PART
        THEN ScanPrimary(Table[0], p + 1, info)
        ELSE /\ harddisk_info' = info
             /\ scan' = [scan EXCEPT !.sub = @ + 1, !.base = next]
             /\ GetTable(next, "extended")
    BY <1>1, <1>3, <1>4 DEF ScanExtended, RecordsLogical, Index
  <1>6. at = Partition[MinorOf(p, j)] /\ at \in Info /\ base \in DOMAIN Table
    <2>1. at = Logical(p, j)
      BY DEF Logical
    <2>2. /\ base \in DOMAIN Table
          /\ Logical(p, j).base \in 0..DiskSize /\ Logical(p, j).size \in 0..DiskSize
      BY <1>3, TableAssumption
    <2>3. at \in Info
      BY <2>1, <2>2 DEF Info
    <2> QED BY <1>3, <2>1, <2>2, <2>3, PartitionIs
  <1>7. p \in Nat /\ j \in Nat /\ p >= 1 /\ p <= HD_NUM_PART_PER_DRIVE
        /\ j < HD_NUM_SUB_PER_PART
    BY <1>3, Sizes DEF Part, Sub
  <1>8. /\ harddisk_info.primary \in [0..HD_NUM_PART_PER_DRIVE -> Info]
        /\ harddisk_info.open_count \in 0..MaxOpen
        /\ harddisk_info.logical \in [0..HD_NUM_SUB_PER_DRIVE - 1 -> Info]
    BY <1>3 DEF Notes
  <1> DEFINE logical == [harddisk_info.logical EXCEPT ![Index(p, j)] = at]
  <1> HIDE DEF at
  <1>10. /\ info \in Notes /\ info.primary = harddisk_info.primary
         /\ info.logical = logical
    <2>1. logical \in [0..HD_NUM_SUB_PER_DRIVE - 1 -> Info]
      BY <1>6, <1>8
    <2>2. info = [open_count |-> harddisk_info.open_count,
                  primary |-> harddisk_info.primary, logical |-> logical]
      BY <1>3 DEF Notes
    <2> HIDE DEF info, logical
    <2> QED BY <1>8, <2>1, <2>2 DEF Notes
  <1> HIDE DEF info
  <1>11. ASSUME NEW q \in Part, NEW k \in Sub, HasLogical(q, k),
                q < p \/ (q = p /\ k < j + 1)
         PROVE  Known(info, MinorOf(q, k))
    <2>1. NotedIn(info, MinorOf(q, k)) = logical[Index(q, k)]
      <3>1. NotedIn(info, MinorOf(q, k)) = info.logical[Index(q, k)]
        BY NotedInIs
      <3> QED BY <1>10, <3>1
    <2>2. Index(p, j) \in 0..HD_NUM_SUB_PER_DRIVE - 1
          /\ Index(q, k) \in 0..HD_NUM_SUB_PER_DRIVE - 1
      BY <1>3, IndexFits
    <2>3. CASE q = p /\ k = j
      BY <1>6, <1>8, <2>1, <2>2, <2>3 DEF Known
    <2>4. CASE ~(q = p /\ k = j)
      <3>1. Index(q, k) # Index(p, j)
        BY <1>3, <2>4, IndexFits
      <3>2. logical[Index(q, k)] = harddisk_info.logical[Index(q, k)]
        BY <1>8, <2>2, <3>1
      <3>3. q < p \/ (q = p /\ k < j)
        BY <1>7, <1>11, <2>4 DEF Sub
      <3>4. Known(harddisk_info, MinorOf(q, k))
        BY <1>3, <1>11, <3>3 DEF KnownBefore
      <3> QED BY <2>1, <3>2, <3>4, NotedInIs DEF Known
    <2> QED BY <2>3, <2>4
  <1>12. /\ Known(info, 0)
         /\ \A q \in Part : q <= p /\ Table[0][q].id # "NONE" => Known(info, q)
    BY <1>3, <1>10, NotedInIs DEF KnownBefore, Known
  <1>13. CASE entries[2].id = "NONE" \/ j + 1 = HD_NUM_SUB_PER_PART
    <2>1. ASSUME NEW k \in Sub, HasLogical(p, k)
          PROVE  k < j + 1
      <3>1. CASE entries[2].id = "NONE"
        <4>1. ~(j \in 0..k - 1)
          BY <2>1, <3>1 DEF HasLogical
        <4> QED BY <1>7, <4>1 DEF Sub
      <3>2. CASE j + 1 = HD_NUM_SUB_PER_PART
        BY <1>7, <3>2 DEF Sub
      <3> QED BY <1>13, <3>1, <3>2
    <2>2. KnownBefore(info, p, HD_NUM_SUB_PER_PART)
      <3>1. ASSUME NEW q \in Part, NEW k \in Sub,
                   q < p \/ (q = p /\ k < HD_NUM_SUB_PER_PART), HasLogical(q, k)
            PROVE  Known(info, MinorOf(q, k))
        BY <1>11, <2>1, <3>1
      <3> QED BY <1>12, <3>1 DEF KnownBefore
    <2>3. (p + 1) - 1 = p /\ p + 1 \in 1..HD_NUM_PART_PER_DRIVE + 1
      BY <1>7, Sizes
    <2>4. ScanPrimary(Table[0], p + 1, info)
      BY <1>5, <1>13
    <2>5. KnownBefore(info, (p + 1) - 1, HD_NUM_SUB_PER_PART)
      BY <2>2, <2>3
    <2> QED BY <1>1, <1>10, <2>3, <2>4, <2>5, ScanGoesOn
  <1>14. CASE ~(entries[2].id = "NONE" \/ j + 1 = HD_NUM_SUB_PER_PART)
    <2>1. /\ harddisk_info' = info
          /\ scan' = [scan EXCEPT !.sub = @ + 1, !.base = next]
          /\ GetTable(next, "extended")
      BY <1>5, <1>14
    <2>2. /\ DOMAIN scan' = DOMAIN NoScan /\ scan'.part = p /\ scan'.sub = j + 1
          /\ scan'.base = next /\ scan'.table = Table[0]
      BY <1>3, <2>1 DEF NoScan
    <2>3. j + 1 \in Sub /\ p \in 0..HD_NUM_PART_PER_DRIVE
      BY <1>7, <1>14, Sizes DEF Sub
    <2>4. TableAt(p)[j + 1] = next
      <3>1. TableAt(p)[j + 1] = Table[0][p].start + Table[TableAt(p)[(j + 1) - 1]][2].start
        BY <1>7, TableAtIs
      <3>2. (j + 1) - 1 = j
        BY <1>7
      <3> QED BY <3>1, <3>2
    <2>5. HasLogical(p, j + 1)
      <3> SUFFICES ASSUME NEW k \in 0..(j + 1) - 1
                   PROVE  Table[TableAt(p)[k]][2].id # "NONE"
        BY <1>3 DEF HasLogical
      <3>1. CASE k = j
        BY <1>14, <3>1
      <3>2. CASE k # j
        <4>1. k \in 0..j - 1
          BY <1>7, <3>2
        <4> QED BY <1>3, <4>1 DEF HasLogical
      <3> QED BY <3>1, <3>2
    <2>6. next \in 0..DiskSize
      <3>1. TableAt(p)[j + 1] \in DOMAIN Table
        BY <1>3, <2>3, <2>5, TableAssumption
      <3>2. next \in Sector
        BY <2>4, <3>1, TableAssumption
      <3> QED BY <3>2, Sizes DEF Sector
    <2>7. cmd'.lba = next /\ goal' = "extended" /\ AtWork'
      BY <2>1 DEF GetTable, Commands, HdGoesTo, AtWork, Working
    <2>8. KnownBefore(info, p, j + 1)
      BY <1>11, <1>12 DEF KnownBefore
    <2> HIDE DEF next
    <2>9. WalkInStep'
      <3>1. KnownBefore(harddisk_info, scan.part, scan.sub)'
        BY <2>1, <2>2, <2>8 DEF KnownBefore, Known, NotedIn
      <3>2. HasLogical(scan.part, scan.sub)' /\ (scan.base = TableAt(scan.part)[scan.sub])'
        BY <2>2, <2>4, <2>5
      <3> QED BY <1>1, <1>3, <2>2, <2>7, <3>1, <3>2 DEF WalkInStep
    <2> QED BY <1>1, <1>10, <2>1, <2>2, <2>3, <2>6, <2>9, WalkGoesOn
  <1> QED BY <1>13, <1>14

-----------------------------------------------------------------------------
(* Every step, and what follows for the data.                              *)

\* Every step of the driver keeps the data in step.
LEMMA HdStepKeepsData ==
    ASSUME HIInv, DInv, HIInv', HdStep
    PROVE  DInv'
  <1>1. CASE HdReceives \/ HdHandles \/ HdReplies
    BY <1>1, HdReceivesKeepsData, HdHandlesKeepsData, HdRepliesKeepsData
  <1>2. CASE \/ HdGetsTicks \/ HdStartsWaiting \/ HdGoesOnWaiting
             \/ HdReadsStatus \/ HdGivesUp \/ HdAwaits
    BY <1>2, WaitsKeepData
  <1>3. CASE HdIdentifies \/ HdReadsPrimary \/ HdReadsExtended
    BY <1>3, HdIdentifiesKeepsData, HdReadsPrimaryKeepsData, HdReadsExtendedKeepsData
  <1>4. CASE HdCommandOut \/ HdReadsSector \/ HdWritesSector \/ HdWroteSector
    BY <1>4, HdCommandOutKeepsData, HdReadsSectorKeepsData, HdWritesSectorKeepsData,
       HdWroteSectorKeepsData
  <1> QED BY <1>1, <1>2, <1>3, <1>4 DEF HdStep

\* With the invariant of the protocol, the data stays in step.
LEMMA NextDInv == HIInv /\ HIInv' /\ DInv /\ [HNext]_hvars => DInv'
  <1> SUFFICES ASSUME HIInv, HIInv', DInv, [HNext]_hvars PROVE DInv'
    OBVIOUS
  <1>1. CASE HdStep
    BY <1>1, HdStepKeepsData
  <1>2. CASE FsStep
    BY <1>2, FsReceivesKeepsData, FsReturnsKeepsData DEF FsStep
  <1>3. CASE \E r \in Requests : FsCalls(r)
    BY <1>3, FsCallsKeepsData
  <1>4. CASE DriveStep
    BY <1>4, DriveStepKeepsData
  <1>5. CASE SystemStep
    BY <1>5, OthersKeepData DEF SystemStep, driveVars
  <1>6. CASE harddisk_handler
    BY <1>6, OthersKeepData DEF harddisk_handler
  <1>7. CASE Tick /\ UNCHANGED <<hdVars, driveVars, fsVars>>
    BY <1>7, OthersKeepData DEF Tick, driveVars
  <1>8. CASE UNCHANGED hvars
    BY <1>8, OthersKeepData DEF hvars, svars, driveVars
  <1> QED BY <1>1, <1>2, <1>3, <1>4, <1>5, <1>6, <1>7, <1>8 DEF HNext

\* What the driver knows of the tables, what is done of a transfer and where the
\* drive is agree at all times.
THEOREM DataInvariance == HSpec => []DInv
  <1>1. HInit => DInv
    BY InitDInv
  <1>2. HIInv /\ HIInv' /\ DInv /\ [HNext]_hvars => DInv'
    BY NextDInv
  <1>3. HSpec => []HIInv
    BY HInvariance
  <1> QED BY <1>1, <1>2, <1>3, PTL DEF HSpec

\* Every variable keeps its type, and the answer to a request means that it is
\* done: the sectors of its partition are in memory, or on the disk, in their
\* order, as the partition tables lay it out.
THEOREM RequestsAreDone == HSpec => []RequestsDone
  <1>1. HIInv /\ DInv => RequestsDone
    <2> SUFFICES ASSUME HIInv, DInv PROVE RequestsDone
      OBVIOUS
    <2> DEFINE r == hd_msg.body
    <2>1. HTypeOK
      BY TypesFollow DEF DInv
    <2>2. ASSUME hd_pc = "reply"
          PROVE  r \in Requests /\ r.count \in 1..NSECTOR
      BY <2>2, HasRequest, PlacesAre DEF Working
    <2>3. ASSUME hd_pc = "reply", r.type \in {"DEVREAD", "DEVWRITE"}, NEW i \in 1..r.count
          PROVE  mem[i] = disk[Place(r, i)]
      BY <2>3 DEF DInv, ReplyInStep, Done
    <2>4. ASSUME hd_pc = "reply", r.type = "DEVWRITE", NEW i \in 1..r.count
          PROVE  disk[Place(r, i)] = InMemory(i)
      <3>1. mem[i] = disk[Place(r, i)]
        BY <2>3, <2>4
      <3>2. i \in 1..NSECTOR
        BY <2>2, <2>4, Sizes
      <3>3. Untouched
        BY <2>4 DEF DInv, ReplyInStep
      <3> QED BY <3>1, <3>2, <3>3 DEF Untouched
    <2>5. hd_pc = "reply" /\ r.type = "DEVIOCTL" => geo = Partition[r.device]
      BY DEF DInv, ReplyInStep
    <2> QED BY <2>1, <2>3, <2>4, <2>5 DEF RequestsDone
  <1> QED BY <1>1, DataInvariance, HInvariance, PTL

\* Only the drive writes to the disk.
LEMMA OnlyTheDriveWrites ==
    ASSUME [HNext]_hvars, ~DriveStep
    PROVE  UNCHANGED disk
  <1>1. CASE HdReceives \/ HdHandles \/ HdReplies
    BY <1>1 DEF HdReceives, HdHandles, HdReplies, harddisk_open, harddisk_close,
                harddisk_readwrite, harddisk_ioctl, Received, driveVars
  <1>2. CASE \/ HdGetsTicks \/ HdStartsWaiting \/ HdGoesOnWaiting
             \/ HdReadsStatus \/ HdGivesUp \/ HdAwaits
    BY <1>2 DEF HdGetsTicks, HdStartsWaiting, HdGoesOnWaiting, HdReadsStatus, HdGivesUp,
                HdAwaits, driveVars
  <1>3. CASE HdIdentifies \/ HdReadsPrimary \/ HdReadsExtended
    BY <1>3 DEF HdIdentifies, HdReadsPrimary, HdReadsExtended
  <1>4. CASE HdCommandOut \/ HdReadsSector \/ HdWritesSector \/ HdWroteSector
    BY <1>4 DEF HdCommandOut, HdReadsSector, HdWritesSector, HdWroteSector, driveVars
  <1>5. CASE FsStep \/ SystemStep \/ (\E r \in Requests : FsCalls(r))
    BY <1>5 DEF FsStep, FsReceives, FsReturns, SystemStep, FsCalls, driveVars
  <1>6. CASE harddisk_handler \/ (Tick /\ UNCHANGED <<hdVars, driveVars, fsVars>>)
    BY <1>6 DEF harddisk_handler, driveVars
  <1>7. CASE UNCHANGED hvars
    BY <1>7 DEF hvars, driveVars
  <1> QED BY <1>1, <1>2, <1>3, <1>4, <1>5, <1>6, <1>7 DEF HNext, HdStep

\* The disk changes nowhere but in the sectors of the write request in hand, and
\* not after the file system has been told of its end.
THEOREM WritesAreKept == HSpec => WritesStayInRequest
  <1>1. ASSUME HIInv, DInv, [HNext]_hvars
        PROVE  [\A s \in Sector : disk'[s] # disk[s] =>
                   /\ hd_pc \in {"interrupt", "interrupted"}
                   /\ hd_msg.body.type = "DEVWRITE"
                   /\ \E i \in 1..hd_msg.body.count : s = Place(hd_msg.body, i)]_hvars
    <2> SUFFICES ASSUME NEW s \in Sector, disk'[s] # disk[s]
                 PROVE  /\ hd_pc \in {"interrupt", "interrupted"}
                        /\ hd_msg.body.type = "DEVWRITE"
                        /\ \E i \in 1..hd_msg.body.count : s = Place(hd_msg.body, i)
      OBVIOUS
    <2>1. DriveStep
      BY <1>1, OnlyTheDriveWrites
    <2>2. DriveStores
      BY <2>1 DEF DriveStep, DriveReady
    <2>3. drive.status = "full" /\ disk' = [disk EXCEPT ![drive.lba] = drive.held]
      BY <2>2 DEF DriveStores
    <2>4. s = drive.lba
      <3>1. disk \in [Sector -> Data]
        BY <1>1 DEF DInv, DataTypes
      <3> QED BY <2>3, <3>1
    <2> QED BY <1>1, <2>3, <2>4, StoresInPlace
  <1> QED BY <1>1, DataInvariance, HInvariance, PTL DEF HSpec, WritesStayInRequest
=============================================================================
