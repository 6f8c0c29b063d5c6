------------------------------ MODULE HardDisk ------------------------------
(***************************************************************************)
(* The disk driver, task_harddisk (sys/harddisk.cpp), between the file     *)
(* system that calls it and the ATA drive whose registers it uses.  It     *)
(* reads the clock through task_sys (module SysTask) while it waits for    *)
(* the status register, and blocks on Ipc for the interrupts of the drive. *)
(*                                                                         *)
(* A transfer is counted in sectors: a request is for a positive number of *)
(* them (the loop over bytes_left ends for no other number of bytes) and   *)
(* for at most NSECTOR, what one command can ask of the drive.             *)
(***************************************************************************)
EXTENDS SysTask

CONSTANTS
    TASK_HARDDISK, TASK_FS,
    HD_NUM_PART_PER_DRIVE, HD_NUM_SUB_PER_PART,
    HD_MINOR_1A,       \* the device number of the first logical partition
    HD_TIMEOUT,        \* here in clock interrupts
    NSECTOR,           \* the values of the sector count register
    DiskSize,          \* the sectors of the drive
    Table,             \* the partition tables, by the sector they are in
    Requests,          \* what the file system asks of the driver
    MaxOpen            \* bound on the opens that are not closed

HD_NUM_SUB_PER_DRIVE == HD_NUM_SUB_PER_PART * HD_NUM_PART_PER_DRIVE
HD_MAX_PRIM          == 2 * (HD_NUM_PART_PER_DRIVE + 1) - 1

Part   == 1..HD_NUM_PART_PER_DRIVE
Sub    == 0..HD_NUM_SUB_PER_PART - 1
Sector == 0..DiskSize - 1

\* What a sector holds: what was on the disk, or what the file system wrote.
OnDisk(s)   == <<"disk", s>>
InMemory(i) == <<"memory", i>>
Data        == {OnDisk(s) : s \in Sector} \cup {InMemory(i) : i \in 1..NSECTOR}

Nothing == [base |-> 0, size |-> 0]

-----------------------------------------------------------------------------
(* The reference: where the partitions of a drive are.                     *)

\* The table of the j-th logical partition of the extended partition p.
TableAt(p) ==
    LET at[j \in Nat] == IF j = 0 THEN Table[0][p].start
                         ELSE Table[0][p].start + Table[at[j - 1]][2].start
    IN  at

HasLogical(p, j) ==
    /\ Table[0][p].id = "EXTENDED"
    /\ \A k \in 0..j - 1 : Table[TableAt(p)[k]][2].id # "NONE"

Logical(p, j) ==
    LET entry == Table[TableAt(p)[j]][1]
    IN  [base |-> TableAt(p)[j] + entry.start, size |-> entry.size]

MinorOf(p, j) == HD_MINOR_1A + (p - 1) * HD_NUM_SUB_PER_PART + j

\* The devices that are on the drive, and where.
Partition ==
    [d \in {0} \cup {p \in Part : Table[0][p].id # "NONE"}
               \cup {MinorOf(x[1], x[2]) :
                        x \in {y \in Part \X Sub : HasLogical(y[1], y[2])}} |->
        CASE d = 0       -> [base |-> 0, size |-> DiskSize]
          [] d \in Part  -> [base |-> Table[0][d].start, size |-> Table[0][d].size]
          [] OTHER       -> LET x == CHOOSE y \in Part \X Sub : MinorOf(y[1], y[2]) = d
                            IN  Logical(x[1], x[2])]

\* The sectors a request is about, in their order.
Place(r, i) == Partition[r.device].base + r.sector + i - 1

ASSUME HardDiskAssumption ==
    /\ {TASK_HARDDISK, TASK_FS} \subseteq Client /\ TASK_HARDDISK # TASK_FS
    /\ HD_MINOR_1A >= HD_MAX_PRIM /\ HD_TIMEOUT \in Nat \ {0}
    /\ NSECTOR \in Nat \ {0, 1}
    /\ \E p \in Part : Table[0][p].id # "NONE"
    /\ Requests \subseteq Body
    /\ \A r \in Requests :
          /\ r.type \in {"DEVOPEN", "DEVCLOSE", "DEVREAD", "DEVWRITE", "DEVIOCTL"}
          /\ r.device \in DOMAIN Partition
          /\ r.sector \in Nat /\ r.count \in 1..NSECTOR
          /\ \A i \in 1..r.count :
                Place(r, i) \in Sector /\ Place(r, i) \notin DOMAIN Table

\* The partition tables that the walk reads are on the drive and describe parts
\* of it.
ASSUME TableAssumption ==
    /\ {HD_NUM_PART_PER_DRIVE, HD_NUM_SUB_PER_PART, HD_MINOR_1A, DiskSize}
          \subseteq Nat \ {0}
    /\ MaxOpen \in Nat
    /\ 0 \in DOMAIN Table /\ DOMAIN Table \subseteq Sector
    /\ \A p \in Part : Table[0][p].id # "NONE" =>
          Table[0][p].start \in 0..DiskSize /\ Table[0][p].size \in 0..DiskSize
    /\ \A p \in Part, j \in Sub : HasLogical(p, j) =>
          /\ TableAt(p)[j] \in DOMAIN Table
          /\ Logical(p, j).base \in 0..DiskSize /\ Logical(p, j).size \in 0..DiskSize

-----------------------------------------------------------------------------
VARIABLES
    hd_pc, hd_msg,     \* where task_harddisk is; the request it works on
    goal, cmd,         \* what the command is for, and the command
    want, t,           \* what harddisk_waitfor waits for, and since when
    bytes_left,        \* in sectors
    harddisk_info,
    scan,              \* the local variables of harddisk_partition
    drive, irq, disk,  \* the drive, its interrupt line and what it stores
    fs_phase,          \* where the file system is in its call
    mem, geo           \* the memory the call is about: sectors, a partition

hdVars    == <<hd_pc, hd_msg, goal, cmd, want, t, bytes_left, harddisk_info, scan>>
driveVars == <<drive, irq, disk>>
fsVars    == <<fs_phase, mem, geo>>
sysVars   == <<sys_tick_count, sys_pc, phase, asked>>
hvars     == <<svars, hdVars, driveVars, fsVars>>

Info == [base : 0..DiskSize, size : 0..DiskSize]

NoMsg    == [source |-> TASK_HARDDISK, body |-> Zeroed]
NoCmd    == [command |-> "NONE", lba |-> 0, sector_count |-> 0]
NoScan   == [part |-> 0, sub |-> 0, base |-> 0, table |-> <<>>]
IdleDrive == [status |-> "idle", command |-> "NONE", lba |-> 0, left |-> 0,
              held |-> InMemory(1)]

HTypeOK ==
    /\ STypeOK
    /\ hd_pc \in {"receive", "received", "start", "poll", "status", "timeout",
                  "command", "write", "interrupt", "interrupted", "reply", "spin"}
    /\ hd_msg \in Message
    /\ goal \in {"none", "identify", "primary", "extended", "transfer"}
    /\ cmd.command \in {"NONE", "IDENTIFY", "READ", "WRITE"}
    /\ cmd.lba \in 0..DiskSize /\ cmd.sector_count \in 0..NSECTOR - 1
    /\ want \in {"not BSY", "DRQ"} /\ t \in 0..MaxTick
    /\ bytes_left \in 0..NSECTOR
    /\ harddisk_info \in
          [open_count : 0..MaxOpen,
           primary : [0..HD_NUM_PART_PER_DRIVE -> Info],
           logical : [0..HD_NUM_SUB_PER_DRIVE - 1 -> Info]]
    /\ scan.part \in 0..HD_NUM_PART_PER_DRIVE /\ scan.sub \in Sub
    /\ scan.base \in 0..DiskSize
    /\ drive.status \in {"idle", "busy", "full", "drq"}
    /\ drive.lba \in 0..DiskSize /\ drive.left \in 0..NSECTOR
    /\ irq \in BOOLEAN
    /\ disk \in [Sector -> Data] /\ mem \in [1..NSECTOR -> Data]
    /\ geo \in Info
    /\ fs_phase \in {"idle", "called", "receiving"}

HInit ==
    /\ SInit
    /\ hd_pc = "receive" /\ hd_msg = NoMsg
    /\ goal = "none" /\ cmd = NoCmd
    /\ want = "not BSY" /\ t = 0 /\ bytes_left = 0
    /\ harddisk_info = [open_count |-> 0,
                        primary |-> [i \in 0..HD_NUM_PART_PER_DRIVE |-> Nothing],
                        logical |-> [i \in 0..HD_NUM_SUB_PER_DRIVE - 1 |-> Nothing]]
    /\ scan = NoScan
    /\ drive = IdleDrive /\ irq = FALSE
    /\ disk = [s \in Sector |-> OnDisk(s)]
    /\ fs_phase = "idle"
    /\ mem = [i \in 1..NSECTOR |-> InMemory(i)] /\ geo = Nothing

-----------------------------------------------------------------------------
(* The drive.                                                              *)

Busy == drive.status \in {"busy", "full"}

\* The host writes the command register.
DriveCommand(c) ==
    drive' = [IdleDrive EXCEPT !.status = "busy", !.command = c.command,
                 !.lba = c.lba,
                 !.left = IF c.sector_count = 0 THEN NSECTOR ELSE c.sector_count]

\* The next sector of a read is ready, or the first of a write can come.
DriveReady ==
    /\ drive.status = "busy"
    /\ drive' = [drive EXCEPT !.status = "drq"]
    /\ irq' = (irq \/ drive.command # "WRITE")
    /\ UNCHANGED disk

\* A sector of a write goes to the disk; the next can come, if there is one.
DriveStores ==
    /\ drive.status = "full"
    /\ disk' = [disk EXCEPT ![drive.lba] = drive.held]
    /\ irq' = TRUE
    /\ drive' = [drive EXCEPT !.status = IF drive.left = 1 THEN "idle" ELSE "drq",
                              !.lba = @ + 1, !.left = @ - 1]

\* The host has read a sector from the data register.
DriveWasRead ==
    drive' = IF drive.command = "READ" /\ drive.left > 1
             THEN [drive EXCEPT !.status = "busy", !.lba = @ + 1, !.left = @ - 1]
             ELSE IdleDrive

\* The host has written a sector to the data register.
DriveWasWritten(data) ==
    drive' = [drive EXCEPT !.status = "full", !.held = data]

DriveStep ==
    /\ ~panicked
    /\ DriveReady \/ DriveStores
    /\ UNCHANGED <<svars, hdVars, fsVars>>

\* The handler reads the status register, which releases the interrupt line.
harddisk_handler ==
    /\ irq /\ irq' = FALSE
    /\ Interrupt(TASK_HARDDISK)
    /\ UNCHANGED <<sysVars, hdVars, drive, disk, fsVars>>

-----------------------------------------------------------------------------
(* harddisk_waitfor and harddisk_command_out.                              *)

HdRuns(pc) == hd_pc = pc /\ Runnable(TASK_HARDDISK)

HdGoesTo(pc) == hd_pc' = pc

\* A command that serves the purpose g is to be given to the drive.
Commands(c, g) ==
    /\ cmd' = c /\ goal' = g
    /\ want' = "not BSY"
    /\ HdGoesTo("start")

HdGetsTicks ==
    /\ \/ hd_pc \in {"start", "poll"} /\ GetTicks(TASK_HARDDISK)
       \/ GetTicksReceive(TASK_HARDDISK)
    /\ UNCHANGED <<hdVars, driveVars, fsVars>>

HdStartsWaiting ==
    /\ hd_pc = "start" /\ HdGoesTo("poll")
    /\ GetTicksReturn(TASK_HARDDISK)
    /\ t' = buffer[TASK_HARDDISK].body.ticks
    /\ UNCHANGED <<hd_msg, goal, cmd, want, bytes_left, harddisk_info, scan,
                   driveVars, fsVars>>

\* Variant: the clock is compared with the timeout, and not the time gone by.
HdGoesOnWaitingUntil ==
    /\ hd_pc = "poll"
    /\ GetTicksReturn(TASK_HARDDISK)
    /\ HdGoesTo(IF buffer[TASK_HARDDISK].body.ticks < HD_TIMEOUT
                THEN "status" ELSE "timeout")
    /\ UNCHANGED <<hd_msg, goal, cmd, want, t, bytes_left, harddisk_info, scan,
                   driveVars, fsVars>>

HdGoesOnWaiting ==
    /\ hd_pc = "poll"
    /\ GetTicksReturn(TASK_HARDDISK)
    /\ HdGoesTo(IF buffer[TASK_HARDDISK].body.ticks - t < HD_TIMEOUT
                THEN "status" ELSE "timeout")
    /\ UNCHANGED <<hd_msg, goal, cmd, want, t, bytes_left, harddisk_info, scan,
                   driveVars, fsVars>>

Satisfied == IF want = "DRQ" THEN drive.status = "drq" ELSE ~Busy

HdReadsStatus ==
    /\ HdRuns("status")
    /\ HdGoesTo(CASE ~Satisfied                  -> "poll"
                  [] Satisfied /\ want = "DRQ"   -> "write"
                  [] Satisfied /\ want = "not BSY" -> "command")
    /\ UNCHANGED <<svars, hd_msg, goal, cmd, want, t, bytes_left, harddisk_info,
                   scan, driveVars, fsVars>>

HdGivesUp ==
    /\ HdRuns("timeout")
    /\ panicked' = TRUE
    /\ UNCHANGED <<kernelVars, buffer, pending, sysVars, hdVars, driveVars, fsVars>>

HdCommandOut ==
    /\ HdRuns("command")
    /\ DriveCommand(cmd)
    /\ IF cmd.command = "WRITE"
       THEN want' = "DRQ" /\ HdGoesTo("start")
       ELSE UNCHANGED want /\ HdGoesTo("interrupt")
    /\ UNCHANGED <<svars, hd_msg, goal, cmd, t, bytes_left, harddisk_info, scan,
                   irq, disk, fsVars>>

\* harddisk_interrupt_wait.
HdAwaits ==
    /\ hd_pc = "interrupt" /\ HdGoesTo("interrupted")
    /\ Receive(TASK_HARDDISK, SR_TARGET_INTERRUPT)
    /\ UNCHANGED <<sysVars, hd_msg, goal, cmd, want, t, bytes_left, harddisk_info,
                   scan, driveVars, fsVars>>

-----------------------------------------------------------------------------
(* harddisk_identify and harddisk_partition.                               *)

\* harddisk_get_partition_table, up to its wait for the interrupt.
GetTable(lba, g) == Commands([command |-> "READ", lba |-> lba, sector_count |-> 1], g)

Interrupted(g) ==
    /\ HdRuns("interrupted") /\ goal = g
    /\ UNCHANGED <<svars, hd_msg, t>>

HdIdentifies ==
    /\ Interrupted("identify")
    /\ DriveWasRead
    /\ harddisk_info' = [harddisk_info EXCEPT
                            !.open_count = @ + 1,
                            !.primary[0] = [base |-> 0, size |-> DiskSize]]
    /\ IF harddisk_info.open_count = 0
       THEN GetTable(0, "primary")
       ELSE HdGoesTo("reply") /\ UNCHANGED <<cmd, goal, want>>
    /\ UNCHANGED <<bytes_left, scan, irq, disk, fsVars>>

\* The loop over the primary entries of table from the one at first: it records
\* them and goes into the first that is extended.
ScanPrimary(table, first, info) ==
    LET extended == {p \in Part : p >= first /\ table[p].id = "EXTENDED"}
        last     == IF extended = {} THEN HD_NUM_PART_PER_DRIVE
                    ELSE CHOOSE p \in extended : \A q \in extended : p <= q
    IN  /\ harddisk_info' =
              [info EXCEPT !.primary = [p \in DOMAIN @ |->
                  IF p \in first..last /\ table[p].id # "NONE"
                  THEN [base |-> table[p].start, size |-> table[p].size] ELSE @[p]]]
        /\ IF extended = {}
           THEN /\ HdGoesTo("reply") /\ scan' = NoScan
                /\ UNCHANGED <<cmd, goal, want>>
           ELSE /\ GetTable(table[last].start, "extended")
                /\ scan' = [part |-> last, sub |-> 0,
                            base |-> table[last].start, table |-> table]

HdReadsPrimary ==
    /\ Interrupted("primary")
    /\ DriveWasRead
    /\ ScanPrimary(Table[drive.lba], 1, harddisk_info)
    /\ UNCHANGED <<bytes_left, irq, disk, fsVars>>

\* One turn of the loop over the logical partitions, with the table just read:
\* records a partition at sector base and goes to the table at sector next.
RecordsLogical(entries, base, next) ==
    LET index == (scan.part - 1) * HD_NUM_SUB_PER_PART + scan.sub
        info  == [harddisk_info EXCEPT
                     !.logical[index] = [base |-> base, size |-> entries[1].size]]
    IN  IF entries[2].id = "NONE" \/ scan.sub + 1 = HD_NUM_SUB_PER_PART
        THEN ScanPrimary(scan.table, scan.part + 1, info)
        ELSE /\ harddisk_info' = info
             /\ scan' = [scan EXCEPT !.sub = @ + 1, !.base = next]
             /\ GetTable(next, "extended")

\* Variant: every partition is counted from the start of the extended one.
ScanExtendedFromStart(entries, start) ==
    RecordsLogical(entries, start + entries[1].start, start + entries[2].start)

ScanExtended(entries, start) ==
    RecordsLogical(entries, scan.base + entries[1].start, start + entries[2].start)

HdReadsExtended ==
    /\ Interrupted("extended")
    /\ DriveWasRead
    /\ ScanExtended(Table[drive.lba], harddisk_info.primary[scan.part].base)
    /\ UNCHANGED <<bytes_left, irq, disk, fsVars>>

-----------------------------------------------------------------------------
(* task_harddisk and its requests.                                         *)

HdReceives ==
    /\ hd_pc = "receive" /\ HdGoesTo("received")
    /\ Receive(TASK_HARDDISK, SR_TARGET_ANY)
    /\ UNCHANGED <<sysVars, hd_msg, goal, cmd, want, t, bytes_left, harddisk_info,
                   scan, driveVars, fsVars>>

request == hd_msg'.body

Received(types) ==
    /\ hd_msg' = buffer[TASK_HARDDISK]
    /\ request.type \in types
    /\ UNCHANGED <<svars, t, scan, driveVars, fs_phase, mem>>

harddisk_open ==
    /\ Received({"DEVOPEN"})
    /\ Commands([command |-> "IDENTIFY", lba |-> 0, sector_count |-> 0], "identify")
    /\ UNCHANGED <<bytes_left, harddisk_info, geo>>

harddisk_close ==
    /\ Received({"DEVCLOSE"})
    /\ harddisk_info' = [harddisk_info EXCEPT !.open_count = @ - 1]
    /\ HdGoesTo("reply")
    /\ UNCHANGED <<goal, cmd, want, bytes_left, geo>>

\* Variant: the drive in place of the device.
InfoOfDrive(device) == harddisk_info.primary[0]

\* Where the driver has noted that the device is.
InfoOf(device) ==
    IF device < HD_MAX_PRIM
    THEN harddisk_info.primary[device]
    ELSE harddisk_info.logical[(device - HD_MINOR_1A) % HD_NUM_SUB_PER_DRIVE]

harddisk_readwrite ==
    /\ Received({"DEVREAD", "DEVWRITE"})
    /\ Commands([command |-> IF request.type = "DEVREAD" THEN "READ" ELSE "WRITE",
                 lba |-> InfoOf(request.device).base + request.sector,
                 sector_count |-> request.count % NSECTOR], "transfer")
    /\ bytes_left' = request.count
    /\ UNCHANGED <<harddisk_info, geo>>

harddisk_ioctl ==
    /\ Received({"DEVIOCTL"})
    /\ geo' = InfoOf(request.device)
    /\ HdGoesTo("reply")
    /\ UNCHANGED <<goal, cmd, want, bytes_left, harddisk_info>>

\* A message of no known type ends in spin(), which never returns.
HdHandles ==
    /\ HdRuns("received")
    /\ IF buffer[TASK_HARDDISK].body \in Requests
       THEN harddisk_open \/ harddisk_close \/ harddisk_readwrite \/ harddisk_ioctl
       ELSE /\ HdGoesTo("spin")
            /\ UNCHANGED <<svars, hd_msg, goal, cmd, want, t, bytes_left,
                           harddisk_info, scan, driveVars, fsVars>>

\* The sector of the request that the loop over bytes_left has come to.
la == hd_msg.body.count - bytes_left + 1

OneSectorLess == bytes_left' = bytes_left - 1

\* Variant: the first sector is read without waiting for its interrupt.
HdReadsSectorAtOnce ==
    /\ HdRuns("interrupt") \/ HdRuns("interrupted")
    /\ goal = "transfer" /\ cmd.command = "READ"
    /\ mem' = [mem EXCEPT ![la] = disk[drive.lba]]
    /\ DriveWasRead
    /\ OneSectorLess
    /\ HdGoesTo(IF bytes_left = 1 THEN "reply" ELSE "interrupt")
    /\ UNCHANGED <<svars, hd_msg, t, goal, cmd, want, harddisk_info, scan, irq, disk,
                   fs_phase, geo>>

\* Variant: the loop goes round once more.
HdReadsSectorMore ==
    /\ Interrupted("transfer") /\ cmd.command = "READ"
    /\ mem' = [mem EXCEPT ![la] = disk[drive.lba]]
    /\ DriveWasRead
    /\ OneSectorLess
    /\ HdGoesTo(IF bytes_left = 0 THEN "reply" ELSE "interrupt")
    /\ UNCHANGED <<goal, cmd, want, harddisk_info, scan, irq, disk, fs_phase, geo>>

HdReadsSector ==
    /\ Interrupted("transfer") /\ cmd.command = "READ"
    /\ mem' = [mem EXCEPT ![la] = disk[drive.lba]]
    /\ DriveWasRead
    /\ OneSectorLess
    /\ HdGoesTo(IF bytes_left = 1 THEN "reply" ELSE "interrupt")
    /\ UNCHANGED <<goal, cmd, want, harddisk_info, scan, irq, disk, fs_phase, geo>>

HdWritesSector ==
    /\ HdRuns("write") /\ HdGoesTo("interrupt")
    /\ DriveWasWritten(mem[la])
    /\ UNCHANGED <<svars, hd_msg, goal, cmd, want, t, bytes_left, harddisk_info,
                   scan, irq, disk, fsVars>>

HdWroteSector ==
    /\ Interrupted("transfer") /\ cmd.command = "WRITE"
    /\ OneSectorLess
    /\ HdGoesTo(IF bytes_left = 1 THEN "reply" ELSE "start")
    /\ UNCHANGED <<goal, cmd, want, harddisk_info, scan, driveVars, fsVars>>

HdReplies ==
    /\ hd_pc = "reply" /\ HdGoesTo("receive")
    /\ Send(TASK_HARDDISK, hd_msg.source, hd_msg.body)
    /\ UNCHANGED <<sysVars, hd_msg, goal, cmd, want, t, bytes_left, harddisk_info,
                   scan, driveVars, fsVars>>

-----------------------------------------------------------------------------
(* The file system: one request after the other.                           *)

\* init_fs opens the drive before it uses it, and every close is for an open.
MayAsk(r) ==
    IF r.type = "DEVOPEN" THEN harddisk_info.open_count < MaxOpen
                          ELSE harddisk_info.open_count > 0

FsCalls(r) ==
    /\ fs_phase = "idle" /\ fs_phase' = "called"
    /\ MayAsk(r)
    /\ SendBoth(TASK_FS, TASK_HARDDISK, r)
    /\ mem' = [i \in 1..NSECTOR |-> InMemory(i)] /\ geo' = Nothing
    /\ UNCHANGED <<sysVars, hdVars, driveVars>>

FsReceives ==
    /\ fs_phase = "called" /\ fs_phase' = "receiving"
    /\ ReceiveReply(TASK_FS)
    /\ UNCHANGED <<sysVars, hdVars, driveVars, mem, geo>>

FsReturns ==
    /\ fs_phase = "receiving" /\ Runnable(TASK_FS)
    /\ fs_phase' = "idle"
    /\ UNCHANGED <<svars, hdVars, driveVars, mem, geo>>

-----------------------------------------------------------------------------
HdStep ==
    \/ HdReceives \/ HdHandles \/ HdReplies
    \/ HdGetsTicks \/ HdStartsWaiting \/ HdGoesOnWaiting \/ HdReadsStatus
    \/ HdGivesUp \/ HdCommandOut \/ HdAwaits
    \/ HdIdentifies \/ HdReadsPrimary \/ HdReadsExtended
    \/ HdReadsSector \/ HdWritesSector \/ HdWroteSector

FsStep == FsReceives \/ FsReturns

SystemStep == SysStep /\ UNCHANGED <<hdVars, driveVars, fsVars>>

HNext ==
    \/ HdStep \/ FsStep \/ SystemStep
    \/ \E r \in Requests : FsCalls(r)
    \/ DriveStep \/ harddisk_handler
    \/ Tick /\ UNCHANGED <<hdVars, driveVars, fsVars>>

HSpec == HInit /\ [][HNext]_hvars

\* The tasks get their turns (module Scheduler), the drive carries out its
\* commands, and an interrupt is let in when the kernel is left.  Nothing makes
\* the file system ask, or the clock tick.
HFairSpec ==
    /\ HSpec
    /\ WF_hvars(HdStep) /\ WF_hvars(FsStep) /\ WF_hvars(SystemStep)
    /\ WF_hvars(DriveStep) /\ WF_hvars(harddisk_handler)

-----------------------------------------------------------------------------
(* Properties.                                                             *)

\* A command is written to a drive that is not busy and owes nothing of the
\* command before, although the status was read some steps earlier: "the host
\* must first check if BSY=1, and should proceed no further unless and until
\* BSY=0" (harddisk.cpp:331-348).
\* The data register is used only while the drive asks for it: each interrupt
\* that is awaited belongs to the sector at hand, not to one before or to
\* another command (harddisk.cpp:144-154, 192-194, 282-283).
KeepsProtocol ==
    /\ hd_pc = "command" =>
          drive.status = "idle" /\ ~irq /\ ~has_int_msg[TASK_HARDDISK]
    /\ hd_pc = "write" => drive.status = "drq"
    /\ HdRuns("interrupted") /\ cmd.command # "WRITE" => drive.status = "drq"

\* The driver stops the system only when the drive has been silent for the
\* whole timeout: not by the deadlock check, not by the assertion on a recorded
\* interrupt in its calls of get_ticks (harddisk.cpp:333-334, 357-368,
\* sendrecv.c:66, 243).  And it never spins: no interrupt comes outside
\* harddisk_interrupt_wait, where it would be taken for a request
\* (harddisk.cpp:61-64).
GivesUpLate ==
    /\ hd_pc # "spin"
    /\ panicked => hd_pc = "timeout" /\ sys_tick_count - t >= HD_TIMEOUT

\* Every variable keeps its type, and what the file system gets is what it asked
\* for: the sectors of its partition in their order, as the partition tables lay
\* it out (harddisk.cpp:111-178, 198-247).
RequestsDone ==
    /\ HTypeOK
    /\ hd_pc = "reply" =>
          LET r == hd_msg.body
          IN  /\ r.type \in {"DEVREAD", "DEVWRITE"} =>
                    \A i \in 1..r.count : mem[i] = disk[Place(r, i)]
              /\ r.type = "DEVWRITE" =>
                    \A i \in 1..r.count : disk[Place(r, i)] = InMemory(i)
              /\ r.type = "DEVIOCTL" => geo = Partition[r.device]

\* The disk changes nowhere but in the sectors of the write request in hand,
\* and not after the file system has been told of its end (harddisk.cpp:149-157).
WritesStayInRequest ==
    [][\A s \in Sector : disk'[s] # disk[s] =>
          /\ hd_pc \in {"interrupt", "interrupted"}
          /\ hd_msg.body.type = "DEVWRITE"
          /\ \E i \in 1..hd_msg.body.count : s = Place(hd_msg.body, i)]_hvars

\* Every request is answered, or the driver has given up.
RequestsAnswered == fs_phase = "called" ~> fs_phase = "idle" \/ panicked
=============================================================================
