# A verification project for WHU_OSLab

WHU_OSLab is a small teaching kernel for the 80386: tasks and user processes
that talk through one synchronous system call, `sendrecv`, drivers and a file
system that are processes themselves, and a clock that shares the processor.
This directory holds TLA+ modules for it, TLC configurations that check them on
small instances, and theorems that TLAPS proves for every instance.

`tlc -config X.cfg M` checks module `M`; `tlapm P.tla` checks the proofs of `P`.
PROJECT.json lists the runs, which source lines each definition stands for, the
hazards of the code, the findings and the theorems.

## The system

Seven processes share one kernel: `TASK_TTY`, `TASK_SYS`, `TASK_HARDDISK`,
`TASK_FILESYSTEM`, and `TestA`, `TestB`, `TestC`. Their memory is flat, so the
kernel copies messages between them directly.

| component | state | operations | talks to |
|---|---|---|---|
| message passing (`sys/sendrecv.c`, `sys/proc.c`) | `process_flags`, `msg`, `recvfrom`, `sendto`, `has_int_msg`, the list `sending`/`next_sending` of every process | send, receive, both; `process_check_deadlock`; `process_inform_interrupt` | every process; interrupt handlers |
| system call entry (`sys/kernel.asm`, `lib/syscall.asm`) | `syscall_param0..2`, `k_reenter`, saved registers | store parameters, trap, dispatch, `restart` | message passing, scheduler |
| scheduler and clock (`schedual`, `sys/clock.c`) | `p_proc_ready`, `ticks`, `priority`, `sys_tick_count` | tick, reschedule, block | terminal (key pressed), message passing |
| system task (`sys/systask.c`, `lib/clock.c`) | reads `sys_tick_count` | `get_ticks`, `usleep`, `sleep` | message passing |
| file system (`fs/`) | `fd_table` of a process, `fs_file_descriptor_table`, `fs_inode_table`, super block, inode map, sector map, directory | open, close, read, write, lseek, unlink, resume | its clients, hard disk driver, terminal |
| terminal (`sys/tty.cpp`) | per terminal: input ring, waiting reader and its buffer | device open, read, write, key interrupt | file system, keyboard, console |
| keyboard (`sys/keyboard.c`) | ring of scan codes, modifier keys, `tty_key_pressed` | interrupt, read and decode | terminal |
| console (`sys/console.cpp`) | cursor, start address, `is_full` | put character, scroll, select | video memory |
| hard disk driver (`sys/harddisk.cpp`) | partitions, open count, status | open, close, read, write, ioctl, interrupt | file system, message passing, `get_ticks` |
| interrupt controller (`sys/i8259.cpp`) | masks, handler table | enable, disable, put handler | everybody with an interrupt |
| library (`sys/arith64.c`, `lib/`) | none that lives on, but for `strtok` | divisions, strings, conversions, `printf` | everybody |
| loader (`boot/loader.asm`) | where it reads and writes next, FAT sectors, memory map | search, load, page tables, copy the kernel | BIOS, kernel |
| protected mode | none that lives on | set-up | |

What is hard here:

* **Interleaving.** A rendezvous can begin from either side, with other senders
  queued. `sys_call` re-enables interrupts before it calls `sendrecv_impl`
  (`kernel.asm:293`), so a handler can change the process table in the middle
  of a call. The parameters of a call are global variables written in user mode
  (`lib/syscall.asm:11-14`), where the clock may switch processes.
* **Deadlock and starvation.** Servers block in sends; only chains of senders
  are checked. The scheduler refills ticks only when every ready process has
  used its own up.
* **Stale state.** Four fields of a process are reset in several places for the
  several ways to release it; reference counts and directory sizes are adjusted
  on some return paths and not on others.
* **Nesting.** Interrupts are let in again after the entry to the kernel, in
  system calls, in handlers and in `schedual` itself; `k_reenter`, the kernel
  stack, the masks and the register `esi` have to survive that.
* **Bounds.** Fixed tables stop the system when they are full; loops over bits,
  bytes and sectors; unsigned counters, products that overflow, buffers that cut.

What makes each component correct: a message reaches the one receiver it was
offered to, once and unchanged, and nobody waits for what is already there
(message passing); a ready process runs again and a blocked one does not
(scheduler); it finds its registers as it left them (entry); an answer belongs to its request (servers); what is open exists, no
two files share sectors, counts and maps agree with what exists (file system); a
reader is resumed once with the characters typed for it (terminal); no scan code
is lost or read twice (keyboard); the cursor stays in its console (console); a
command is issued to an idle drive and its interrupt is not taken for a request
(driver); a function gives what C says of it, up to its limits (library); the
kernel stands whole where it was linked for, with its memory mapped (loader).

## Modules

### Ipc, Rendezvous, MCIpc, IpcProofs

`Ipc` is the process table as far as `sendrecv` and `process_inform_interrupt`
use it. Its variables are the fields of `process_t`, with two abstractions: the
singly linked list of senders is a sequence, and `msg` says whether the pointer
is set, for it always points to the one message the process is in a call about,
which is `buffer`. `pending` remembers the second half of `SR_MODE_BOTH`. Bodies
of messages are opaque values. `panicked` stands for `panic` and a failed
assertion, after which nothing runs.

One call is one step: `message_send` is a panic, a delivery or a block, and
`message_receive` takes an interrupt, copies from a blocked sender, or blocks.
The assertion that can fail is part of the step (`ReceiveBlocks`); the
others are what `StatusConsistent` says. The programs are arbitrary: any process
without flags may make any call at any time, and any of the `IntTarget` may be
informed at any time. `process_check_deadlock` follows a chain; the module says
it with closed sets, so that it needs no recursion and can be proved about: the
chain from `dst` comes to `src` when no set has `dst` and the next of each of its
members without `src`.

`Rendezvous` is what callers rely on: an offer, a wish, an interrupt that is
remembered once, and a step that hands a message over. It has no lists, flags
and pointers. `Ipc` implements it under the mapping `R` (`ImplementsRendezvous`).

### KernelWindow, KernelWindowProofs

The calls of `Ipc` cut at the points between which a handler can make a
difference. On the side of the sender: the test, the copy, the reset of `msg`, the
reset of flags and partner, the assertions. On the side of the receiver: the test;
then either the taking of a recorded interrupt (`ReceiveTake`) and the assertions
behind it (`ReceiveTakeAsserts`, `sendrecv.c:139-142`), of which the last fails when the
next interrupt comes in between, or the flag, the partner, the block and the final
assertions (`ReceiveAsserts`). A failed assertion stops the system. Handlers write only to the
fields of their target, and only if it is receiving, so blocking a sender and
copying from a blocked sender are left in one piece. Calls do not overlap,
because the clock does not reschedule while `k_reenter` is not 0. `disturbed`
says whether an interrupt was reported since the call began.

### SyscallParams

The programs of two processes, the three stores of `lib_sendrecv`, the trap, and
switches between any two of them.

### SysTask

`task_sys` and `get_ticks` as programs on top of `Ipc`, with a clock that counts
in between. `asked` is a history variable: the count when a client called. The
module has no specification of its own: `HardDisk` puts a client beside it.

### Scheduler, KernelEntry, KernelEntryProofs

`Scheduler` has `schedual` and `clock_handler` with the ticks of each process,
and the set of ready processes in place of the process table. `mode` tells what
runs: a program, a system call, or the scan of `schedual`, one process at a time,
with `scan`, `greatest_ticks` and the candidate in `p_proc_ready` as the code
has them: the clock can charge the candidate, and wake-ups and blocks come
between two looks. A call returns, wakes another process, or blocks its caller. Of
`TASK_TTY` the module knows where it is (`tty`), for `clock_handler` wakes it only from
its receive (`"receives"`) and else just sets `has_int_msg`. It may be blocked in one of
its sends as well (`TtySends`), with the flag set. Taking the recorded interrupt in the
kernel (`TtyTakesInterrupt`) and the reset of `tty_key_pressed` in user mode
(`TtyHandlesKey`, `tty.cpp:72`) are steps of their own, so a key pressed in between is
not announced; the round over the terminals that follows the reset (`TtyReadsKeys`)
takes it from the ring.

`KernelEntry` is the assembly around it: `save`, `restart` and
`restart_reenter` with `k_reenter`, the kernel stack as a sequence of frames,
`esi`, `tss.esp0` and the registers of every process; the macros `hwint_master`
and `hwint_slave` with the masks of the controllers; `sys_call` with the result
it writes into the frame of its caller. Interrupts are on in every state; a
stretch from an entry to its `sti`, or from a `cli` to its `iretd`, is one step.
Each step is also a step of `Scheduler` or leaves its variables alone
(`KernelSchedules`). A register set is whose it is, whether the program has
changed it since, and whether the result of a call is missing. What happens
before the `cli` of a nested handler can as well happen in the frame below, so a
nested handler leaves in the step that does its work.

### FileSystem, SectorMap, FileSystemProofs

`open`, `creat`, `close`, `unlink` and `stat` on the descriptor tables, the inode
table, the two maps and the directory. `task_fs` serves one request after the
other and waits for the disk by name, so a request is one step. Inodes are
written through, so a cached inode and its copy on the disk are one; the sectors
of a file are one extent, for every file has `FS_DEFAULT_FILE_SECTORS`. Searches
take the first entry that fits, and the bounds of each loop are those of the
code, with the entry behind the end that `fs_search_file` looks at and the
shortened directory of `fs_do_unlink`. A name is
short or fills its field (`LongName`); the NUL of the latter goes to the next
entry. `open` without an access flag stops the system (`OpenNoFlag`); `close` is asked
for open descriptors.

The machine may stop at any time, after a panic or between two writes of a creation
or a removal (`LastInodes`), and start again (`Restart`). `mkfs` then runs on the
disk as it is: it clears and writes the two maps, but only the first sector of
the inodes and the first of the directory. What lies behind is left, and
`leftover` remembers it: there is nothing of an earlier start (`"none"`, a blank
disk), there may be entries of one `"behind"` the sector that `mkfs` writes, or the
directory has grown into it (`"reached"`). Then names come back to life whose
inodes are free, or of other files. What `RefCountCovers` and `OpenFilesExist` say is
therefore claimed until that point only, and `EntriesAreFiles` is about the entries of this
start (`Own`); the maps, the slots and `FilesKeepTheirNames` are claimed always. What
happens then is in the model (`UnlinkUnallocated`) and among the findings.

`SectorMap` has the sector map as positions in sectors, bytes and bits: the search
for the first free bit and the setting of the ones behind it
(`fd_alloc_smap_bit`), and the three loops of `fs_do_unlink` that clear the rest
of the first byte, whole bytes with the change of sector, and the bits that are
left. `SectorsExact` compares the map with the files there are.

### FileData, MCLibrary, LoopProofs

`fs_do_readwrite` on a file and `fs_do_lseek`, down to the bytes of the disk:
the chunks of sectors that go through `fs_buffer`, the offset in the first of
them, and the part that is changed before a chunk is written back. A request is
one step, for `task_fs` waits for the disk by name and nobody else writes these
sectors. The data of each write are numbers no other write has, so that every
byte tells where it came from. The turns of the loop are the values of a recursive
function (`Loop`), from the state before the first to the one after the last.
`saved` is the size in the i-node on the disk. Requests that go behind the end of a file are in the model with all they do, and
the properties say what can be promised for them (see Findings).

### Terminal, MCTerminal, TerminalProofs

`task_tty`, `task_fs` as far as it stands between the terminal and the
processes, and processes that open, read and write, on `Ipc`. The loops of both
tasks are cut at their system calls. `tty_pc` tells whether `task_tty` polls the
terminals in turn (`at`), where it takes one key and drains it into the reader,
waits for a message, or has just resumed a reader. Keys come decoded and a
function key selects a console. `line` is a history variable: what the owner of
a terminal typed for the read under way, as the terminal took it, with its
corrections. Each process has
a terminal of its own and its reads and writes are for at least one character:
both are needed (see Findings).

### HardDisk, HardDiskProofs

`task_harddisk` on `SysTask` and `Ipc`: the receive, the request, each look at
the status register with its two calls of `get_ticks`, the command, each wait
for an interrupt, each sector. `goal` is the function that waits (identify, the
table of the drive, the tables of an extended partition, the transfer), `scan`
the local variables of the recursive `harddisk_partition`, one level deep as the
code's own call of it. The drive is external: it is busy for any time, asks for
data, stores sectors and raises its line; writing a command while it is busy or
reading data it has not got does the harm the properties look for. A sector of
data is a name for where it came from. The reference at the head of the module
says where partitions are by following the tables as their format defines it.

### Keyboard, MCDevices, DeviceProofs

The ring between `keyboard_handler` and `keyboard_read`, and the decoding. A
step of `keyboard_read` takes one code from the ring, so that the handler comes
in between: `pc` says how far it is in a series, up to the six codes of
`PAUSEBREAK`. The device sends the codes of a key one by one, and what a stroke
means is defined on the device's side (`Meant`): keys held, locks that are on. After
a lock, `keyboard_set_leds` writes two bytes, and each is acknowledged in the data
port (`owed`, `acked`) before the device looks at its keys again. The handler and the poll of
`keyboard_ack` compete for what is in the port. The handler may take an
acknowledgement for a scan code (`Acknowledge`); the poll may swallow a code
(`CodePolled`), which is then lost; and when the handler was first and the next key's code has
replaced the acknowledgement, the poll never ends (`Overwritten`). `dropped` says
that a code was lost, in the full ring or to the poll. The device is
still from then on: nothing is promised.
`KeysAssumption` says which keys there may be, by the codes `keyboard_read` and
`keymap` know them by: keys of one code, keys after `0xE0`, `PRINTSCREEN` and
`PAUSEBREAK`. No two keys are the same modifier, and no acknowledgement is the code
of one: it would release it. Enter and slash of the number pad are left out, the only
keys of the pad that come after `0xE0`.

### Console, MCDevices, DeviceProofs

Output, backspace, wrapping, scrolling and selection of consoles, each with its
part of the video memory; the parts lie end to end. A process may write any character,
a backspace too. A cell holds the number of the line of output it was
written for, which is all the properties need; `line`, `shown`, `text` are
histories that say what the screen should show. A line is cleared from the cursor on,
so a clear that begins in the middle of the last row goes on in the part of the next
console. `plain` is false for a console once that has erased cells of it, or, when its
memory is a ring, once output found the cursor out of view or went back over a
line: the code then mixes lines (see Findings), and what the screen shows is not
claimed. `hung` says that the loop which scrolls to the cursor has no end. That
happens to a cursor which backspaces brought above the screen (`AboveScreen`) before
the memory is a ring, and to no other (`LoopEnds`).

### The library and the loader: Arith64, Strings, Printf, Stdlib, Sleep, Loader, MCLibrary, LoopProofs

`Arith64` has words of any width. Shifts by halves, the cascades that count
leading and trailing zeros and the sums that count bits are functions; the two
divisions are loops, so they are state machines with a step for each round, and
their early returns. `Strings` has a memory with two strings in it: the copying
functions with their counts, comparisons and searches, and `strtok` and `strsep`,
called until nothing is left. `Printf` converts a list of directives, one in a
step: the text of an integer is built backwards in a buffer of limited size, as
`ntoa_l_internal` and `ntoa_format_internal` do, and `out_buffer_internal` cuts
what is stored. `Stdlib` has `strtol` with its cutoff and `atoi`. `Sleep` has the loop
of `usleep` in 32 bits beside a clock that goes on between the polls. `MCLibrary`
runs the five, `FileData` and the loader, one at a time; `CallsAsMeant` is the conjunction of what is
meant of each: `LongDivisionRight`, `WordsRight`, `CopiesRight`, `SplitsRight`,
`LooksRight`, `PrintsAsMeant`, `ReadsNumbers`, `ReadsBack`, `SleepsInTime`.

`Loader` is `boot/loader.asm`: a step for each call of the BIOS for the map of
memory, each sector of the root directory and each sector of the kernel, then the
highest address, the tables of pages and the segments of the kernel. The FAT has its
layout of twelve bits in bytes, `GetFATEntry` reads two sectors of it and shifts;
sectors become cylinder, head and sector and the drive finds them again; `es:bx`
wraps. Paging is on before the kernel is copied: a page is written only if its table
exists (`Maps`), and the first that has none is a fault, as nothing handles faults yet (`"faults"`).
What is written behind the end of memory is lost. Memory has no holes below
the end of its highest range and is clear at first, so a table that was not written maps
nothing. What the host wrote, the floppy and the headers of the kernel, is external,
as is the drive. `KernelStarts` compares the end with the chain: each unit of the
file for which there is memory is at its address, whatever the way there, and the loader
faults only if memory ends before the kernel does.

## Runs

| run | module / configuration | shows |
|---|---|---|
| `ipc` | MCIpc / MCIpc.cfg | `QueueExact`, `StatusConsistent`, `NoMissedRendezvous`, `FirstComeFirstServed`, `NoSendCycle`, `ImplementsRendezvous` hold |
| `window` | MCKernelWindow / MCKernelWindow.cfg | calls that do not stop the system leave it consistent, and lists are never disturbed, not even inside a call (`ConsistentBetweenCalls`); only interrupts break assertions (`OnlyInterruptsBreakAsserts`): one that comes into the call, or one recorded before for a process that then receives by name |
| `syscall_params` | MCSyscallParams / MCSyscallParams.cfg | finding: a process traps with the parameters of another |
| `scheduler` | MCKernelEntry / MCKernelEntry.cfg | only ready processes are resumed (`RunsOnlyReady`), with their own registers and the result of their call (`ContextKept`); frames and masks nest (`NestingIsRight`); no ready process starves (`ReadyRuns`), a key that was pressed is followed by a round of `task_tty` (`KeyIsNoticed`) |
| `files` | MCFileSystem / MCFileSystem.cfg | `RefCountCovers`, `OpenFilesExist`, `NoAliases`, `SectorsExact`, `EntriesAreFiles`, `FilesKeepTheirNames` hold from the first start on a blank disk |
| `files_again` | MCFileSystem / MCFsAgain.cfg | the five invariants among these (`HoldsAgain`) on a machine that stops at any time and starts again on its disk |
| `files_unlink` | MCFileSystem / MCFsUnlink.cfg | finding: a shortened directory leaves files behind its end |
| `terminal` | MCTerminal / MCTerminal.cfg | a reader gets its line (`ReaderGetsItsLine`), no call is forgotten (`EveryCallIsInHand`), nobody is answered or written to without a call, calls return |
| `terminal_deadlock` | MCTerminal / MCTerminalDeadlock.cfg | finding: `RESUME_PROC` meets a request |
| `harddisk` | MCHardDisk / MCHardDisk.cfg | the protocol of the drive is kept, interrupts are not taken for requests, partitions and sectors are the right ones, every request is answered; `FreshTicks` of the system task |
| `devices` | MCDevices / MCDevices.cfg | keys come as typed and modifiers and locks follow the device (`KeysAsTyped`); waits inside a key end (`ReadingEnds`), with the exceptions named there; the screen shows the output and the controller the console that is selected (`ScreenShowsOutput`); the loop for the cursor ends but in one case (`LoopEnds`) |
| `library` | MCLibrary / MCLibrary.cfg | what runs alone from a call to its return: divisions, strings, conversions, `printf` and sleeps do what they are meant to, with the exceptions that `Differs` and `InRange` name; the loader starts a kernel that fits with all its parts, or faults where memory ends (`KernelStarts`); reads and writes inside a file are exact (`MovesWhatWasAsked`), no request changes a byte outside its range (`ChangesOnlyItsRange`), sizes are saved (`ReachedIsSaved`) |

**Bounds.** Three processes are a sender, a receiver and a third that is queued
before or behind; two bodies tell a message from another one. Chains and cycles
of senders have up to three links, the fewest that go through a process that is
neither end; `SendersNeverCycle` is proved for any number. One or two processes
are informed by interrupts. These state spaces are finite without further bounds.

`KernelEntry` has the terminal, a driver and a user process, with priorities 2, 1
and 1 for the 15, 15 and 5 of the code: that some are larger and the positions of 0
matter. The three lines and the trap give stacks of up to four frames; nothing
else is bounded. `FileSystem` has three files, the fewest
with which a directory can be shortened over a free entry and still have a file
behind it, and tables with one free slot less than could
be used, so that each fills up; a reference count stops at `MaxRef`, for refused
unlinks would raise it for ever. Its sector map has bytes of four bits in sectors of
three bytes and files of eight sectors, so that files begin at bit 1 of a byte,
end inside another and cross the sectors of the map. Two short names are
interchangeable and declared so; the third fills its field. With three files no file
falls behind the end in the very step that takes its name, a case
`FilesKeepTheirNames` mentions; four files (two short names more) reach it.
A sector has as many inodes as there are to format and more (`FS_INODE_PER_SECTOR` = 4), so
that one inode lies behind the first sector; of entries it has four in `files`, and three in
`files_again`, so that `mkfs` leaves one name in its first sector free and two
entries lie behind it. `RestartIn` says at which values of `leftover` the machine may stop: never in `files`,
which has two processes, always in `files_again`, which has one: restarts are
about the disk, and sharing is about processes.

`FileData` has sectors of two bytes and a buffer of two sectors, so that a
request can start and end in the middle of a sector, of a chunk and of the last
chunk; a file of three sectors with another behind it; and three requests
(`MaxRequests`), so that a read finds what two writes through two descriptors
left. `PositionBound` keeps a request after a seek from leaving the disk of the
model. `Terminal` has a reader and a writer with a terminal each, lines of
up to two characters and a ring of one key, which is full at once. `HardDisk`
has a drive of seven sectors with a primary and an extended partition of
two logical ones, transfers of one and two sectors, of which two is the number
the register writes as 0; the clock counts to three with a timeout of two, so
that one wait can time out and a second can begin after the clock has moved.
`Keyboard` has a ring of two codes, less than any series, two keys
down at once (`MaxDown`) and two strokes the reader lags behind (`MaxStrokes`).
`Console` has a screen of two lines in a memory of four, output to eight lines
in one console, which uses the memory twice (`MaxLine`), and to two in the one behind it, which
has a line to lose; columns are two, so that a clear can begin in the middle of a row. The
number of backspaces is not bounded.

`Arith64` has words of 16 bits, wide enough for the cascades to have four stages
and the bytes to be two, and operands at the ends of words, halves and
bytes. `Strings` has every string of up to three of three characters, one the upper
case of another, and every count up to one more. `Printf` has types of 3 to 10 bits, a
buffer of 8 characters for the 32 of the code, which the text of an
integer can exceed, every set of flags with five widths and three precisions, and caller's buffers
of 0, 1, 4 and 12 cells. `Stdlib` has long with 8 bits, so that three digits pass its
limits in all four bases. `Sleep` has a word of 6 bits, 3 ticks in a second of
6 milliseconds, and calls at both ends and in the middle of the counter. The floppy of
`Loader` has sectors of 8 bytes, so that numbers of the FAT cross their end, segments of
two sectors, so that a file of three wraps, and room for four, so that one of five is too large;
memory has up to seven tables, two more than fit below the kernel, and as little
as nothing, one page, or an end within the kernel with and without a table for the rest.

Deadlock is checked where some process or handler is always able to go on
(`scheduler`); in the other runs programs may block each other for ever, which is
theirs to avoid, or the system has panicked, a call of the library has returned, or a bound is reached.

**Fairness.** `Terminal` and `HardDisk` assume weak fairness of each program's
steps once it is runnable: `schedual` gives every ready process its turn, which
is `ReadyRuns` of `Scheduler`. `Terminal` assumes that the clock goes on and
nothing about typing: a reader may wait for ever for its line, and `CallsReturn`
starts where the line is complete. A writer is promised its return only when
typing ends, for `message_receive` takes an interrupt before any message, and keys
could keep `task_tty` from requests for ever. `HardDisk` assumes that the drive
does what it was told in the end and that its interrupt is let in; if the clock is
faster, the driver gives up. `Keyboard` assumes that the device ends a series that
it began and acknowledges what it was given (weak fairness of `keyboard_handler`, which the
interrupt of a code calls, and of `Acknowledge`), and that `task_tty` goes on inside its loops
(`keyboard_read` while there are codes, `keyboard_ack` while an acknowledgement is in
the port). Nothing makes the poll look before the next key replaces it: that is the exception
`Overwritten` of `ReadingEnds`. `KernelEntry` assumes that
kernel code runs on at every depth of the stack, however often other lines
interrupt it there (strong fairness for each depth: the interrupted code goes on
when the frames above it have left), that the timer finds each program outside
the kernel again and again (strong fairness: a program cannot arrange to be in
the kernel at every tick), and that `TASK_TTY` goes on when it runs: it resets the flag
or reads its keys (`TaskTty`), traps, and after some sends calls receive, which is its
loop (strong fairness of each, for other processes and interrupts come between). That
it does not stay blocked in one of its sends is no fairness of the kernel, for that is up
to the receivers, so `KeyIsNoticed` has it as its condition (`[]<>~TtySends`). It also rests on a
process that never blocks (`TestA`, `TestC`): `clock_handler` looks for a key
only when the running process has no ticks left.

## Theorems

`IpcProofs` proves, for any set of processes and bodies, type correctness, the
state invariants of the run `ipc`, and the order of service.
The inductive invariant `IInv` is their conjunction with what `pending` may be.
They need each other: a receive by name unlinks its sender from the right list
because the lists are exact; the lists stay exact because a process that is not
blocked has no `sendto`; a delivery leaves flags and partners right because
a process never waits for two things; no cycle is closed, because the check
fails exactly when the new link would close one, and a process that is not
blocked is not on a chain. There is one lemma per branch of a call and one for
the interrupt, and the step theorem puts them together. Two lemmas say what
`Append` and `Unlinked` do to the elements of a list. The only assumptions are
those of the module: the interrupt targets are processes, and the three special
targets are different from each other and from processes.

The same module proves that `Ipc` implements `Rendezvous`, from the same
invariant: flags and lists carry no information that `sendto` and `recvfrom` do
not have (`Refinement`). Its last part says what a call does to who waits for whom
and what the receiver gets (`SendOutcome`, `ReceiveOutcome`,
`ReceivesInterruptOutcome`, `InformOutcome`); the proofs about programs that run on
the kernel, `TerminalProofs` and `HardDiskProofs`, see it through these only.

`KernelEntryProofs` proves of the scheduler the bounds of the ticks and that only ready
processes are resumed, for any number of processes and any priorities; and of the entry code, for any processes and any order of
interrupts: that it implements `Scheduler` (`KernelSchedules`), so that what holds
there holds under any nesting; that frames and masks nest (`FramesNest`); and that
every process finds its registers (`RegistersAreKept`). The inductive invariant
`EInv` adds the types, that a call is the outermost frame, and `FramesAreRight`: while
the kernel runs, the process that `tss.esp0` points to has its registers in its
frame with the result still owed, it is the caller that the outermost frame
names, and the `esi` of that frame, which is in the register or under the first nested
frame, points to it. `SaveKeeps` proves it once for
all entries, `NestedReturnKeeps` and `RestartKeeps` for the two exits.

`LoopProofs` is about loops that do the work of one call, or of the start. Of `udivmoddi4` it
proves `DividesRight` for words of every width. The invariant says
that `quot * b + num` stays the numerator and that `num` is below twice the shifted
denominator, with `qbit` the bit the denominator was shifted to; it rests on the
assumption that `Bit` doubles, and on lemmas that the
solver does not find in products of variables.

Of `fs_do_readwrite` it proves all three properties about files of the run `library`, for
sectors, buffers, files, disks and requests of every size. That the states of the loop
exist is shown by the least number up to which they would not (`LoopIs`), for a
recursive function is only chosen. `Underway` is what every turn preserves: so many
bytes are done, the memory of the process or the disk differs from before by exactly
these, and the next sector with its offset is the address of the byte after them, as
long as bytes are left (`TurnGoesOn`). A turn that leaves bytes has used its chunk to the
end, so it is there that the next one goes on; and that the loop goes on for long
enough is the arithmetic of sectors: its turns reach behind the last sector
(`TurnsReach`), so an address that is still before the end of the request cannot be
reached with bytes left (`MovesAsAsked`). `MovesWhatWasAsked` and
`ChangesOnlyItsRange` follow for every step, the second also for requests that go
behind the end of the file; `ReachedIsSaved` needs that the size on the disk is the
one in memory (`FileInv`). The assumptions are those of the module; of
the places of files the proofs need only that they lie on the disk, and that two files
do not overlap makes `ChangesOnlyItsRange` a statement about the other files.
TLC finds `FileInv` to hold in the 44,107 states that the files of that run have.

Of the loader it proves `KernelStarts`, for floppies, segments, tables and memories of
every size, every chain and every map of memory. Its first part is arithmetic: the place
that `int 13h` is told is that of the sector (`SectorIsRead`), and what is taken from the
two sectors of the FAT and shifted is the number of the cluster, for even and odd clusters
and also when its bytes are in different sectors (`FatEntryIsRead`). The
inductive invariant `LoaderInv` says that the name is not in the sectors of the root
directory that are done (`SearchInStep`); that `es:bx` is the place behind the units
loaded so far, whatever segments they went through, and these are the units of the
file (`LoadInStep`); that memory is free until the tables are in it, and then holds each
table for which there is memory (`PagesInStep`); and of what kind floppy and ranges
are. That the tables reach over all memory is `TablesReach`, that the headers cover
each unit once `HeadersAre`. As the tables of the kernel are below it, copying it
does not change how its own pages are mapped, and a page without a table is one behind the
end of memory: so the loader faults only then, and what it has stored by then
(`Stored`) are the units below the first such page. The assumptions say that
a chain does not come back to a cluster, that a kernel that fits in its space ends
before addresses do, and that the tables which map it lie below it. TLC finds `LoaderInv` to hold in the states of the run `library`.

`KernelWindowProofs` proves both properties of the run `window` for any processes,
with interrupts between any two steps of a call. The lists, the senders and who
waits for whom are as in `IpcProofs`, whose lemmas serve for the parts of a call
that no interrupt can split. What an interrupt can disturb is said for each place in
the call: one process may be half woken (its flag and partner gone one after the
other) or half blocked (`StatusDuring`); an interrupt is missed only by the
receiver whose test came too early, and only until its assertions (`MissedDuring`);
and what a call has found out stays so, or an interrupt for that process came, also
between the clearing of `has_int_msg` and the assertion that it is clear
(`CallDuring`). `CallsAreWhole` follows for the time when no call is under way,
`AssertsHoldUndisturbed` for the assertions: they fail only in a call that an interrupt
came into, or the last of them for a receiver by name with an interrupt recorded before.

`FileSystemProofs` proves all properties of the run `files`, five invariants (together they are
`HoldsAgain` of the run `files_again`) and `FilesKeepTheirNames`, for tables of any sizes, any names, any finite set of processes, and
restarts at any time on whatever is on the disk by then. The
inductive invariant `IInv` has a part for each of the structures that must agree. An
open descriptor has a slot (`Descriptors`), and no two slots in use are of one inode
(`Distinct`); until the directory has reached entries of an earlier start, a
reference count covers its users, its inode is allocated (`Counted`), and the assertions hold
that only such an entry can break (`Asserted`); the inodes of `mkfs` stay and
the allocated ones behind them are files (`Modes`); a file has a place that no other
has and the map is exactly these places (`Sectors`); an entry of this start stands for an
allocated inode that no other such entry stands for, and the directory is within
the sector of `mkfs` as long as what lies behind is not reached (`Entries`). They need
each other: `unlink` frees the inode of the entry it clears because no other
entry has it, and no descriptor loses its inode because the count covers it; that holds
because the search meets only entries of this start, and it meets one entry behind the
end because that is in the same sector. What `mkfs` leaves cannot harm maps and slots:
`unlink` stops at an inode whose bit is not set, and `creat` writes the inode that it takes. That a
new file finds an inode and an entry is counting: the places are fewer than the
inodes, so while there is a place there is an inode (`RoomForInode`); the
inodes are as many as the entries, each of which has one of its own, so while there
is an inode there is an entry (`RoomForEntry`). The arithmetic of bits, bytes and sectors
is proved once: the bits that a search gives, and those that the three loops of
`unlink` clear, are one interval whatever the widths. `FilesKeepTheirNames` is
proved of every step, with the first entry that a search finds before and after.
The assumptions are those of the modules. Two are more than sizes: a disk has fewer
places for files than the 2048 that `open("/")` takes for an inode (`Unformatted`,
see Findings), and a file has at least the bits of a byte as sectors, which the
clearing of its first byte relies on.

`TerminalProofs` proves the three safety properties of the run `terminal`, for any
processes, terminals, programs, keys and sizes. A call of a process passes
through three programs and up to six messages, so the inductive invariant `TIInv`
says where it can be. Each program is in one of its places with the flags
that go with it (`UserInStep`, `TtyInStep`, `FsInStep`); `task_fs` awaits an answer
exactly while `task_tty` has a request or its reply in hand (`Together`), for
otherwise the second half of a `SR_MODE_BOTH` could take the message that
resumes a reader for the answer of the driver; the call of a process is in exactly
one place: with it, with the file system, with the terminal as its reader, or
answered (`InOnePlace`); each message under way is what its sender had to say
(`Messages`); the reader of a terminal is the process in a read there, with as
many characters in its memory as the terminal has counted (`Readers`, `LineFits`).
They need each other: that a resumed reader is answered with the
right count needs that nobody else has its slot, that needs that the request
in hand of the file system is not its own a second time, and that needs the messages. `KernelInv`
is the invariant of `IpcProofs`. The parts hold while the system runs
(`~panicked`): the call that panics leaves the process table and the
messages as they are, but not the places of the programs. `OnlyReadersAreWritten` then holds of every step. The
assumptions are those of the modules; `ReaderAssumption`, one reading process for a
terminal, is what the code takes for granted (see Findings, `sys/tty.cpp:221-233`).
TLC finds `TIInv` to hold in the 1,608,948 states of an instance in which both
terminals have a reader.

`HardDiskProofs` proves, for any drive, partition tables, requests and any length of
the timeout, the five properties of the run `harddisk` that are not liveness. It
rests on the message passing twice: the invariant of `IpcProofs` is a part of
`HIInv`, and its lemmas say what a call does to who waits for whom.
The other parts: only the driver asks for ticks, only the file system calls the
driver (`Partners`); the driver and the system task are in the same place of a call
of `get_ticks` (`TicksInStep`), the file system and the driver in the same place of
a request (`RequestsInStep`); drive, line and recorded interrupt fit the sector at
hand (`DriveInStep`), where the interrupt of a sector has come or has not (`Came`,
`NotYet`), so that none is left over when the command is done. From the last
part it follows that none is recorded while the driver calls `get_ticks`, so that
the assertion of `message_receive` holds; from the first that no call closes a
cycle. `FreshTicks`, `KeepsProtocol` and `GivesUpLate` follow.

What the data does is a second invariant, `DInv`, inductive together with `HIInv`. A
request that the driver has not looked at is one the file system may make, with
the memory as it handed it over (`RequestsFit`). The walk over the tables has
noted every device up to its place, and all of them when it is over
(`WalkInStep`); the array of logical partitions has a place for each of them
and no two share one (`IndexFits`). Of a transfer, the sectors before the one at
hand are the same in memory and on the disk (`TransferInStep`); the drive is at
the sector at hand, or one further when a write has just been stored
(`PlaceInStep`); at the reply everything is done (`ReplyInStep`). `RequestsDone`
and `WritesStayInRequest` follow. The walk goes along a chain that
the module defines by a recursive function; that there is such a function is shown
by the least number at which two candidates could differ or a place has none
(`TableAtIs`).

The assumptions are those of the modules. `HardDiskAssumption` has what the code takes for
granted of the requests, that the drive has a partition, and that a command can ask
for a sector at all; `TableAssumption` that the tables the walk reads lie on the drive and
describe parts of it, which the code does not test. TLC finds `HIInv` and `DInv`
to hold in the 265,090 states of the run `harddisk`, and the invariants of the
other proofs on their instances.

`DeviceProofs` proves both properties of the consoles, `LoopEnds` and
`ScreenShowsOutput`, for screens and memories of any size, any number of consoles that lie
end to end, and any output, with as many backspaces as there may be, and scrolling. The memory is looked at in rows of the width of the screen:
the first part of the module turns addresses into rows and columns, once
(`RowsApart`, `CellIs`, `CellOrder`), and the two directions of `console_scroll` into
steps from row to row (`NextUp`, `NextDown`). The loop of `console_put_char` then
has a closed form: after so many turns the screen begins so many rows
further, or, in a ring, as many from the beginning (`TurnedTo`), so that it ends within
a round (`ComesIntoView`); and if the memory is no ring and the cursor is above the screen,
no turn moves it (`TurnsStay`). `FollowsTo` is what the end of `console_put_char` does, in
terms of rows and of what is cleared in which console (`CellsAfter`, `RowOf`). The inductive invariant `CInv` says for each console
how lines are counted with rows, with `Apart` rows less for what is still left
behind the cursor from the round before (`LineIn`, `LineInStep`); that there is no text
behind the cursor (`NothingAhead`); that each row of the memory is its line and
nothing else (`MemoryInStep`); that the screen begins with the line it is said to and
does not hold the newest line together with older ones behind it (`ViewInStep`); that
the controller shows the selected console (`ControllerInStep`); and that a loop without an
end belongs to a cursor above a screen that begins behind the newest line
(`HangsInStep`), while all other consoles are as ever. Memory and view
are claimed while `plain` holds; the rest, and with it where the loop ends, always.
They need each other: the row that is cleared as the screen moves on is the one
of the oldest line, because lines follow each other; the copy to the beginning
brings the lines the screen needs, because the cursor is in its last row; and that a screen
does not begin behind the cursor before the memory is a ring is exactly what backspaces
can break, in the one step that hangs. TLC finds `CInv` to hold in the 324,298
states that the consoles of the run `devices` have.

The second part of `DeviceProofs` is about the keyboard: `KeysAsTyped` for any keys,
a ring of any size and any lag between handler and reader, as long as no code was lost,
in the full ring or to the poll for an acknowledgement. What one code does to `keyboard_read`, at each place of a series, is a
relation `Takes` of where the reader is before and after, and of the keys it gave to
the terminal. The inductive invariant `KInv` numbers codes, readers and keys:
there are functions of the natural numbers such that the ring holds the codes from
`first` on, the device those behind them, each code leads from one reader to the
next, the first reader is where `keyboard_read` is, the last is where the keys and locks
of the device are, and what is still expected are the keys made between the two
(`InFlight`). A step of the handler or of the reader then only moves a border
(`PutIn` and `TakenOut` say what the ring does to its numbering), while a stroke appends
codes. That these lead from the modifiers and locks of the device to
those after the stroke, with the key that was meant, is shown kind by kind
(`PressLeads`, `ReleaseLeads`, on `OneCodeMakes`, `E0Makes`, `PauseLeads`,
`PrintScreenMakes` and their like), and an acknowledgement that the handler took for a code leads nowhere
(`AckInFlight`). The invariant quantifies over infinite functions, so TLC
cannot evaluate it: it has the property, and the proof the rest.

Model-checked only: the library but for `DividesRight`.
Liveness under fairness is out of the prover's reach; so are
`Strings`, `Printf` and `Stdlib`, which are about recursive operators.

## Findings

Three have a run that ends in a counterexample.

1. Two processes mix up the parameters of their calls (`lib/syscall.asm:11-14`).
2. Removing the last entry of a directory can cut off other files
   (`fs/fd.cpp:425-429`), whose removal then fails half-way (`:423`).
3. `task_tty` resumes a reader (`sys/tty.cpp:214`) while the file system sends it
   a request (`fs/fd.cpp:206`): the deadlock check stops the system.

What else was met while the modules were written from the code, and is in them or
excluded by a named assumption, without a run:

* `sys/sendrecv.c:74`: an interrupt between the test at `:69` and the copy takes
  `dest->msg` away; the message is copied to address 0 and lost.
* `sys/sendrecv.c:142` fails when the next interrupt comes between the clearing of
  `has_int_msg` (`:137`) and the assertion.
* `sys/sendrecv.c:243` fails for a process that waits for another by name with an
  interrupt recorded. `GivesUpLate` shows that the disk driver never does when
  calls are single steps.
* `fs/main.cpp:219-249`: `mkfs` runs at every start and clears the first sector of the
  directory and of the inodes only, and the search compares one entry behind the
  end (`fs/core.cpp:139-142`). Once the directory has grown up to the second
  sector, the names of an earlier start are found again: one opens an inode that is not
  allocated, and its removal stops the system (`fs/fd.cpp:326`, `UnlinkUnallocated`).
  `files_again` comes to both states; `RefCountCovers` and `OpenFilesExist` end before
  them (`leftover`).
* `fs/fd.cpp:305-315`: a refused `unlink` keeps a reference to the inode.
* `fs/core.cpp:125`: `open("/")` gets inode 2048, the number of sectors.
* `fs/fd.cpp:51`: a process can open `NUM_PROCS` files only, and the next open
  stops the system.
* `fs/fd.cpp:217-256`: the bytes moved are bounded by `count` and not by the end
  of the file. A read past the end returns what is on the disk there and makes the
  file longer; a write past its sectors goes on into the next file; a seek past
  the end followed by any request makes the file longer.
* `fs/fd.cpp:180`: the assertion on the descriptor stands before the test for null
  (`:182`) and stops the system for a descriptor that is not open.
* `sys/harddisk.cpp:128`: a request for more than 256 sectors, which the buffer of
  the file system allows, is cut to the 8 bits of the register; the driver then
  waits for interrupts that never come. A count that is not a multiple of a
  sector, or 0, never ends. Devices 5 to 8 index `primary` without a check.
* `sys/tty.cpp:221-233`: a second reader of a terminal overwrites the first, and a
  read of 0 bytes is never answered.
* `sys/tty.cpp:184`: the tail of a terminal's input is compared with the end in
  bytes, its head (`:261`) with the end in keys. From key `TTY_INPUT_SIZE + 1` to
  key `4 * TTY_INPUT_SIZE` of a terminal, `tty_dev_write` takes the fields of
  `tty_t` and the inputs of the next terminals for keys. `Terminal` and `Console`
  let any key follow any other, so they cover what is taken; that it is not what
  was typed they do not say.
* `sys/tty.cpp:318`: `writex_impl` writes to the first console from inside the
  kernel, also in the middle of a `console_put_char` of `task_tty` there, which
  then goes on with the cursor it has read before. `Console` has `task_tty` as its
  only writer.
* `fs/fd.cpp:498`: `stat` stops the system.
* `sys/tty.cpp:72`: the flag of a key that comes between the receive and the reset is
  lost; the round that follows takes its code from the ring (`KeyIsNoticed`). But a
  round reads one scan code for each poll, so further codes may stay in the ring until
  the next key.
* `fs/fd.cpp:669`: a name that fills its field is copied with its NUL into the next
  entry, whose inode number or first bytes it changes. `FilesKeepTheirNames`
  excepts the entry before which such a name is written.
* `fs/main.cpp:167`: the map has a sector more than the device fills, and the bits
  behind its end are never marked as taken: the last files could lie behind the
  device. `fd_alloc_imap_bit` returns 0 for a full map, not the panic of the
  sector map. Neither is reached with 4096 inodes and files of 1 MB.
* `lib/clock.c:18`: the product with 1000 wraps after twelve hours; a `usleep` that
  is longer, or one of a negative time, may never end. `InRange` names the rest.
* `lib/string.c:130-169`: `strncpy` and `strncat` copy one character less than their
  count and always end with a NUL; a count of 0 is no bound. `memset` returns the
  end of what it filled, and `memcpy` goes upwards when the two overlap.
* `lib/printf.cpp:104-146`: `%#2x` of 255 gives `0x`, for the prefix takes the place
  of digits that fill the field exactly; a precision in a field put to the left is
  ignored; the octal prefix comes on top of leading zeros; 64 bits in binary do not
  fit the buffer of 32. `Differs` lists them.
* `boot/loader.asm:69`: when the BIOS fails, the number of ranges is set to 0, and
  the loop at `:692-715`, whose comment says `for(int i=0;i<[MCRNumber];i++)`, goes
  round 2^32 times, for it looks at its count at the end. The loops of `SetupPaging`
  do the same for no memory. `Loader` ends there (`"lost"`).
* `boot/loader.asm:821-853`: paging is on when the kernel is copied to 0x400000. With
  up to 4 MB of memory no table maps that address and the copy faults, with nothing to
  handle it; with a little more, the end of the kernel is written where no memory is.
* `boot/loader.asm:848`: `InitKernel` copies what the file has of a segment and does
  not clear the rest (`.bss`): the kernel relies on memory that is zero. With more than
  3 GB it is not: the tables of pages reach behind the address of the kernel, whose
  segments are copied over those for the highest memory.
* `boot/loader.asm:164`: only 0FFFh ends a chain, not 0FF8h to 0FFEh, and an empty file
  begins with cluster 0: the floppy of `Loader` has neither.
* `lib/stdlib.c:29-34`: of `0x` without a digit nothing is read, not the 0.
* `sys/keyboard.c:214-224`: with number lock on, keyboards that send a simulated
  shift (`E0 2A`) before a cursor key lose the key, for the codes read in search of
  `PRINTSCREEN` are gone; a held lock key toggles with every repetition.
* `sys/keyboard.c:396, 417`: the loops that wait for a code or an acknowledgement
  hang `task_tty` when it was lost. The second hangs although nothing was lost when the handler
  takes the acknowledgement for a scan code and the next key's code replaces it in the
  port before the poll looks; and a code that the poll reads first never gets to the ring.
* `sys/console.cpp:67-73`: output while the user has scrolled back to the oldest
  line of a full console goes into old lines; a backspace over a line boundary
  there leaves the old copy. A clear that begins in the middle of the last line erases the
  first line of the next console. A process whose backspaces bring the cursor above the
  screen, before the memory is a ring, makes the loop endless. `Console` has them all;
  `plain` and `AboveScreen` say when.

## Plan

Done: message passing with its abstract specification, refinement and proofs;
interrupts inside calls with proofs; call parameters; system task and sleeps;
scheduler, entry to the kernel and interrupt masks with proofs; names, inodes,
descriptors, maps and contents of the file system, and starts on a disk that has files,
with proofs; terminal with proofs; disk
driver with partitions, with proofs of its protocol and of its data; keyboard
and console with proofs; the library with the proof of a division; the loader with proofs.

Next, in this order:

1. `TtyRing`: the input of a terminal, with the tail behind its end, and
   `writex_impl` beside `task_tty`.
2. A composition of `Keyboard` and `Terminal`, codes in and lines out.

Theorems to come: the loop of `divmoddi4`.

## Not modelled

The boot sector, which finds the loader as that finds the kernel, the switch to
protected mode, set-up of descriptor tables and of the interrupt
controllers, early display output: they run once, or have no behaviour beyond
their output. Of `lib/printf.cpp` the conversions of floating point, which nothing
in the system uses, and the reading of the text of a format, which comes as a
list of directives. `lib/crc.c`, which nothing calls, and the texts of errors.
`lib_writex`, a debugging call (see Findings). `keyboard_wait`, which polls until the
controller takes a byte, as it does in the end.
