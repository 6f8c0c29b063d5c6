------------------------------ MODULE Terminal ------------------------------
(***************************************************************************)
(* Reading from and writing to the terminals: task_tty (sys/tty.cpp), the  *)
(* part of the file system that stands between it and the processes        *)
(* (task_fs, fs_do_readwrite, fs_do_open), and processes that call open,   *)
(* read and write.  They run on the message passing of Ipc.  A read        *)
(* suspends its process: the file system goes on to the next request, and  *)
(* the terminal asks it to resume the process when a line is complete.     *)
(*                                                                         *)
(* Keys arrive decoded (module Keyboard), as tty_dev_write takes them out  *)
(* of the input of their terminal, which it empties after each key.  The   *)
(* tail of the input goes on behind its end, so a key may be what is found *)
(* there instead of the one that was typed: any key can follow any here.   *)
(* What is put on the screen is in module Console.                         *)
(***************************************************************************)
EXTENDS Ipc

CONSTANTS
    TASK_TTY, TASK_FS,
    ttys_table,                \* the terminals in the order of the table
    TtyOf,                     \* the terminal a process has opened
    Program,                   \* the calls a process makes, with their counts
    Char, Enter, Backspace,    \* the keys that a line is made of
    Other,                     \* keys without a meaning in a line
    KEYBOARD_IN_BUFFERSIZE,
    MaxCount                   \* bound: nobody reads or writes more at once

Tty  == {ttys_table[i] : i \in DOMAIN ttys_table}
User == Proc \ {TASK_TTY, TASK_FS}

\* Alt with a function key selects a console: the key is the terminal here.
Key == Char \cup {Enter, Backspace, Other} \cup Tty

\* The messages, with the fields that a type uses; the others keep a value.
Msg(type, device, count, process_index) ==
    [type |-> type, device |-> device, count |-> count,
     process_index |-> process_index]

NoTty == SR_TARGET_NONE

Request(type, d, n)   == Msg(type, d, n, SR_TARGET_NONE)
Suspend(n)            == Msg("SUSPEND_PROC", NoTty, n, SR_TARGET_NONE)
Resume(n, p)          == Msg("RESUME_PROC", NoTty, n, p)
SyscallRet(n)         == Msg("SYSCALL_RET", NoTty, n, SR_TARGET_NONE)

Call   == {"OPEN", "READ", "WRITE"}
Driver == [OPEN |-> "DEVOPEN", READ |-> "DEVREAD", WRITE |-> "DEVWRITE"]

Bodies ==
    {Request(type, d, n) : type \in Call, d \in Tty, n \in 0..MaxCount}
    \cup {Msg(Driver[type], d, n, p) :
              type \in Call, d \in Tty, n \in 0..MaxCount, p \in User}
    \cup {Resume(n, p) : n \in 0..MaxCount, p \in User}
    \cup {Suspend(n) : n \in 0..MaxCount} \cup {SyscallRet(n) : n \in 0..MaxCount}

ASSUME TerminalAssumption ==
    /\ {TASK_TTY, TASK_FS} \subseteq Proc /\ TASK_TTY # TASK_FS
    /\ TtyOf \in [User -> Tty]
    /\ Program \in [User -> SUBSET (Call \X (0..MaxCount))]
    /\ \A u \in User : \A c \in Program[u] : c[2] > 0 <=> c[1] # "OPEN"
    /\ \A i, j \in DOMAIN ttys_table : ttys_table[i] = ttys_table[j] => i = j
    /\ ttys_table \in Seq(Tty) \ {<<>>}
    /\ KEYBOARD_IN_BUFFERSIZE \in Nat \ {0} /\ MaxCount \in Nat \ {0}
    /\ Body = Bodies /\ HardInt \notin Bodies

\* tty_t has room for one reader: no two processes read from one terminal.
ASSUME ReaderAssumption ==
    \A u, v \in User :
        /\ \E c \in Program[u] : c[1] = "READ"
        /\ \E c \in Program[v] : c[1] = "READ"
        /\ TtyOf[u] = TtyOf[v]
        => u = v

VARIABLES
    tty,              \* the fields of tty_t that serve a read
    tty_pc, at,       \* where task_tty is; the terminal it looks at next
    current,          \* the terminal of the current console
    keys,             \* keyboard_in
    tty_key_pressed,
    fs_pc, fs_msg,    \* where task_fs is; the request it works on
    phase,            \* where a process is in its call
    asked,            \* the type of its call (history)
    text,             \* the memory a process gave to read
    line              \* the keys taken for its read, edited (history)

ttyVars  == <<tty, tty_pc, at, current>>
keyVars  == <<keys, tty_key_pressed>>
fsVars   == <<fs_pc, fs_msg>>
userVars == <<phase, asked, text, line>>
tvars    == <<vars, ttyVars, keyVars, fsVars, userVars>>

NoChar == SR_TARGET_NONE
NoMsg  == [source |-> TASK_FS, body |-> Zeroed]

TTypeOK ==
    /\ TypeOK
    /\ tty \in [Tty -> [caller : {TASK_FS, SR_TARGET_NONE},
                        process_index : User \cup {SR_TARGET_NONE},
                        bytes_left : 0..MaxCount, trans_count : 0..MaxCount]]
    /\ tty_pc \in {"poll", "resumed", "handle"}
    /\ at \in 1..Len(ttys_table) + 1
    /\ current \in Tty
    /\ keys \in Seq(Key) /\ Len(keys) <= KEYBOARD_IN_BUFFERSIZE
    /\ tty_key_pressed \in BOOLEAN
    /\ fs_pc \in {"receive", "handle", "driver", "driven"}
    /\ fs_msg \in Message
    /\ phase \in [User -> {"idle", "called", "receiving"}]
    /\ asked \in [User -> Call \cup {"NONE"}]
    /\ text \in [User -> [1..MaxCount -> Char \cup {NoChar}]]
    /\ line \in [User -> Seq(Char)]

TInit ==
    /\ Init
    /\ tty = [d \in Tty |-> [caller |-> SR_TARGET_NONE,
                             process_index |-> SR_TARGET_NONE,
                             bytes_left |-> 0, trans_count |-> 0]]
    /\ tty_pc = "poll" /\ at = 1
    /\ current = ttys_table[1]
    /\ keys = <<>> /\ tty_key_pressed = FALSE
    /\ fs_pc = "receive" /\ fs_msg = NoMsg
    /\ phase = [p \in User |-> "idle"]
    /\ asked = [p \in User |-> "NONE"]
    /\ text = [p \in User |-> [i \in 1..MaxCount |-> NoChar]]
    /\ line = [p \in User |-> <<>>]

-----------------------------------------------------------------------------
(* The keyboard and the clock.                                             *)

\* A scan code that finds the ring full is dropped; the flag is set anyway.
keyboard_handler(key) ==
    /\ ~panicked
    /\ keys' = IF Len(keys) < KEYBOARD_IN_BUFFERSIZE
               THEN Append(keys, key) ELSE keys
    /\ tty_key_pressed' = TRUE
    /\ UNCHANGED <<vars, ttyVars, fsVars, userVars>>

clock_handler ==
    /\ tty_key_pressed
    /\ Interrupt(TASK_TTY)
    /\ UNCHANGED <<ttyVars, keyVars, fsVars, userVars>>

-----------------------------------------------------------------------------
(* task_tty: one key at most for each terminal, then a message.            *)

\* The terminal that task_tty looks at, and the key it finds.
polled  == ttys_table[at]
pressed == Head(keys)

Polls == tty_pc = "poll" /\ at <= Len(ttys_table) /\ Runnable(TASK_TTY)

TtyIdle ==
    /\ Polls
    /\ current # polled \/ keys = <<>>
    /\ at' = at + 1
    /\ UNCHANGED <<vars, tty, tty_pc, current, keyVars, fsVars, userVars>>

\* keyboard_read takes a key out of the ring for the terminal it is called for,
\* which is the one of the current console.
TakesKey ==
    /\ Polls
    /\ current = polled
    /\ keys # <<>> /\ keys' = Tail(keys)
    /\ UNCHANGED <<tty_key_pressed, fsVars, phase, asked>>

console_select ==
    /\ TakesKey /\ pressed \in Tty
    /\ current' = pressed
    /\ at' = at + 1
    /\ UNCHANGED <<vars, tty, tty_pc, text, line>>

\* Keys for which nobody waits, keys that mean nothing (the arrows, which scroll
\* the console, and whatever isprint refuses) and a backspace at the beginning.
IgnoresKey ==
    /\ TakesKey /\ pressed \notin Tty
    /\ \/ tty[polled].bytes_left = 0 \/ pressed = Other
       \/ pressed = Backspace /\ tty[polled].trans_count = 0
    /\ at' = at + 1
    /\ UNCHANGED <<vars, tty, tty_pc, current, text, line>>

\* The reader of the terminal, and what was typed for it so far.
reader == tty[polled].process_index

TtyBackspace ==
    /\ TakesKey /\ pressed = Backspace
    /\ tty[polled].bytes_left > 0 /\ tty[polled].trans_count > 0
    /\ tty' = [tty EXCEPT ![polled].trans_count = @ - 1,
                          ![polled].bytes_left = @ + 1]
    /\ line' = [line EXCEPT ![reader] = SubSeq(@, 1, Len(@) - 1)]
    /\ at' = at + 1
    /\ UNCHANGED <<vars, tty_pc, current, text>>

\* The request that task_tty makes of the file system for a complete line.
AsksToResume(count) ==
    /\ Send(TASK_TTY, tty[polled].caller, Resume(count, reader))
    /\ tty_pc' = "resumed"
    /\ UNCHANGED <<at, current>>

\* A character goes into the memory of the reader.
TtyChar ==
    /\ TakesKey /\ pressed \in Char
    /\ tty[polled].bytes_left > 0
    /\ LET n == tty[polled].trans_count + 1 IN
          /\ text' = [text EXCEPT ![reader][n] = pressed]
          /\ line' = [line EXCEPT ![reader] = Append(@, pressed)]
          /\ tty' = [tty EXCEPT ![polled].trans_count = n,
                                ![polled].bytes_left = @ - 1]
          /\ \/ tty[polled].bytes_left = 1 /\ AsksToResume(n)
             \/ /\ tty[polled].bytes_left > 1
                /\ at' = at + 1
                /\ UNCHANGED <<vars, tty_pc, current>>

TtyEnter ==
    /\ TakesKey /\ pressed = Enter
    /\ tty[polled].bytes_left > 0
    /\ AsksToResume(tty[polled].trans_count)
    /\ UNCHANGED <<tty, text, line>>

\* Variant: bytes_left stays, as if the line went on.
TtyResumedKeeps ==
    /\ tty_pc = "resumed" /\ Runnable(TASK_TTY)
    /\ tty_pc' = "poll" /\ at' = at + 1
    /\ UNCHANGED <<vars, tty, current, keyVars, fsVars, userVars>>

\* The request is through: the terminal has no reader any more.
TtyResumed ==
    /\ tty_pc = "resumed" /\ Runnable(TASK_TTY)
    /\ tty' = [tty EXCEPT ![polled].bytes_left = 0]
    /\ tty_pc' = "poll" /\ at' = at + 1
    /\ UNCHANGED <<vars, current, keyVars, fsVars, userVars>>

TtyReceive ==
    /\ tty_pc = "poll" /\ at = Len(ttys_table) + 1
    /\ Receive(TASK_TTY, SR_TARGET_ANY)
    /\ tty_pc' = "handle"
    /\ UNCHANGED <<tty, at, current, keyVars, fsVars, userVars>>

\* task_tty has received m and goes on with its loop after the switch.
Handles(m) ==
    /\ tty_pc = "handle" /\ Runnable(TASK_TTY)
    /\ m = buffer[TASK_TTY]
    /\ tty_pc' = "poll" /\ at' = 1
    /\ UNCHANGED <<current, keys, fsVars, userVars>>

TtyHardInt ==
    /\ Handles(buffer[TASK_TTY])
    /\ buffer[TASK_TTY].body = HardInt
    /\ tty_key_pressed' = FALSE
    /\ UNCHANGED <<vars, tty>>

\* DEVOPEN and DEVWRITE are answered at once.
TtyAnswers(m) ==
    /\ Handles(m)
    /\ m.body # HardInt /\ m.body.type \in {"DEVOPEN", "DEVWRITE"}
    /\ Send(TASK_TTY, m.source, SyscallRet(m.body.count))
    /\ UNCHANGED <<tty, tty_key_pressed>>

\* Variant: trans_count is left from the last read.
tty_do_read_on(m) ==
    /\ Handles(m)
    /\ m.body # HardInt /\ m.body.type = "DEVREAD"
    /\ tty' = [tty EXCEPT ![m.body.device] =
                  [caller |-> m.source, process_index |-> m.body.process_index,
                   bytes_left |-> m.body.count, trans_count |-> @.trans_count]]
    /\ Send(TASK_TTY, m.source, Suspend(m.body.count))
    /\ UNCHANGED tty_key_pressed

tty_do_read(m) ==
    /\ Handles(m)
    /\ m.body # HardInt /\ m.body.type = "DEVREAD"
    /\ tty' = [tty EXCEPT ![m.body.device] =
                  [caller |-> m.source, process_index |-> m.body.process_index,
                   bytes_left |-> m.body.count, trans_count |-> 0]]
    /\ Send(TASK_TTY, m.source, Suspend(m.body.count))
    /\ UNCHANGED tty_key_pressed

TtyStep ==
    \/ TtyIdle \/ console_select \/ IgnoresKey
    \/ TtyBackspace \/ TtyChar \/ TtyEnter \/ TtyResumed
    \/ TtyReceive \/ TtyHardInt
    \/ TtyAnswers(buffer[TASK_TTY]) \/ tty_do_read(buffer[TASK_TTY])

-----------------------------------------------------------------------------
(* task_fs                                                                 *)

FsReceive ==
    /\ fs_pc = "receive" /\ fs_pc' = "handle"
    /\ Receive(TASK_FS, SR_TARGET_ANY)
    /\ UNCHANGED <<ttyVars, keyVars, fs_msg, userVars>>

\* open, read and write of a terminal are passed on to its driver.
FsCallsDriver ==
    /\ fs_pc = "handle" /\ Runnable(TASK_FS)
    /\ LET m == buffer[TASK_FS] IN
          /\ m.body.type \in Call
          /\ SendBoth(TASK_FS, TASK_TTY,
                      Msg(Driver[m.body.type], m.body.device, m.body.count, m.source))
          /\ fs_msg' = m
    /\ fs_pc' = "driver"
    /\ UNCHANGED <<ttyVars, keyVars, userVars>>

FsDriver ==
    /\ fs_pc = "driver" /\ fs_pc' = "driven"
    /\ ReceiveReply(TASK_FS)
    /\ UNCHANGED <<ttyVars, keyVars, fs_msg, userVars>>

\* Variant: suspend is not looked at.
FsDrivenAnswers ==
    /\ fs_pc = "driven" /\ Runnable(TASK_FS)
    /\ fs_pc' = "receive" /\ fs_msg' = NoMsg
    /\ Send(TASK_FS, fs_msg.source, SyscallRet(buffer[TASK_FS].body.count))
    /\ UNCHANGED <<ttyVars, keyVars, userVars>>

\* A suspended process gets no answer yet.  The assertion is about the count.
FsDriven ==
    /\ fs_pc = "driven" /\ Runnable(TASK_FS)
    /\ LET reply == buffer[TASK_FS].body IN
          \/ /\ reply.count # fs_msg.body.count
             /\ panicked' = TRUE
             /\ UNCHANGED <<kernelVars, buffer, pending, fs_pc, fs_msg>>
          \/ /\ reply.count = fs_msg.body.count
             /\ fs_pc' = "receive" /\ fs_msg' = NoMsg
             /\ \/ reply.type = "SUSPEND_PROC" /\ UNCHANGED vars
                \/ /\ reply.type # "SUSPEND_PROC"
                   /\ Send(TASK_FS, fs_msg.source, SyscallRet(reply.count))
    /\ UNCHANGED <<ttyVars, keyVars, userVars>>

\* Variant: the answer goes back to where the message came from.
FsResumesSource ==
    /\ fs_pc = "handle" /\ Runnable(TASK_FS)
    /\ LET m == buffer[TASK_FS] IN
          /\ m.body.type = "RESUME_PROC"
          /\ Send(TASK_FS, m.source, SyscallRet(m.body.count))
    /\ fs_pc' = "receive"
    /\ UNCHANGED <<ttyVars, keyVars, fs_msg, userVars>>

\* RESUME_PROC becomes the answer to the process it names.
FsResumes ==
    /\ fs_pc = "handle" /\ Runnable(TASK_FS)
    /\ LET m == buffer[TASK_FS] IN
          /\ m.body.type = "RESUME_PROC"
          /\ Send(TASK_FS, m.body.process_index, SyscallRet(m.body.count))
    /\ fs_pc' = "receive"
    /\ UNCHANGED <<ttyVars, keyVars, fs_msg, userVars>>

FsStep == FsReceive \/ FsCallsDriver \/ FsDriver \/ FsDriven \/ FsResumes

-----------------------------------------------------------------------------
(* The processes.                                                          *)

\* open, read and write of the terminal, in any order.
UserCall(p, type, n) ==
    /\ <<type, n>> \in Program[p]
    /\ phase[p] = "idle" /\ phase' = [phase EXCEPT ![p] = "called"]
    /\ SendBoth(p, TASK_FS, Request(type, TtyOf[p], n))
    /\ asked' = [asked EXCEPT ![p] = type]
    /\ UNCHANGED <<ttyVars, keyVars, fsVars, text, line>>

UserReceive(p) ==
    /\ phase[p] = "called" /\ phase' = [phase EXCEPT ![p] = "receiving"]
    /\ ReceiveReply(p)
    /\ UNCHANGED <<ttyVars, keyVars, fsVars, asked, text, line>>

Returns(p) == phase[p] = "receiving" /\ Runnable(p)

\* The process has used its line; the message was a variable of the call.
UserReturn(p) ==
    /\ Returns(p) /\ phase' = [phase EXCEPT ![p] = "idle"]
    /\ asked' = [asked EXCEPT ![p] = "NONE"]
    /\ line' = [line EXCEPT ![p] = <<>>]
    /\ text' = [text EXCEPT ![p] = [i \in 1..MaxCount |-> NoChar]]
    /\ buffer' = [buffer EXCEPT ![p] = [source |-> p, body |-> Zeroed]]
    /\ UNCHANGED <<kernelVars, pending, panicked, ttyVars, keyVars, fsVars>>

TNext ==
    \/ \E key \in Key : keyboard_handler(key)
    \/ clock_handler
    \/ TtyStep
    \/ FsStep
    \/ \E p \in User :
          \/ \E call \in Program[p] : UserCall(p, call[1], call[2])
          \/ UserReceive(p) \/ UserReturn(p)

TSpec == TInit /\ [][TNext]_tvars

\* The scheduler gives every ready process its turn, and the clock goes on
\* (module Scheduler).  Nobody is obliged to type or to call.
TFairSpec ==
    /\ TSpec
    /\ WF_tvars(TtyStep) /\ WF_tvars(FsStep) /\ WF_tvars(clock_handler)
    /\ \A p \in User : WF_tvars(UserReceive(p)) /\ WF_tvars(UserReturn(p))

-----------------------------------------------------------------------------
(* Properties.                                                             *)

\* What read returns is the line that the terminal took for it, with its
\* corrections: the count went through two messages and two processes on the
\* way, and the characters were put straight into the memory of the process
\* (tty.cpp:173-233, main.cpp:64-78).
ReaderGetsItsLine ==
    \A p \in User : Returns(p) /\ asked[p] = "READ" =>
        /\ buffer[p].source = TASK_FS
        /\ buffer[p].body = SyscallRet(Len(line[p]))
        /\ \A i \in DOMAIN line[p] : text[p][i] = line[p][i]

\* The terminal writes into the memory of a process only while it is in a
\* read: request_buffer is never used after the process was resumed
\* (tty.cpp:190-198, 215).
OnlyReadersAreWritten ==
    [][\A p \in User : text'[p] # text[p] => phase[p] # "idle" /\ asked[p] = "READ"]_tvars

\* The file system works on the request of p, or on the wish to resume it.
FsHas(p) ==
    \/ /\ fs_pc = "handle" /\ ~Receiving(TASK_FS)
       /\ buffer[TASK_FS].source = p \/ buffer[TASK_FS].body.process_index = p
    \/ fs_pc \in {"driver", "driven"} /\ fs_msg.source = p
    \/ Sending(TASK_FS) /\ sendto[TASK_FS] = p

TtyHas(p) ==
    \E d \in Tty :
        /\ tty[d].process_index = p
        /\ tty[d].bytes_left > 0 \/ (tty_pc = "resumed" /\ Sending(TASK_TTY))

\* A call is always in somebody's hands until it is answered: no reader is
\* forgotten by the terminal and the file system (each process has a terminal of
\* its own here).  And only a process in a call is answered: nobody twice, nobody
\* without a call (tty.cpp:221-233, main.cpp:64-78).
EveryCallIsInHand ==
    /\ TTypeOK
    /\ \A p \in User : phase[p] # "idle" /\ ~panicked =>
          \/ Sending(p) \/ FsHas(p) \/ TtyHas(p)
          \/ phase[p] = "receiving" /\ Runnable(p)
    /\ Sending(TASK_FS) /\ sendto[TASK_FS] \in User =>
          phase[sendto[TASK_FS]] # "idle"

\* assert and panic stop the system only when it is broken; here: the deadlock
\* check of message_send (sendrecv.c:65-66) finds nothing to complain about.
NeverPanics == ~panicked

\* The line of p is complete, and the wish to resume p on its way.
Resuming(p) ==
    \/ Sending(TASK_TTY) /\ buffer[TASK_TTY].body \in {Resume(n, p) : n \in 0..MaxCount}
    \/ /\ fs_pc = "handle" /\ ~Receiving(TASK_FS)
       /\ buffer[TASK_FS].body \in {Resume(n, p) : n \in 0..MaxCount}

\* A reader whose line is complete returns, whatever is typed meanwhile; and
\* when nobody types any more, so does a writer: an interrupt is taken before
\* any message (sendrecv.c:128), so keys could keep task_tty from it for ever.
CallsReturn ==
    \A p \in User :
        /\ Resuming(p) ~> asked[p] = "NONE" \/ panicked
        /\ <>[]~tty_key_pressed =>
              (asked[p] = "WRITE" ~> asked[p] = "NONE" \/ panicked)
=============================================================================
