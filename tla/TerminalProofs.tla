--------------------------- MODULE TerminalProofs ---------------------------
(* Proofs about the terminals, the file system and the processes that read *)
(* and write, for any processes, terminals, keys and lengths of lines, with *)
(* the lemmas of IpcProofs about the message passing below them.           *)
EXTENDS Terminal, IpcProofs

-----------------------------------------------------------------------------
(* The inductive invariant: where task_tty, task_fs and each process are,  *)
(* and where the call of a process is.                                     *)

\* Only task_tty is informed of interrupts, and the receive half of a call is
\* with the process that was called.
Partners ==
    /\ \A p \in Proc \ {TASK_TTY} : ~has_int_msg[p]
    /\ pending[TASK_TTY] = SR_TARGET_NONE
    /\ pending[TASK_FS] = IF fs_pc = "driver" THEN TASK_TTY ELSE SR_TARGET_NONE
    /\ \A p \in User :
          pending[p] = IF phase[p] = "called" THEN TASK_FS ELSE SR_TARGET_NONE
    /\ \A p, q \in Proc : Offers(p, q) => TASK_FS \in {p, q}

\* A process is in a call, one of its program, or not.
UserInStep(p) ==
    /\ \/ phase[p] = "idle" /\ Free(p) /\ asked[p] = "NONE"
       \/ phase[p] = "called" /\ (Offers(p, TASK_FS) \/ Free(p))
       \/ phase[p] = "receiving" /\ (Waiting(p, TASK_FS) \/ Free(p))
    /\ asked[p] = "NONE" \/ \E n \in 0..MaxCount : <<asked[p], n>> \in Program[p]

TtyInStep ==
    \/ tty_pc = "poll" /\ (Free(TASK_TTY) \/ Offers(TASK_TTY, TASK_FS))
    \/ /\ tty_pc = "resumed" /\ at <= Len(ttys_table)
       /\ Free(TASK_TTY) \/ Offers(TASK_TTY, TASK_FS)
    \/ tty_pc = "handle" /\ (Waiting(TASK_TTY, SR_TARGET_ANY) \/ Free(TASK_TTY))

FsInStep ==
    \/ fs_pc = "receive" /\ (Free(TASK_FS) \/ \E p \in User : Offers(TASK_FS, p))
    \/ fs_pc = "handle" /\ (Waiting(TASK_FS, SR_TARGET_ANY) \/ Free(TASK_FS))
    \/ fs_pc = "driver" /\ (Offers(TASK_FS, TASK_TTY) \/ Free(TASK_FS))
    \/ fs_pc = "driven" /\ (Waiting(TASK_FS, TASK_TTY) \/ Free(TASK_FS))

\* What the two have in hand.  While task_tty has the request of the file
\* system, that waits for the answer.
TtyTakes     == /\ tty_pc = "handle" /\ Free(TASK_TTY)
                /\ buffer[TASK_TTY].body # HardInt
TtyReplies   == tty_pc = "poll" /\ Offers(TASK_TTY, TASK_FS)
TtyAsks      == tty_pc = "resumed" /\ Offers(TASK_TTY, TASK_FS)
FsTakes      == fs_pc = "handle" /\ Free(TASK_FS)
FsWorks      == fs_pc \in {"driver", "driven"}
FsAwaits     == \/ fs_pc = "driver" /\ Free(TASK_FS)
                \/ fs_pc = "driven" /\ Waiting(TASK_FS, TASK_TTY)
FsReplied    == fs_pc = "driven" /\ Free(TASK_FS)

Together == TtyTakes \/ TtyReplies <=> FsAwaits

\* The message that a process has called the file system with, and those that
\* follow from it.
Asked(m) ==
    /\ m.source \in User /\ phase[m.source] # "idle"
    /\ \E n \in 0..MaxCount :
          /\ <<asked[m.source], n>> \in Program[m.source]
          /\ m.body = Request(asked[m.source], TtyOf[m.source], n)

DriverRequest ==
    [source |-> TASK_FS,
     body   |-> Msg(Driver[fs_msg.body.type], fs_msg.body.device,
                    fs_msg.body.count, fs_msg.source)]

DriverAnswer ==
    [source |-> TASK_TTY,
     body   |-> IF fs_msg.body.type = "READ" THEN Suspend(fs_msg.body.count)
                                             ELSE SyscallRet(fs_msg.body.count)]

LineMessage(p) == [source |-> TASK_TTY, body |-> Resume(Len(line[p]), p)]

\* The answer to p, which for a read has the length of the line.
Answer(m, p) ==
    /\ m.source = TASK_FS
    /\ asked[p] = "READ" => m.body = SyscallRet(Len(line[p]))

\* The driver has suspended the process that the file system is working for.
Suspended == fs_msg.body.type = "READ" /\ (TtyReplies \/ FsReplied)

FsRequest(p) ==
    \/ FsTakes /\ buffer[TASK_FS].source = p
    \/ FsWorks /\ fs_msg.source = p /\ ~Suspended

FsHolds(p) ==
    \/ FsRequest(p)
    \/ FsTakes /\ buffer[TASK_FS] = LineMessage(p)
    \/ Offers(TASK_FS, p)

\* Terminal d has a reader that was not resumed yet.
HasReader(d) ==
    IF tty_pc = "resumed" /\ polled = d
    THEN Offers(TASK_TTY, TASK_FS) ELSE tty[d].bytes_left > 0

TtyHolds(p) == HasReader(TtyOf[p]) /\ tty[TtyOf[p]].process_index = p

Answered(p) == phase[p] = "receiving" /\ Free(p)

\* The call of p is in one place: with p, with the file system, with the
\* terminal, or answered.
InOnePlace(p) ==
    /\ phase[p] = "idle" => ~FsHolds(p) /\ ~TtyHolds(p)
    /\ phase[p] # "idle" =>
          /\ FsHolds(p) \/ TtyHolds(p) <=> ~Offers(p, TASK_FS) /\ ~Answered(p)
          /\ ~(FsHolds(p) /\ TtyHolds(p))

\* Each message under way is what its sender had to say.
Messages ==
    /\ \A p \in User : Offers(p, TASK_FS) => buffer[p].source = p /\ Asked(buffer[p])
    /\ FsTakes =>
          \/ Asked(buffer[TASK_FS])
          \/ \E p \in User : buffer[TASK_FS] = LineMessage(p) /\ asked[p] = "READ"
    /\ FsWorks /\ ~Suspended => Asked(fs_msg)
    /\ Offers(TASK_FS, TASK_TTY) => buffer[TASK_FS] = DriverRequest
    /\ TtyTakes => buffer[TASK_TTY] = DriverRequest
    /\ TtyReplies => buffer[TASK_TTY] = DriverAnswer
    /\ FsReplied => buffer[TASK_FS] = DriverAnswer
    /\ TtyAsks => buffer[TASK_TTY] = LineMessage(reader)
    /\ \A p \in User : Offers(TASK_FS, p) => Answer(buffer[TASK_FS], p)
    /\ \A p \in User : Answered(p) => Answer(buffer[p], p)

\* The reader of a terminal is a process in a read, and its line is as long as
\* the terminal says.
Readers ==
    \A d \in Tty : HasReader(d) =>
        LET p == tty[d].process_index
        IN  /\ p \in User /\ TtyOf[p] = d /\ asked[p] = "READ"
            /\ tty[d].caller = TASK_FS
            /\ Len(line[p]) = tty[d].trans_count
            /\ tty[d].trans_count + tty[d].bytes_left <= MaxCount

\* The line of a process is in its memory; only a read has one, and only when
\* the terminal has taken it.
LineFits(p) ==
    /\ DOMAIN line[p] \subseteq 1..MaxCount
    /\ \A i \in DOMAIN line[p] : text[p][i] = line[p][i]
    /\ asked[p] # "READ" \/ Offers(p, TASK_FS) \/ FsRequest(p) => line[p] = <<>>
    /\ asked[p] # "READ" => text[p] = [i \in 1..MaxCount |-> NoChar]

Runs ==
    /\ Partners /\ TtyInStep /\ FsInStep /\ Together
    /\ \A p \in User : UserInStep(p) /\ InOnePlace(p) /\ LineFits(p)
    /\ Messages /\ Readers

\* After a panic nothing runs any more, and this is what is left.
TIInv ==
    /\ KernelInv /\ TTypeOK
    /\ \A p \in User : Offers(TASK_FS, p) => phase[p] # "idle"
    /\ ~panicked => Runs

-----------------------------------------------------------------------------
(* The processes and their messages.                                       *)

\* The two tasks are processes, the others are users.
LEMMA Procs ==
    /\ TASK_TTY \in Proc /\ TASK_FS \in Proc /\ TASK_TTY # TASK_FS
    /\ User \subseteq Proc /\ TASK_TTY \notin User /\ TASK_FS \notin User
    /\ \A p \in Proc : p = TASK_TTY \/ p = TASK_FS \/ p \in User
    /\ SR_TARGET_NONE \notin Proc /\ SR_TARGET_ANY \notin Proc
    /\ SR_TARGET_INTERRUPT \notin Proc
    /\ SR_TARGET_ANY # SR_TARGET_NONE
  BY TerminalAssumption, TargetAssumption DEF User, Sentinel

\* The bodies of the messages that are sent here.
LEMMA BodiesAre ==
    /\ Body = Bodies /\ HardInt \notin Body
    /\ \A type \in Call, d \in Tty, n \in 0..MaxCount :
          /\ Request(type, d, n) \in Body
          /\ \A p \in User : Msg(Driver[type], d, n, p) \in Body
    /\ \A n \in 0..MaxCount : Suspend(n) \in Body /\ SyscallRet(n) \in Body
    /\ \A n \in 0..MaxCount, p \in User : Resume(n, p) \in Body
  BY TerminalAssumption DEF Bodies

LEMMA Fields ==
    /\ \A type, d, n :
          /\ Request(type, d, n).type = type /\ Request(type, d, n).device = d
          /\ Request(type, d, n).count = n
    /\ \A type, d, n, p :
          /\ Msg(type, d, n, p).type = type /\ Msg(type, d, n, p).device = d
          /\ Msg(type, d, n, p).count = n /\ Msg(type, d, n, p).process_index = p
    /\ \A n : Suspend(n).type = "SUSPEND_PROC" /\ Suspend(n).count = n
    /\ \A n : SyscallRet(n).type = "SYSCALL_RET" /\ SyscallRet(n).count = n
    /\ \A n, p : /\ Resume(n, p).type = "RESUME_PROC" /\ Resume(n, p).count = n
                 /\ Resume(n, p).process_index = p
    /\ Driver["OPEN"] = "DEVOPEN" /\ Driver["READ"] = "DEVREAD"
    /\ Driver["WRITE"] = "DEVWRITE"
  BY DEF Request, Msg, Suspend, SyscallRet, Resume, Driver

\* A process is free, or blocked sending to one process, or waits for one.
LEMMA Exclusive ==
    ASSUME KernelInv, NEW p \in Proc
    PROVE  /\ Free(p) => \A x : ~Waiting(p, x) /\ ~Offers(p, x)
           /\ \A x : Offers(p, x) =>
                 ~Free(p) /\ \A y : ~Waiting(p, y) /\ (Offers(p, y) => y = x)
           /\ \A x : Waiting(p, x) =>
                 ~Free(p) /\ \A y : ~Offers(p, y) /\ (Waiting(p, y) => y = x)
  BY NotSending DEF Offers, Waiting

\* Nothing is different for the messages and the lines when task_tty does not
\* take or give anything: it may be somewhere else, and look at another terminal.
LEMMA SameRuns ==
    ASSUME Runs, Partners', TtyInStep',
           UNCHANGED <<fs_pc, fs_msg, phase, asked, text, line>>,
           \A d \in Tty : HasReader(d)' <=> HasReader(d),
           \A d \in Tty : HasReader(d) => UNCHANGED tty[d],
           \A x \in Proc \ {TASK_TTY} : Free(x)' <=> Free(x),
           \A x \in Proc \ {TASK_TTY}, y \in Proc \cup {SR_TARGET_ANY} :
              Waiting(x, y)' <=> Waiting(x, y),
           \A x \in Proc \ {TASK_TTY} : buffer'[x] = buffer[x],
           \A x, y \in Proc : Offers(x, y)' <=> Offers(x, y),
           TtyTakes' <=> TtyTakes, TtyReplies' <=> TtyReplies, TtyAsks' <=> TtyAsks,
           TtyAsks => UNCHANGED reader,
           TtyTakes \/ TtyReplies \/ TtyAsks => buffer'[TASK_TTY] = buffer[TASK_TTY]
    PROVE  Runs'
  <1>1. /\ FsTakes' <=> FsTakes
        /\ FsWorks' <=> FsWorks
        /\ FsAwaits' <=> FsAwaits
        /\ FsReplied' <=> FsReplied
    BY Procs DEF FsTakes, FsWorks, FsAwaits, FsReplied
  <1>2. buffer'[TASK_FS] = buffer[TASK_FS] /\ \A p \in User : buffer'[p] = buffer[p]
    BY Procs
  <1>3. FsInStep' /\ Together'
    BY <1>1, Procs DEF Runs, FsInStep, Together
  <1>4. \A p \in User : TtyOf[p] \in Tty
    BY TerminalAssumption
  <1>5. \A p \in User : TtyHolds(p)' <=> TtyHolds(p)
    BY <1>4 DEF TtyHolds
  <1>6. \A p \in User : Answered(p)' <=> Answered(p)
    BY Procs DEF Answered
  <1>7. \A p \in User : FsRequest(p)' <=> FsRequest(p)
    BY <1>1, <1>2 DEF FsRequest, Suspended
  <1>8. \A p : UNCHANGED LineMessage(p)
    BY DEF LineMessage
  <1>9. \A p \in User : FsHolds(p)' <=> FsHolds(p)
    BY <1>1, <1>2, <1>7, <1>8, Procs DEF FsHolds
  <1>10. \A p \in User : UserInStep(p)' /\ InOnePlace(p)' /\ LineFits(p)'
    <2> SUFFICES ASSUME NEW p \in User
                 PROVE  UserInStep(p)' /\ InOnePlace(p)' /\ LineFits(p)'
      OBVIOUS
    <2>1. /\ p \in Proc \ {TASK_TTY} /\ TASK_FS \in Proc
          /\ UserInStep(p) /\ InOnePlace(p) /\ LineFits(p)
      BY Procs DEF Runs
    <2>2. /\ Free(p)' <=> Free(p)
          /\ Waiting(p, TASK_FS)' <=> Waiting(p, TASK_FS)
          /\ Offers(p, TASK_FS)' <=> Offers(p, TASK_FS)
      BY <2>1
    <2>3. UserInStep(p)'
      BY <2>1, <2>2 DEF UserInStep
    <2>4. InOnePlace(p)'
      BY <2>1, <2>2, <1>5, <1>6, <1>9 DEF InOnePlace
    <2>5. LineFits(p)'
      BY <2>1, <2>2, <1>7 DEF LineFits
    <2> QED BY <2>3, <2>4, <2>5
  <1>11. /\ \A m : Asked(m)' <=> Asked(m)
         /\ \A m, p : Answer(m, p)' <=> Answer(m, p)
         /\ UNCHANGED <<DriverRequest, DriverAnswer>>
    BY DEF Asked, Answer, LineMessage, DriverRequest, DriverAnswer
  <1>12. Messages'
    <2>1. Suspended' <=> Suspended
      BY <1>1 DEF Suspended
    <2> QED BY <1>1, <1>2, <1>6, <1>8, <1>11, <2>1, Procs DEF Runs, Messages
  <1>13. Readers'
    BY DEF Runs, Readers
  <1> QED BY <1>3, <1>10, <1>12, <1>13 DEF Runs

-----------------------------------------------------------------------------
(* The keyboard, the clock, and task_tty between its messages.             *)

\* The terminal that task_tty looks at is one of the table.
LEMMA Polled ==
    ASSUME TTypeOK
    PROVE  /\ Len(ttys_table) \in Nat /\ at \in Nat
           /\ at <= Len(ttys_table) => polled \in Tty /\ at + 1 \in 1..Len(ttys_table) + 1
  <1>1. Len(ttys_table) \in Nat /\ DOMAIN ttys_table = 1..Len(ttys_table)
    BY TerminalAssumption
  <1>2. at \in 1..Len(ttys_table) + 1
    BY DEF TTypeOK
  <1> QED BY <1>1, <1>2 DEF polled, Tty

\* At the start nobody has called and nobody has typed.
LEMMA InitTIInv == TInit => TIInv
  <1> SUFFICES ASSUME TInit PROVE TIInv
    OBVIOUS
  <1>1. KernelInv /\ TypeOK
    BY InitIInv DEF TInit, IInv
  <1>2. /\ \A p \in Proc : process_flags[p] = {} /\ ~has_int_msg[p]
                           /\ pending[p] = SR_TARGET_NONE
        /\ ~panicked
    BY DEF TInit, Init
  <1>3. /\ tty = [d \in Tty |-> [caller |-> SR_TARGET_NONE,
                                 process_index |-> SR_TARGET_NONE,
                                 bytes_left |-> 0, trans_count |-> 0]]
        /\ tty_pc = "poll" /\ at = 1 /\ current = ttys_table[1]
        /\ keys = <<>> /\ tty_key_pressed = FALSE
        /\ fs_pc = "receive" /\ fs_msg = NoMsg
        /\ phase = [p \in User |-> "idle"]
        /\ asked = [p \in User |-> "NONE"]
        /\ text = [p \in User |-> [i \in 1..MaxCount |-> NoChar]]
        /\ line = [p \in User |-> <<>>]
    BY DEF TInit
  <1>4. TTypeOK
    <2>1. /\ Len(ttys_table) \in Nat \ {0} /\ DOMAIN ttys_table = 1..Len(ttys_table)
      BY TerminalAssumption
    <2>2. current \in Tty /\ at \in 1..Len(ttys_table) + 1
      <3>1. 1 \in DOMAIN ttys_table
        BY <2>1
      <3> QED BY <1>3, <2>1, <3>1 DEF Tty
    <2>3. fs_msg \in Message
      BY <1>3, Procs DEF NoMsg, Message
    <2>4. MaxCount \in Nat /\ KEYBOARD_IN_BUFFERSIZE \in Nat
      BY TerminalAssumption
    <2>5. keys \in Seq(Key) /\ Len(keys) <= KEYBOARD_IN_BUFFERSIZE
      <3>1. Len(<<>>) = 0 /\ <<>> \in Seq(Key)
        BY EmptySeq
      <3> QED BY <1>3, <2>4, <3>1
    <2>6. tty \in [Tty -> [caller : {TASK_FS, SR_TARGET_NONE},
                           process_index : User \cup {SR_TARGET_NONE},
                           bytes_left : 0..MaxCount, trans_count : 0..MaxCount]]
      <3>1. 0 \in 0..MaxCount
        BY <2>4
      <3> QED BY <1>3, <3>1
    <2>7. /\ phase \in [User -> {"idle", "called", "receiving"}]
          /\ asked \in [User -> Call \cup {"NONE"}]
      BY <1>3
    <2>8. text \in [User -> [1..MaxCount -> Char \cup {NoChar}]]
      BY <1>3
    <2>9. line \in [User -> Seq(Char)]
      <3>1. <<>> \in Seq(Char)
        BY EmptySeq
      <3> QED BY <1>3, <3>1
    <2> QED BY <1>1, <1>3, <2>2, <2>3, <2>5, <2>6, <2>7, <2>8, <2>9 DEF TTypeOK
  <1>5. \A p \in Proc : Free(p) /\ \A q : ~Offers(p, q) /\ ~Waiting(p, q)
    BY <1>2 DEF Free, Offers, Sending, Waiting
  <1>6. /\ ~TtyTakes /\ ~TtyReplies /\ ~TtyAsks /\ ~FsTakes /\ ~FsWorks
        /\ ~FsAwaits /\ ~FsReplied
    BY <1>3, <1>5, Procs
    DEF TtyTakes, TtyReplies, TtyAsks, FsTakes, FsWorks, FsAwaits, FsReplied
  <1>7. \A d \in Tty : ~HasReader(d)
    BY <1>3 DEF HasReader
  <1>8. Partners
    BY <1>2, <1>3, <1>5, Procs DEF Partners
  <1>9. TtyInStep /\ FsInStep /\ Together
    BY <1>3, <1>5, <1>6, Procs DEF TtyInStep, FsInStep, Together
  <1>10. ASSUME NEW p \in User
         PROVE  UserInStep(p) /\ InOnePlace(p) /\ LineFits(p)
    <2>1. p \in Proc /\ TtyOf[p] \in Tty /\ MaxCount \in Nat
      BY Procs, TerminalAssumption
    <2>2. UserInStep(p)
      BY <1>3, <1>5, <2>1 DEF UserInStep
    <2>3. InOnePlace(p)
      BY <1>3, <1>5, <1>6, <1>7, <2>1, Procs
      DEF InOnePlace, FsHolds, FsRequest, TtyHolds
    <2>4. LineFits(p)
      <3>1. line[p] = <<>> /\ text[p] = [i \in 1..MaxCount |-> NoChar]
        BY <1>3
      <3> QED BY <3>1, EmptySeq DEF LineFits
    <2> QED BY <2>2, <2>3, <2>4
  <1>11. Messages
    BY <1>3, <1>5, <1>6, Procs DEF Messages, Answered
  <1>12. Readers
    BY <1>7 DEF Readers
  <1> QED BY <1>1, <1>2, <1>4, <1>5, <1>8, <1>9, <1>10, <1>11, <1>12, Procs DEF TIInv, Runs

\* What follows when nothing of Ipc changes.
LEMMA SameVars ==
    ASSUME UNCHANGED vars
    PROVE  /\ UNCHANGED <<process_flags, msg, recvfrom, sendto, has_int_msg, sending>>
           /\ UNCHANGED <<buffer, pending, panicked>>
           /\ \A x : Free(x)' <=> Free(x)
           /\ \A x, y : Waiting(x, y)' <=> Waiting(x, y)
           /\ \A x, y : Offers(x, y)' <=> Offers(x, y)
           /\ TypeOK => TypeOK'
           /\ KernelInv => KernelInv'
  <1>1. /\ UNCHANGED <<process_flags, msg, recvfrom, sendto, has_int_msg, sending>>
        /\ UNCHANGED <<buffer, pending, panicked>>
    BY DEF vars, kernelVars
  <1>2. TypeOK => TypeOK'
    BY <1>1 DEF TypeOK, KernelTypeOK
  <1>3. KernelInv => KernelInv'
    BY <1>1 DEF KernelInv, KernelTypeOK, QueueExact, StatusConsistent,
                NoMissedRendezvous, NoMissedInterrupt, NoSendCycle, Sending,
                Receiving, WaitsFor
  <1> QED BY <1>1, <1>2, <1>3 DEF Free, Waiting, Offers, Sending

\* The keyboard, and task_tty when it takes no key of a line, go on alone.
LEMMA GoesOnAlone ==
    ASSUME TIInv, TTypeOK', UNCHANGED <<vars, tty, tty_pc, fsVars, userVars>>,
           tty_pc = "poll" \/ at' = at
    PROVE  TIInv'
  <1>1. UNCHANGED <<fs_pc, fs_msg, phase, asked, text, line>>
    BY DEF fsVars, userVars
  <1>2. /\ TtyTakes' <=> TtyTakes
        /\ TtyReplies' <=> TtyReplies
        /\ TtyAsks' <=> TtyAsks
    BY SameVars DEF TtyTakes, TtyReplies, TtyAsks
  <1>3. TtyAsks => UNCHANGED reader
    BY DEF TtyAsks, reader, polled
  <1>4. \A d : HasReader(d)' <=> HasReader(d)
    BY SameVars DEF HasReader, polled
  <1>5. Runs => Runs'
    <2> SUFFICES ASSUME Runs PROVE Runs'
      OBVIOUS
    <2>1. Partners' /\ TtyInStep'
      BY <1>1, SameVars DEF Runs, Partners, TtyInStep
    <2> QED BY <1>1, <1>2, <1>3, <1>4, <2>1, SameVars, SameRuns
  <1> QED BY <1>1, <1>5, SameVars DEF TIInv

\* The interrupt handler of the keyboard.
LEMMA KeyboardKeeps ==
    ASSUME TIInv, NEW key \in Key, keyboard_handler(key)
    PROVE  TIInv'
  <1>1. /\ UNCHANGED <<vars, tty, tty_pc, at, current, fsVars, userVars>>
        /\ keys' = IF Len(keys) < KEYBOARD_IN_BUFFERSIZE
                   THEN Append(keys, key) ELSE keys
        /\ tty_key_pressed' = TRUE
    BY DEF keyboard_handler, ttyVars
  <1>2. KEYBOARD_IN_BUFFERSIZE \in Nat /\ keys \in Seq(Key)
        /\ Len(keys) <= KEYBOARD_IN_BUFFERSIZE
    BY TerminalAssumption DEF TIInv, TTypeOK
  <1>3. keys' \in Seq(Key) /\ Len(keys') <= KEYBOARD_IN_BUFFERSIZE
    BY <1>1, <1>2
  <1>4. TTypeOK'
    BY <1>1, <1>3, SameVars DEF TIInv, TTypeOK, fsVars, userVars
  <1> QED BY <1>1, <1>4, GoesOnAlone

\* task_tty goes on to the next terminal.
LEMMA PollsKeep ==
    ASSUME TIInv, TtyIdle \/ console_select \/ IgnoresKey
    PROVE  TIInv'
  <1>1. /\ UNCHANGED <<vars, tty, tty_pc, fsVars, userVars>>
        /\ tty_pc = "poll" /\ at <= Len(ttys_table) /\ at' = at + 1
        /\ UNCHANGED current \/ current' \in Tty
        /\ UNCHANGED keys \/ (keys # <<>> /\ keys' = Tail(keys))
        /\ UNCHANGED tty_key_pressed
    BY DEF TtyIdle, console_select, IgnoresKey, TakesKey, Polls, keyVars, userVars
  <1>2. KEYBOARD_IN_BUFFERSIZE \in Nat /\ keys \in Seq(Key)
        /\ Len(keys) <= KEYBOARD_IN_BUFFERSIZE /\ TTypeOK
    BY TerminalAssumption DEF TIInv, TTypeOK
  <1>3. keys' \in Seq(Key) /\ Len(keys') <= KEYBOARD_IN_BUFFERSIZE
    BY <1>1, <1>2, HeadTailProperties
  <1>4. at' \in 1..Len(ttys_table) + 1
    BY <1>1, <1>2, Polled
  <1>5. TTypeOK'
    BY <1>1, <1>2, <1>3, <1>4, SameVars DEF TTypeOK, fsVars, userVars
  <1> QED BY <1>1, <1>5, GoesOnAlone

\* A stuttering step.
LEMMA StutterKeeps ==
    ASSUME TIInv, UNCHANGED tvars
    PROVE  TIInv'
  <1>1. /\ UNCHANGED <<vars, tty, tty_pc, at, current, keys, tty_key_pressed>>
        /\ UNCHANGED <<fsVars, userVars>>
    BY DEF tvars, ttyVars, keyVars
  <1>2. TTypeOK'
    BY <1>1, SameVars DEF TIInv, TTypeOK, fsVars, userVars
  <1> QED BY <1>1, <1>2, GoesOnAlone

\* task_tty has been told of a key, and looks for it.
LEMMA HardIntKeeps ==
    ASSUME TIInv, TtyHardInt
    PROVE  TIInv'
  <1>1. /\ UNCHANGED <<vars, tty, current, keys, fs_pc, fs_msg>>
        /\ UNCHANGED <<phase, asked, text, line>>
        /\ tty_pc = "handle" /\ tty_pc' = "poll" /\ at' = 1
        /\ tty_key_pressed' = FALSE
        /\ ~panicked /\ Free(TASK_TTY) /\ buffer[TASK_TTY].body = HardInt
    BY DEF TtyHardInt, Handles, Runnable, Free, fsVars, userVars
  <1>2. KernelInv /\ TTypeOK /\ Runs
    BY <1>1 DEF TIInv
  <1>3. TTypeOK'
    <2>1. at' \in 1..Len(ttys_table) + 1
      BY <1>1, <1>2, Polled
    <2> QED BY <1>1, <1>2, <2>1, SameVars DEF TTypeOK
  <1>4. ~Offers(TASK_TTY, TASK_FS)
    BY <1>1, <1>2, Exclusive, Procs
  <1>5. /\ ~TtyTakes /\ ~TtyReplies /\ ~TtyAsks
        /\ ~TtyTakes' /\ ~TtyReplies' /\ ~TtyAsks'
    BY <1>1, <1>4, SameVars DEF TtyTakes, TtyReplies, TtyAsks
  <1>6. \A d : HasReader(d)' <=> HasReader(d)
    BY <1>1 DEF HasReader
  <1>7. Partners' /\ TtyInStep'
    BY <1>1, <1>2, SameVars DEF Runs, Partners, TtyInStep
  <1>8. Runs'
    BY <1>1, <1>2, <1>5, <1>6, <1>7, SameVars, SameRuns
  <1> QED BY <1>1, <1>2, <1>3, <1>8, SameVars DEF TIInv

\* The request for the reader is through.
LEMMA ResumedKeeps ==
    ASSUME TIInv, TtyResumed
    PROVE  TIInv'
  <1>1. /\ UNCHANGED <<vars, current, keys, tty_key_pressed, fs_pc, fs_msg>>
        /\ UNCHANGED <<phase, asked, text, line>>
        /\ tty_pc = "resumed" /\ tty_pc' = "poll" /\ at' = at + 1
        /\ tty' = [tty EXCEPT ![polled].bytes_left = 0]
        /\ ~panicked /\ Free(TASK_TTY)
    BY DEF TtyResumed, Runnable, Free, keyVars, fsVars, userVars
  <1>2. KernelInv /\ TTypeOK /\ Runs
    BY <1>1 DEF TIInv
  <1>3. at <= Len(ttys_table) /\ polled \in Tty
    BY <1>1, <1>2, Polled DEF Runs, TtyInStep
  <1>4. TTypeOK'
    <2>1. at' \in 1..Len(ttys_table) + 1
      BY <1>1, <1>2, <1>3, Polled
    <2>2. 0 \in 0..MaxCount
      BY TerminalAssumption
    <2>3. tty' \in [Tty -> [caller : {TASK_FS, SR_TARGET_NONE},
                            process_index : User \cup {SR_TARGET_NONE},
                            bytes_left : 0..MaxCount, trans_count : 0..MaxCount]]
      BY <1>1, <1>2, <1>3, <2>2 DEF TTypeOK
    <2> QED BY <1>1, <1>2, <2>1, <2>3, SameVars DEF TTypeOK
  <1>5. ~Offers(TASK_TTY, TASK_FS)
    BY <1>1, <1>2, Exclusive, Procs
  <1>6. /\ ~TtyTakes /\ ~TtyReplies /\ ~TtyAsks
        /\ ~TtyTakes' /\ ~TtyReplies' /\ ~TtyAsks'
    BY <1>1, <1>5, SameVars DEF TtyTakes, TtyReplies, TtyAsks
  <1>7. /\ tty'[polled].bytes_left = 0
        /\ \A d \in Tty \ {polled} : tty'[d] = tty[d]
    BY <1>1, <1>2, <1>3 DEF TTypeOK
  <1>8. /\ \A d \in Tty : HasReader(d)' <=> HasReader(d)
        /\ \A d \in Tty : HasReader(d) => UNCHANGED tty[d]
    BY <1>1, <1>5, <1>7 DEF HasReader
  <1>9. Partners' /\ TtyInStep'
    BY <1>1, <1>2, SameVars DEF Runs, Partners, TtyInStep
  <1>10. Runs'
    BY <1>1, <1>2, <1>6, <1>8, <1>9, SameVars, SameRuns
  <1> QED BY <1>1, <1>2, <1>4, <1>10, SameVars DEF TIInv

\* The clock passes the news of a key on.
LEMMA ClockKeeps ==
    ASSUME TIInv, clock_handler
    PROVE  TIInv'
  <1>1. /\ UNCHANGED <<tty, tty_pc, at, current, keys, tty_key_pressed, fs_pc, fs_msg>>
        /\ UNCHANGED <<phase, asked, text, line, pending, panicked>>
        /\ ~panicked /\ process_inform_interrupt(TASK_TTY)
    BY DEF clock_handler, Interrupt, ttyVars, keyVars, fsVars, userVars
  <1>2. KernelInv /\ TTypeOK /\ Runs
    BY <1>1 DEF TIInv
  <1>3. /\ KernelInv'
        /\ \A x \in Proc \ {TASK_TTY} :
              buffer'[x] = buffer[x] /\ has_int_msg'[x] = has_int_msg[x]
        /\ \A x, y \in Proc : Offers(x, y)' <=> Offers(x, y)
        /\ \/ /\ Waiting(TASK_TTY, SR_TARGET_ANY) \/ Waiting(TASK_TTY, SR_TARGET_INTERRUPT)
              /\ Free(TASK_TTY)' /\ SameBut(TASK_TTY)
              /\ buffer'[TASK_TTY] = [source |-> SR_TARGET_INTERRUPT, body |-> HardInt]
           \/ /\ UNCHANGED buffer
              /\ \A x : Free(x)' <=> Free(x)
              /\ \A x, y : Waiting(x, y)' <=> Waiting(x, y)
    BY <1>1, <1>2, InformOutcome, Procs
  <1>4. TTypeOK'
    BY <1>1, <1>2, <1>3 DEF KernelInv, TTypeOK, TypeOK
  <1>5. /\ \A x \in Proc \ {TASK_TTY} : Free(x)' <=> Free(x)
        /\ \A x \in Proc \ {TASK_TTY} : \A y : Waiting(x, y)' <=> Waiting(x, y)
    BY <1>3 DEF SameBut
  <1>6. ASSUME Waiting(TASK_TTY, SR_TARGET_ANY) \/ Waiting(TASK_TTY, SR_TARGET_INTERRUPT)
        PROVE  /\ tty_pc = "handle" /\ ~Free(TASK_TTY)
               /\ ~Offers(TASK_TTY, TASK_FS)
    BY <1>2, <1>6, Exclusive, Procs DEF Runs, TtyInStep
  <1>7. /\ TtyTakes' <=> TtyTakes
        /\ TtyReplies' <=> TtyReplies
        /\ TtyAsks' <=> TtyAsks
        /\ TtyTakes \/ TtyReplies \/ TtyAsks => buffer'[TASK_TTY] = buffer[TASK_TTY]
    BY <1>1, <1>3, <1>6, Procs DEF TtyTakes, TtyReplies, TtyAsks
  <1>8. \A d \in Tty : HasReader(d)' <=> HasReader(d)
    BY <1>1, <1>3, Procs DEF HasReader, polled
  <1>9. UNCHANGED reader
    BY <1>1 DEF reader, polled
  <1>10. Partners'
    BY <1>1, <1>2, <1>3 DEF Runs, Partners
  <1>11. TtyInStep'
    BY <1>1, <1>2, <1>3, <1>6, Procs DEF Runs, TtyInStep
  <1>12. Runs'
    BY <1>1, <1>2, <1>3, <1>5, <1>7, <1>8, <1>9, <1>10, <1>11, SameRuns
  <1> QED BY <1>1, <1>2, <1>3, <1>4, <1>12, Procs DEF TIInv, Runs

-----------------------------------------------------------------------------
(* The keys of a line.                                                     *)

\* The message for a complete line is none of a process.
LEMMA LineIsNoCall ==
    ASSUME NEW m, NEW p, NEW n, m.body = Resume(n, p)
    PROVE  ~Asked(m)
  <1>1. m.body.type = "RESUME_PROC"
    BY Fields
  <1>2. ASSUME Asked(m) PROVE FALSE
    <2>1. PICK k \in 0..MaxCount :
             /\ <<asked[m.source], k>> \in Program[m.source]
             /\ m.body = Request(asked[m.source], TtyOf[m.source], k)
      BY <1>2 DEF Asked
    <2>2. asked[m.source] \in Call
      BY <1>2, <2>1, TerminalAssumption DEF Asked
    <2> QED BY <1>1, <2>1, <2>2, Fields DEF Call
  <1> QED BY <1>2

\* The reader of a terminal is in nobody else's hands.
LEMMA ReaderIsHeld ==
    ASSUME Runs, NEW d \in Tty, HasReader(d), NEW p, p = tty[d].process_index
    PROVE  /\ p \in User /\ TtyOf[p] = d /\ asked[p] = "READ" /\ phase[p] # "idle"
           /\ TtyHolds(p) /\ ~FsHolds(p) /\ ~FsRequest(p)
           /\ ~Offers(p, TASK_FS) /\ ~Offers(TASK_FS, p) /\ ~Answered(p)
           /\ \A n : FsTakes => buffer[TASK_FS].body # Resume(n, p)
  <1>1. p \in User /\ TtyOf[p] = d /\ asked[p] = "READ"
    BY DEF Runs, Readers
  <1>2. TtyHolds(p)
    BY <1>1 DEF TtyHolds
  <1>3. InOnePlace(p)
    BY <1>1 DEF Runs
  <1>4. /\ phase[p] # "idle" /\ ~FsHolds(p)
        /\ ~Offers(p, TASK_FS) /\ ~Answered(p)
    BY <1>2, <1>3 DEF InOnePlace
  <1>5. ~Offers(TASK_FS, p) /\ ~FsRequest(p)
    BY <1>4 DEF FsHolds
  <1>6. ASSUME NEW n, FsTakes, buffer[TASK_FS].body = Resume(n, p)
        PROVE  FALSE
    <2>1. ~Asked(buffer[TASK_FS])
      BY <1>6, LineIsNoCall
    <2>2. PICK q \in User : buffer[TASK_FS] = LineMessage(q)
      BY <1>6, <2>1 DEF Runs, Messages
    <2>3. buffer[TASK_FS].body = Resume(Len(line[q]), q)
      BY <2>2 DEF LineMessage
    <2>4. Resume(n, p).process_index = p /\ Resume(Len(line[q]), q).process_index = q
      BY Fields
    <2>5. q = p
      BY <1>6, <2>3, <2>4
    <2> QED BY <1>4, <1>6, <2>2, <2>5 DEF FsHolds
  <1> QED BY <1>1, <1>2, <1>4, <1>5, <1>6

\* What a key does to the line of the reader: the terminal still knows its
\* length, and it is in the memory of the reader.
Edited ==
    /\ \A d \in Tty \ {polled} : tty'[d] = tty[d]
    /\ tty'[polled].caller = tty[polled].caller
    /\ tty'[polled].process_index = tty[polled].process_index
    /\ tty'[polled].trans_count + tty'[polled].bytes_left <= MaxCount
    /\ \A p \in User \ {reader} : line'[p] = line[p] /\ text'[p] = text[p]
    /\ Len(line'[reader]) = tty'[polled].trans_count
    /\ DOMAIN line'[reader] \subseteq 1..MaxCount
    /\ \A i \in DOMAIN line'[reader] : text'[reader][i] = line'[reader][i]

\* The line goes on.
LEMMA LineGoesOn ==
    ASSUME TIInv, TTypeOK', Polls, at' = at + 1, tty[polled].bytes_left > 0,
           UNCHANGED <<vars, tty_pc, fs_pc, fs_msg, phase, asked>>,
           Edited, tty'[polled].bytes_left > 0
    PROVE  TIInv'
  <1>1. /\ tty_pc = "poll" /\ at <= Len(ttys_table) /\ Free(TASK_TTY) /\ ~panicked
    BY DEF Polls, Runnable, Free
  <1>2. KernelInv /\ TTypeOK /\ Runs
    BY <1>1 DEF TIInv
  <1>3. polled \in Tty
    BY <1>1, <1>2, Polled
  <1>4. /\ ~TtyTakes /\ ~TtyReplies /\ ~TtyAsks
        /\ ~TtyTakes' /\ ~TtyReplies' /\ ~TtyAsks'
    BY <1>1, <1>2, Exclusive, SameVars, Procs DEF TtyTakes, TtyReplies, TtyAsks
  <1>5. HasReader(polled)
    BY <1>1 DEF HasReader
  <1>6. /\ reader \in User /\ TtyOf[reader] = polled /\ asked[reader] = "READ"
        /\ phase[reader] # "idle"
        /\ TtyHolds(reader) /\ ~FsHolds(reader) /\ ~FsRequest(reader)
        /\ ~Offers(reader, TASK_FS) /\ ~Offers(TASK_FS, reader) /\ ~Answered(reader)
        /\ \A n : FsTakes => buffer[TASK_FS].body # Resume(n, reader)
    BY <1>2, <1>3, <1>5, ReaderIsHeld DEF reader
  <1>7. /\ \A d \in Tty : HasReader(d)' <=> HasReader(d)
        /\ \A d \in Tty : tty'[d].process_index = tty[d].process_index
        /\ \A d \in Tty : tty'[d].caller = tty[d].caller
    BY <1>1, <1>3, <1>5 DEF HasReader, Edited
  <1>8. /\ FsTakes' <=> FsTakes
        /\ FsWorks' <=> FsWorks
        /\ FsAwaits' <=> FsAwaits
        /\ FsReplied' <=> FsReplied
    BY SameVars DEF FsTakes, FsWorks, FsAwaits, FsReplied
  <1>9. Partners' /\ TtyInStep' /\ FsInStep' /\ Together'
    BY <1>1, <1>2, <1>4, <1>8, SameVars
    DEF Runs, Partners, TtyInStep, FsInStep, Together
  <1>10. \A p \in User : TtyHolds(p)' <=> TtyHolds(p)
    <2>1. \A p \in User : TtyOf[p] \in Tty
      BY TerminalAssumption
    <2> QED BY <1>7, <2>1 DEF TtyHolds
  <1>11. \A p \in User : FsRequest(p)' <=> FsRequest(p)
    BY <1>4, <1>8, SameVars DEF FsRequest, Suspended
  <1>12. \A p \in User : FsTakes => (buffer[TASK_FS] = LineMessage(p)' <=>
                                     buffer[TASK_FS] = LineMessage(p))
    <2> SUFFICES ASSUME NEW p \in User, FsTakes
                 PROVE  buffer[TASK_FS] = LineMessage(p)' <=> buffer[TASK_FS] = LineMessage(p)
      OBVIOUS
    <2>1. CASE p = reader
      <3>1. \A n : buffer[TASK_FS] # [source |-> TASK_TTY, body |-> Resume(n, p)]
        BY <1>6, <2>1
      <3> QED BY <3>1 DEF LineMessage
    <2>2. CASE p # reader
      BY <2>2 DEF Edited, LineMessage
    <2> QED BY <2>1, <2>2
  <1>13. \A p \in User : FsHolds(p)' <=> FsHolds(p)
    BY <1>8, <1>11, <1>12, SameVars DEF FsHolds
  <1>14. \A p \in User : Answered(p)' <=> Answered(p)
    BY SameVars DEF Answered
  <1>15. ASSUME NEW p \in User
         PROVE  UserInStep(p)' /\ InOnePlace(p)' /\ LineFits(p)'
    <2>1. UserInStep(p) /\ InOnePlace(p) /\ LineFits(p)
      BY <1>2 DEF Runs
    <2>2. UserInStep(p)'
      BY <2>1, SameVars DEF UserInStep
    <2>3. InOnePlace(p)'
      BY <2>1, <1>10, <1>13, <1>14, SameVars DEF InOnePlace
    <2>4. LineFits(p)'
      <3>1. CASE p = reader
        BY <3>1, <1>6, <1>11, SameVars DEF Edited, LineFits
      <3>2. CASE p # reader
        BY <3>2, <2>1, <1>11, SameVars DEF Edited, LineFits
      <3> QED BY <3>1, <3>2
    <2> QED BY <2>2, <2>3, <2>4
  <1>16. /\ \A m : Asked(m)' <=> Asked(m)
         /\ \A m, p : p \in User \ {reader} => (Answer(m, p)' <=> Answer(m, p))
         /\ UNCHANGED <<DriverRequest, DriverAnswer>>
    BY DEF Asked, Answer, DriverRequest, DriverAnswer, Edited
  <1>17. Messages'
    <2>1. Suspended' <=> Suspended
      BY <1>4, <1>8 DEF Suspended
    <2> QED BY <1>2, <1>4, <1>6, <1>8, <1>12, <1>14, <1>16, <2>1, SameVars DEF Runs, Messages
  <1>18. Readers'
    <2> SUFFICES ASSUME NEW d \in Tty, HasReader(d)'
                 PROVE  LET p == tty'[d].process_index
                        IN  /\ p \in User /\ TtyOf[p] = d /\ asked[p] = "READ"
                            /\ tty'[d].caller = TASK_FS
                            /\ Len(line'[p]) = tty'[d].trans_count
                            /\ tty'[d].trans_count + tty'[d].bytes_left <= MaxCount
      BY DEF Readers
    <2>1. /\ HasReader(d)
          /\ LET p == tty[d].process_index
             IN  /\ p \in User /\ TtyOf[p] = d /\ asked[p] = "READ"
                 /\ tty[d].caller = TASK_FS
                 /\ Len(line[p]) = tty[d].trans_count
                 /\ tty[d].trans_count + tty[d].bytes_left <= MaxCount
      BY <1>2, <1>7 DEF Runs, Readers
    <2>2. CASE d = polled
      BY <1>6, <1>7, <2>1, <2>2 DEF Edited, reader
    <2>3. CASE d # polled
      <3>1. tty[d].process_index # reader /\ tty'[d] = tty[d]
        BY <1>6, <2>1, <2>3 DEF Edited
      <3> QED BY <2>1, <3>1 DEF Edited
    <2> QED BY <2>2, <2>3
  <1> QED BY <1>2, <1>9, <1>15, <1>17, <1>18, SameVars DEF TIInv, Runs

\* The line is complete: task_tty asks the file system to resume the reader.
LEMMA LineCompletes ==
    ASSUME TIInv, TypeOK' => TTypeOK', Polls, tty[polled].bytes_left > 0,
           UNCHANGED <<at, fs_pc, fs_msg, phase, asked>>, tty_pc' = "resumed",
           Edited, NEW n \in 0..MaxCount, n = tty'[polled].trans_count,
           NEW r, r = reader, Send(TASK_TTY, TASK_FS, Resume(n, r))
    PROVE  TIInv'
  <1> DEFINE m == [source |-> TASK_TTY, body |-> Resume(n, r)]
  <1>1. /\ tty_pc = "poll" /\ at <= Len(ttys_table) /\ Free(TASK_TTY) /\ ~panicked
        /\ message_send(TASK_TTY, TASK_FS, m) /\ UNCHANGED pending
    BY DEF Polls, Runnable, Free, Send
  <1>2. KernelInv /\ TTypeOK /\ Runs
    BY <1>1 DEF TIInv
  <1>3. polled \in Tty /\ polled' = polled
    BY <1>1, <1>2, Polled DEF polled
  <1>4. ~TtyTakes /\ ~TtyReplies /\ ~TtyAsks /\ ~FsAwaits
    BY <1>1, <1>2, Exclusive, Procs DEF Runs, Together, TtyTakes, TtyReplies, TtyAsks
  <1>5. HasReader(polled)
    BY <1>1 DEF HasReader
  <1>6. /\ r \in User /\ TtyOf[r] = polled /\ asked[r] = "READ" /\ phase[r] # "idle"
        /\ TtyHolds(r) /\ ~FsHolds(r) /\ ~FsRequest(r)
        /\ ~Offers(r, TASK_FS) /\ ~Offers(TASK_FS, r) /\ ~Answered(r)
        /\ \A k : FsTakes => buffer[TASK_FS].body # Resume(k, r)
    BY <1>2, <1>3, <1>5, ReaderIsHeld DEF reader
  <1>7. m \in Message
    BY <1>6, BodiesAre, Procs DEF Message
  <1>8. Len(line'[r]) = n
    BY DEF Edited
  <1>9. /\ KernelInv'
        /\ UNCHANGED has_int_msg
        /\ buffer'[TASK_TTY] = m
        /\ \A p \in User : buffer'[p] = buffer[p]
        /\ \/ SendPanics(TASK_TTY, TASK_FS, m) /\ buffer'[TASK_FS] = buffer[TASK_FS]
           \/ /\ UNCHANGED panicked
              /\ Waiting(TASK_FS, TASK_TTY) \/ Waiting(TASK_FS, SR_TARGET_ANY)
              /\ Free(TASK_TTY)' /\ Free(TASK_FS)' /\ buffer'[TASK_FS] = m
              /\ SameBut(TASK_FS)
              /\ \A x, y \in Proc : Offers(x, y)' <=> Offers(x, y)
           \/ /\ UNCHANGED panicked
              /\ ~Waiting(TASK_FS, TASK_TTY) /\ ~Waiting(TASK_FS, SR_TARGET_ANY)
              /\ buffer'[TASK_FS] = buffer[TASK_FS]
              /\ SameBut(TASK_TTY)
              /\ \A x, y \in Proc :
                    Offers(x, y)' <=> Offers(x, y) \/ (x = TASK_TTY /\ y = TASK_FS)
    BY <1>1, <1>2, <1>7, SendResult, Procs
  <1>10. TTypeOK'
    BY <1>1, <1>2, <1>9 DEF TTypeOK, TypeOK, KernelInv
  <1>11. CASE SendPanics(TASK_TTY, TASK_FS, m)
    BY <1>9, <1>10, <1>11, SameIpc DEF SendPanics, TIInv
  <1>12. ASSUME ~SendPanics(TASK_TTY, TASK_FS, m)
         PROVE  /\ \A p \in User : Free(p)' <=> Free(p)
                /\ \A p \in User : \A y : Waiting(p, y)' <=> Waiting(p, y)
                /\ \A p \in User : Offers(p, TASK_FS)' <=> Offers(p, TASK_FS)
                /\ \A p \in User : Offers(TASK_FS, p)' <=> Offers(TASK_FS, p)
                /\ Offers(TASK_FS, TASK_TTY)' <=> Offers(TASK_FS, TASK_TTY)
                /\ UNCHANGED <<panicked, has_int_msg, pending>>
                /\ \A p \in User : Answered(p)' <=> Answered(p)
                /\ ~TtyTakes' /\ ~TtyReplies'
    <2>1. /\ \A p \in User : Free(p)' <=> Free(p)
          /\ \A p \in User : \A y : Waiting(p, y)' <=> Waiting(p, y)
      BY <1>9, <1>12, Procs DEF SameBut
    <2>2. ~TtyTakes' /\ ~TtyReplies'
      BY DEF TtyTakes, TtyReplies
    <2> QED BY <1>1, <1>9, <1>12, <2>1, <2>2, Procs DEF Answered
  <1>13. /\ \A d \in Tty \ {polled} : HasReader(d)' <=> HasReader(d)
         /\ \A d \in Tty \ {polled} : UNCHANGED tty[d]
         /\ HasReader(polled)' <=> Offers(TASK_TTY, TASK_FS)'
         /\ tty'[polled].process_index = r /\ tty'[polled].caller = TASK_FS
    BY <1>1, <1>2, <1>3, <1>5 DEF HasReader, Edited, reader, Runs, Readers
  <1>14. Readers'
    <2> SUFFICES ASSUME NEW d \in Tty, HasReader(d)'
                 PROVE  LET p == tty'[d].process_index
                        IN  /\ p \in User /\ TtyOf[p] = d /\ asked[p] = "READ"
                            /\ tty'[d].caller = TASK_FS
                            /\ Len(line'[p]) = tty'[d].trans_count
                            /\ tty'[d].trans_count + tty'[d].bytes_left <= MaxCount
      BY DEF Readers
    <2>1. CASE d = polled
      BY <1>6, <1>13, <2>1 DEF Edited
    <2>2. CASE d # polled
      <3>1. /\ HasReader(d) /\ tty'[d] = tty[d]
            /\ LET p == tty[d].process_index
               IN  /\ p \in User /\ TtyOf[p] = d /\ asked[p] = "READ"
                   /\ tty[d].caller = TASK_FS
                   /\ Len(line[p]) = tty[d].trans_count
                   /\ tty[d].trans_count + tty[d].bytes_left <= MaxCount
        BY <1>2, <1>13, <2>2 DEF Runs, Readers
      <3>2. tty[d].process_index # r
        BY <1>6, <2>2, <3>1
      <3> QED BY <3>1, <3>2 DEF Edited
    <2> QED BY <2>1, <2>2
  <1>15. \A p \in User \ {r} : line'[p] = line[p] /\ text'[p] = text[p]
    BY DEF Edited
  <1>16. /\ \A x : Asked(x)' <=> Asked(x)
         /\ \A x, p : p \in User \ {r} => (Answer(x, p)' <=> Answer(x, p))
         /\ UNCHANGED <<DriverRequest, DriverAnswer>>
         /\ \A p \in User \ {r} : UNCHANGED LineMessage(p)
         /\ LineMessage(r)' = m
    BY <1>8, <1>15 DEF Asked, Answer, DriverRequest, DriverAnswer, LineMessage
  <1>17. ASSUME ~SendPanics(TASK_TTY, TASK_FS, m)
         PROVE  Partners'
    <2>1. \A x, y \in Proc : Offers(x, y)' => TASK_FS \in {x, y}
      BY <1>2, <1>9, <1>17 DEF Runs, Partners
    <2> QED BY <1>2, <1>12, <1>17, <2>1 DEF Runs, Partners
  <1>18. ASSUME ~SendPanics(TASK_TTY, TASK_FS, m), NEW p \in User,
                TtyHolds(p)' <=> TtyHolds(p), FsHolds(p)' <=> FsHolds(p),
                FsRequest(p)' <=> FsRequest(p), p # r
         PROVE  UserInStep(p)' /\ InOnePlace(p)' /\ LineFits(p)'
    <2>1. UserInStep(p) /\ InOnePlace(p) /\ LineFits(p)
      BY <1>2 DEF Runs
    <2>2. UserInStep(p)'
      BY <2>1, <1>12, <1>18 DEF UserInStep
    <2>3. InOnePlace(p)'
      BY <2>1, <1>12, <1>18 DEF InOnePlace
    <2>4. LineFits(p)'
      BY <2>1, <1>12, <1>15, <1>18 DEF LineFits
    <2> QED BY <2>2, <2>3, <2>4
  <1>19. ASSUME ~SendPanics(TASK_TTY, TASK_FS, m), ~FsRequest(r)',
                FsHolds(r)' <=> ~TtyHolds(r)'
         PROVE  UserInStep(r)' /\ InOnePlace(r)' /\ LineFits(r)'
    <2>1. UserInStep(r) /\ InOnePlace(r)
      BY <1>2, <1>6 DEF Runs
    <2>2. UserInStep(r)'
      BY <2>1, <1>6, <1>12, <1>19 DEF UserInStep
    <2>3. InOnePlace(r)'
      BY <1>6, <1>12, <1>19 DEF InOnePlace
    <2>4. LineFits(r)'
      BY <1>6, <1>12, <1>19 DEF LineFits, Edited
    <2> QED BY <2>2, <2>3, <2>4
  <1>20. ASSUME NEW p \in User
         PROVE  TtyOf[p] \in Tty /\ p \in Proc /\ p # TASK_TTY
    BY Procs, TerminalAssumption
  <1>21. CASE /\ Waiting(TASK_FS, TASK_TTY) \/ Waiting(TASK_FS, SR_TARGET_ANY)
              /\ ~SendPanics(TASK_TTY, TASK_FS, m)
    <2>1. /\ Free(TASK_TTY)' /\ Free(TASK_FS)' /\ buffer'[TASK_FS] = m
          /\ ~Offers(TASK_TTY, TASK_FS)' /\ \A x \in Proc : ~Offers(TASK_FS, x)'
          /\ UNCHANGED panicked
      <3>1. /\ Free(TASK_TTY)' /\ Free(TASK_FS)' /\ buffer'[TASK_FS] = m
            /\ \A x, y \in Proc : Offers(x, y)' <=> Offers(x, y)
            /\ UNCHANGED panicked
        BY <1>9, <1>21
      <3>2. ~Offers(TASK_TTY, TASK_FS) /\ \A x \in Proc : ~Offers(TASK_FS, x)
        BY <1>1, <1>2, <1>21, Exclusive, Procs
      <3> QED BY <3>1, <3>2, Procs
    <2>2. fs_pc = "handle"
      BY <1>2, <1>4, <1>21, Exclusive, Procs DEF Runs, FsInStep, FsAwaits
    <2>3. /\ FsTakes' /\ ~FsWorks' /\ ~FsAwaits' /\ ~FsReplied' /\ ~TtyAsks'
      BY <2>1, <2>2 DEF FsTakes, FsWorks, FsAwaits, FsReplied, TtyAsks
    <2>4. /\ ~FsTakes /\ ~FsWorks
      BY <1>2, <1>21, <2>2, Exclusive, Procs DEF FsTakes, FsWorks
    <2>5. \A p \in User : ~FsRequest(p) /\ ~FsRequest(p)'
      BY <1>20, <2>1, <2>3, <2>4 DEF FsRequest
    <2>6. \A p \in User : ~FsHolds(p)
      BY <1>2, <1>20, <1>21, <2>4, <2>5, Exclusive, Procs DEF FsHolds
    <2>7. \A p \in User \ {r} : m # LineMessage(p)'
      <3>1. \A p, k : Resume(k, p).process_index = p
        BY Fields
      <3>2. \A p, k : p # r => Resume(k, p) # Resume(n, r)
        BY <3>1
      <3> QED BY <3>2 DEF LineMessage
    <2>8. FsHolds(r)' /\ \A p \in User \ {r} : ~FsHolds(p)'
      BY <1>16, <1>20, <2>1, <2>3, <2>5, <2>7 DEF FsHolds
    <2>9. ~TtyHolds(r)' /\ \A p \in User \ {r} : TtyHolds(p)' <=> TtyHolds(p)
      <3>1. ~TtyHolds(r)'
        BY <1>3, <1>6, <1>13, <2>1 DEF TtyHolds
      <3>2. ASSUME NEW p \in User \ {r} PROVE TtyHolds(p)' <=> TtyHolds(p)
        BY <1>13, <1>20, <2>1 DEF TtyHolds, reader
      <3> QED BY <3>1, <3>2
    <2>10. \A p \in User : UserInStep(p)' /\ InOnePlace(p)' /\ LineFits(p)'
      BY <1>18, <1>19, <1>21, <2>5, <2>6, <2>8, <2>9
    <2>11. TtyInStep' /\ FsInStep' /\ Together'
      BY <1>1, <1>12, <1>21, <2>1, <2>2, <2>3 DEF TtyInStep, FsInStep, Together
    <2>12. Messages'
      <3>1. ASSUME NEW p \in User, Offers(p, TASK_FS)'
            PROVE  buffer'[p].source = p /\ Asked(buffer[p])'
        <4>1. Offers(p, TASK_FS) /\ buffer'[p] = buffer[p]
          BY <1>9, <1>12, <1>21, <3>1
        <4>2. buffer[p].source = p /\ Asked(buffer[p])
          BY <1>2, <4>1 DEF Runs, Messages
        <4> QED BY <1>16, <4>1, <4>2
      <3>2. FsTakes' => \E p \in User : buffer'[TASK_FS] = LineMessage(p)' /\ asked'[p] = "READ"
        BY <1>6, <1>16, <2>1
      <3>3. ASSUME NEW p \in User, Answered(p)'
            PROVE  Answer(buffer[p], p)'
        <4>1. Answered(p) /\ p # r
          BY <1>6, <1>12, <1>21, <3>3
        <4>2. Answer(buffer[p], p) /\ buffer'[p] = buffer[p]
          BY <1>2, <1>9, <4>1 DEF Runs, Messages
        <4> QED BY <1>16, <4>1, <4>2
      <3>4. ~TtyTakes' /\ ~TtyReplies'
        BY <1>12, <1>21
      <3>5. ~Offers(TASK_FS, TASK_TTY)' /\ \A p \in User : ~Offers(TASK_FS, p)'
        BY <2>1, Procs
      <3> QED BY <2>3, <3>1, <3>2, <3>3, <3>4, <3>5 DEF Messages
    <2> QED BY <1>9, <1>10, <1>12, <1>14, <1>17, <1>20, <1>21, <2>1, <2>10, <2>11, <2>12
            DEF TIInv, Runs
  <1>22. CASE /\ ~Waiting(TASK_FS, TASK_TTY) /\ ~Waiting(TASK_FS, SR_TARGET_ANY)
              /\ ~SendPanics(TASK_TTY, TASK_FS, m)
    <2>1. /\ SameBut(TASK_TTY) /\ buffer'[TASK_FS] = buffer[TASK_FS]
          /\ Offers(TASK_TTY, TASK_FS)' /\ UNCHANGED panicked
      BY <1>9, <1>22, Procs
    <2>2. /\ Free(TASK_FS)' <=> Free(TASK_FS)
          /\ \A y : Waiting(TASK_FS, y)' <=> Waiting(TASK_FS, y)
      BY <2>1, Procs DEF SameBut
    <2>3. /\ FsTakes' <=> FsTakes
          /\ FsWorks' <=> FsWorks
          /\ ~FsAwaits'
          /\ FsReplied' <=> FsReplied
          /\ TtyAsks'
      BY <1>4, <2>1, <2>2 DEF FsTakes, FsWorks, FsAwaits, FsReplied, TtyAsks
    <2>4. \A p \in User : FsRequest(p)' <=> FsRequest(p)
      BY <1>4, <1>12, <1>22, <2>1, <2>3 DEF FsRequest, Suspended
    <2>5. ASSUME NEW p \in User, FsTakes
          PROVE  buffer[TASK_FS] = LineMessage(p)' <=> buffer[TASK_FS] = LineMessage(p)
      <3>1. CASE p = r
        <4>1. \A k : buffer[TASK_FS] # [source |-> TASK_TTY, body |-> Resume(k, p)]
          BY <1>6, <2>5, <3>1
        <4> QED BY <4>1 DEF LineMessage
      <3>2. CASE p # r
        BY <1>16, <3>2
      <3> QED BY <3>1, <3>2
    <2>6. \A p \in User : FsHolds(p)' <=> FsHolds(p)
      BY <1>12, <1>22, <2>1, <2>3, <2>4, <2>5 DEF FsHolds
    <2>7. \A p \in User : TtyHolds(p)' <=> TtyHolds(p)
      <3>1. TtyHolds(r)'
        BY <1>3, <1>6, <1>13, <2>1 DEF TtyHolds
      <3>2. ASSUME NEW p \in User \ {r} PROVE TtyHolds(p)' <=> TtyHolds(p)
        BY <1>3, <1>13, <1>20, <2>1 DEF TtyHolds, reader
      <3> QED BY <1>6, <3>1, <3>2
    <2>8. \A p \in User : UserInStep(p)' /\ InOnePlace(p)' /\ LineFits(p)'
      BY <1>6, <1>18, <1>19, <1>22, <2>4, <2>6, <2>7
    <2>9. Together' /\ TtyInStep'
      BY <1>1, <1>12, <1>22, <2>1, <2>3 DEF TtyInStep, Together
    <2>10. FsInStep'
      BY <1>2, <1>12, <1>22, <2>2 DEF Runs, FsInStep
    <2>11. Messages'
      <3>1. ASSUME NEW p \in User, Offers(p, TASK_FS)'
            PROVE  buffer'[p].source = p /\ Asked(buffer[p])'
        <4>1. Offers(p, TASK_FS) /\ buffer'[p] = buffer[p]
          BY <1>9, <1>12, <1>22, <3>1
        <4>2. buffer[p].source = p /\ Asked(buffer[p])
          BY <1>2, <4>1 DEF Runs, Messages
        <4> QED BY <1>16, <4>1, <4>2
      <3>2. ASSUME FsTakes'
            PROVE  \/ Asked(buffer[TASK_FS])'
                   \/ \E p \in User : buffer'[TASK_FS] = LineMessage(p)' /\ asked'[p] = "READ"
        <4>1. FsTakes
          BY <2>3, <3>2
        <4>2. \/ Asked(buffer[TASK_FS])
              \/ \E p \in User : buffer[TASK_FS] = LineMessage(p) /\ asked[p] = "READ"
          BY <1>2, <4>1 DEF Runs, Messages
        <4> QED BY <1>16, <2>1, <2>5, <4>1, <4>2
      <3>3. ASSUME NEW p \in User, Answered(p)'
            PROVE  Answer(buffer[p], p)'
        <4>1. Answered(p) /\ p # r
          BY <1>6, <1>12, <1>22, <3>3
        <4>2. Answer(buffer[p], p) /\ buffer'[p] = buffer[p]
          BY <1>2, <1>9, <4>1 DEF Runs, Messages
        <4> QED BY <1>16, <4>1, <4>2
      <3>4. ~TtyTakes' /\ ~TtyReplies'
        BY <1>12, <1>22
      <3>5. ASSUME NEW p \in User, Offers(TASK_FS, p)'
            PROVE  Answer(buffer[TASK_FS], p)'
        <4>1. Offers(TASK_FS, p) /\ p # r
          BY <1>6, <1>12, <1>22, <3>5
        <4>2. Answer(buffer[TASK_FS], p)
          BY <1>2, <4>1 DEF Runs, Messages
        <4> QED BY <1>16, <2>1, <4>1, <4>2
      <3>6. /\ FsWorks' /\ ~Suspended' => Asked(fs_msg)'
            /\ Offers(TASK_FS, TASK_TTY)' => buffer'[TASK_FS] = DriverRequest'
            /\ FsReplied' => buffer'[TASK_FS] = DriverAnswer'
        <4>1. /\ FsWorks /\ ~Suspended => Asked(fs_msg)
              /\ Offers(TASK_FS, TASK_TTY) => buffer[TASK_FS] = DriverRequest
              /\ FsReplied => buffer[TASK_FS] = DriverAnswer
          BY <1>2 DEF Runs, Messages
        <4>2. Suspended' <=> Suspended
          BY <1>4, <1>12, <1>22, <2>3 DEF Suspended
        <4> QED BY <1>12, <1>16, <1>22, <2>1, <2>3, <4>1, <4>2
      <3>7. buffer'[TASK_TTY] = LineMessage(reader)'
        <4>1. reader' = r
          BY <1>3, <1>13 DEF reader
        <4> QED BY <1>8, <1>9, <4>1 DEF LineMessage
      <3> QED BY <3>1, <3>2, <3>3, <3>4, <3>5, <3>6, <3>7 DEF Messages
    <2> QED BY <1>9, <1>10, <1>14, <1>17, <1>22, <2>1, <2>8, <2>9, <2>10, <2>11, <1>2, <1>12, Procs
            DEF TIInv, Runs
  <1> QED BY <1>9, <1>11, <1>21, <1>22

\* What task_tty finds when a key comes for a line.
LEMMA KeyForALine ==
    ASSUME TIInv, TakesKey, tty[polled].bytes_left > 0
    PROVE  /\ Polls /\ TTypeOK /\ ~panicked /\ polled \in Tty /\ MaxCount \in Nat
           /\ at + 1 \in 1..Len(ttys_table) + 1
           /\ tty_pc = "poll" /\ UNCHANGED <<tty_key_pressed, fs_pc, fs_msg, phase, asked>>
           /\ pressed \in Key /\ keys' \in Seq(Key) /\ Len(keys') <= KEYBOARD_IN_BUFFERSIZE
           /\ reader \in User /\ tty[polled].caller = TASK_FS
           /\ tty[polled] \in [caller : {TASK_FS, SR_TARGET_NONE},
                               process_index : User \cup {SR_TARGET_NONE},
                               bytes_left : 0..MaxCount, trans_count : 0..MaxCount]
           /\ tty[polled].trans_count + tty[polled].bytes_left <= MaxCount
           /\ line[reader] \in Seq(Char) /\ Len(line[reader]) = tty[polled].trans_count
           /\ text[reader] \in [1..MaxCount -> Char \cup {NoChar}]
           /\ \A i \in DOMAIN line[reader] : text[reader][i] = line[reader][i]
  <1>1. /\ Polls /\ tty_pc = "poll" /\ at <= Len(ttys_table) /\ ~panicked
        /\ keys # <<>> /\ keys' = Tail(keys)
        /\ UNCHANGED <<tty_key_pressed, fs_pc, fs_msg, phase, asked>>
    BY DEF TakesKey, Polls, Runnable, fsVars
  <1>2. TTypeOK /\ Runs
    BY <1>1 DEF TIInv
  <1>3. polled \in Tty /\ at + 1 \in 1..Len(ttys_table) + 1
    BY <1>1, <1>2, Polled
  <1>4. HasReader(polled)
    BY <1>1 DEF HasReader
  <1>5. /\ reader \in User /\ tty[polled].caller = TASK_FS
        /\ Len(line[reader]) = tty[polled].trans_count
        /\ tty[polled].trans_count + tty[polled].bytes_left <= MaxCount
    BY <1>2, <1>3, <1>4 DEF Runs, Readers, reader
  <1>6. \A i \in DOMAIN line[reader] : text[reader][i] = line[reader][i]
    BY <1>2, <1>5 DEF Runs, LineFits
  <1>7. keys \in Seq(Key) /\ Len(keys) <= KEYBOARD_IN_BUFFERSIZE /\ KEYBOARD_IN_BUFFERSIZE \in Nat
    BY <1>2, TerminalAssumption DEF TTypeOK
  <1>8. pressed \in Key /\ keys' \in Seq(Key) /\ Len(keys') <= KEYBOARD_IN_BUFFERSIZE
    BY <1>1, <1>7, HeadTailProperties DEF pressed
  <1>9. MaxCount \in Nat
    BY TerminalAssumption
  <1> QED BY <1>1, <1>2, <1>3, <1>5, <1>6, <1>8, <1>9 DEF TTypeOK

\* A backspace takes the last character of the line back.
LEMMA BackspaceKeeps ==
    ASSUME TIInv, TtyBackspace
    PROVE  TIInv'
  <1>1. /\ TakesKey /\ tty[polled].bytes_left > 0 /\ tty[polled].trans_count > 0
        /\ tty' = [tty EXCEPT ![polled].trans_count = @ - 1,
                              ![polled].bytes_left = @ + 1]
        /\ line' = [line EXCEPT ![reader] = SubSeq(@, 1, Len(@) - 1)]
        /\ at' = at + 1
        /\ UNCHANGED <<vars, tty_pc, current, text>>
    BY DEF TtyBackspace
  <1> DEFINE s == line[reader]
             k == Len(line[reader])
  <1>2. s \in Seq(Char) /\ k \in Nat \ {0} /\ k = tty[polled].trans_count
        /\ DOMAIN s = 1..k /\ k <= MaxCount /\ MaxCount \in Nat
    BY <1>1, KeyForALine
  <1>3. /\ SubSeq(s, 1, k - 1) \in Seq(Char) /\ Len(SubSeq(s, 1, k - 1)) = k - 1
        /\ DOMAIN SubSeq(s, 1, k - 1) = 1..k - 1
        /\ \A i \in 1..k - 1 : SubSeq(s, 1, k - 1)[i] = s[i]
    BY <1>2, SubSeqProperties
  <1>4. /\ \A d \in Tty \ {polled} : tty'[d] = tty[d]
        /\ tty'[polled].caller = tty[polled].caller
        /\ tty'[polled].process_index = tty[polled].process_index
        /\ tty'[polled].trans_count = k - 1
        /\ tty'[polled].bytes_left = tty[polled].bytes_left + 1
        /\ tty'[polled].bytes_left \in 0..MaxCount /\ k - 1 \in 0..MaxCount
        /\ tty[polled].bytes_left \in Nat /\ k + tty[polled].bytes_left <= MaxCount
    BY <1>1, <1>2, KeyForALine DEF TTypeOK
  <1>5. /\ line'[reader] = SubSeq(s, 1, k - 1)
        /\ line' \in [User -> Seq(Char)]
        /\ \A p \in User \ {reader} : line'[p] = line[p] /\ text'[p] = text[p]
    BY <1>1, <1>3, KeyForALine DEF TTypeOK
  <1>6. Edited
    <2>1. DOMAIN line'[reader] \subseteq 1..MaxCount
      BY <1>2, <1>3, <1>5
    <2>2. \A i \in DOMAIN line'[reader] : text'[reader][i] = line'[reader][i]
      BY <1>1, <1>2, <1>3, <1>5, KeyForALine
    <2> QED BY <1>2, <1>3, <1>4, <1>5, <2>1, <2>2, SMTT(30) DEF Edited
  <1>7. tty' \in [Tty -> [caller : {TASK_FS, SR_TARGET_NONE},
                          process_index : User \cup {SR_TARGET_NONE},
                          bytes_left : 0..MaxCount, trans_count : 0..MaxCount]]
    BY <1>1, <1>2, <1>4, KeyForALine DEF TTypeOK
  <1>8. TTypeOK'
    BY <1>1, <1>5, <1>7, KeyForALine, SameVars DEF TTypeOK
  <1> QED BY <1>1, <1>4, <1>6, <1>8, KeyForALine, LineGoesOn

\* A character goes to the end of the line, which may be complete with it.
LEMMA CharKeeps ==
    ASSUME TIInv, TtyChar
    PROVE  TIInv'
  <1> DEFINE n == tty[polled].trans_count + 1
             s == line[reader]
  <1>1. /\ TakesKey /\ pressed \in Char /\ tty[polled].bytes_left > 0
        /\ text' = [text EXCEPT ![reader][n] = pressed]
        /\ line' = [line EXCEPT ![reader] = Append(@, pressed)]
        /\ tty' = [tty EXCEPT ![polled].trans_count = n,
                              ![polled].bytes_left = @ - 1]
        /\ \/ tty[polled].bytes_left = 1 /\ AsksToResume(n)
           \/ /\ tty[polled].bytes_left > 1
              /\ at' = at + 1
              /\ UNCHANGED <<vars, tty_pc, current>>
    BY DEF TtyChar
  <1>2. s \in Seq(Char) /\ Len(s) = n - 1 /\ n \in 1..MaxCount /\ MaxCount \in Nat
        /\ DOMAIN s = 1..n - 1 /\ tty[polled].bytes_left \in Nat
        /\ n - 1 + tty[polled].bytes_left <= MaxCount
    BY <1>1, KeyForALine, SMTT(30)
  <1>3. /\ Append(s, pressed) \in Seq(Char) /\ Len(Append(s, pressed)) = n
        /\ DOMAIN Append(s, pressed) = 1..n
        /\ Append(s, pressed)[n] = pressed
        /\ \A i \in 1..n - 1 : Append(s, pressed)[i] = s[i]
    BY <1>1, <1>2
  <1>4. /\ \A d \in Tty \ {polled} : tty'[d] = tty[d]
        /\ tty'[polled].caller = tty[polled].caller
        /\ tty'[polled].process_index = tty[polled].process_index
        /\ tty'[polled].trans_count = n
        /\ tty'[polled].bytes_left = tty[polled].bytes_left - 1
        /\ tty'[polled].bytes_left \in 0..MaxCount /\ n \in 0..MaxCount
    <2>1. /\ \A d \in Tty \ {polled} : tty'[d] = tty[d]
          /\ tty'[polled] = [tty[polled] EXCEPT !.trans_count = n, !.bytes_left = @ - 1]
      BY <1>1, KeyForALine DEF TTypeOK
    <2>2. /\ tty'[polled].caller = tty[polled].caller
          /\ tty'[polled].process_index = tty[polled].process_index
          /\ tty'[polled].trans_count = n
          /\ tty'[polled].bytes_left = tty[polled].bytes_left - 1
      <3>1. DOMAIN tty[polled] = {"caller", "process_index", "bytes_left", "trans_count"}
        BY <1>1, KeyForALine
      <3> HIDE DEF n
      <3> QED BY <2>1, <3>1
    <2>3. tty[polled].bytes_left - 1 \in 0..MaxCount /\ n \in 0..MaxCount
      BY <1>1, <1>2
    <2> QED BY <2>1, <2>2, <2>3
  <1>5. /\ line'[reader] = Append(s, pressed)
        /\ line' \in [User -> Seq(Char)]
        /\ \A p \in User \ {reader} : line'[p] = line[p]
    BY <1>1, <1>3, KeyForALine DEF TTypeOK
  <1>6. /\ text' \in [User -> [1..MaxCount -> Char \cup {NoChar}]]
        /\ \A p \in User \ {reader} : text'[p] = text[p]
        /\ text'[reader][n] = pressed
        /\ \A i \in 1..n - 1 : text'[reader][i] = text[reader][i]
    <2>1. text[reader] \in [1..MaxCount -> Char \cup {NoChar}] /\ reader \in User
          /\ text \in [User -> [1..MaxCount -> Char \cup {NoChar}]]
      BY <1>1, KeyForALine DEF TTypeOK
    <2>2. /\ text'[reader] = [text[reader] EXCEPT ![n] = pressed]
          /\ \A p \in User \ {reader} : text'[p] = text[p]
      BY <1>1, <2>1
    <2>3. text'[reader] \in [1..MaxCount -> Char \cup {NoChar}]
      BY <1>1, <2>1, <2>2
    <2>4. text' \in [User -> [1..MaxCount -> Char \cup {NoChar}]]
      <3>1. text' = [text EXCEPT ![reader] = text'[reader]]
        BY <1>1, <2>1, <2>2
      <3> QED BY <2>1, <2>3, <3>1
    <2> QED BY <1>2, <2>1, <2>2, <2>4
  <1>7. Edited
    <2>1. DOMAIN line'[reader] \subseteq 1..MaxCount
      BY <1>2, <1>3, <1>5
    <2>2. \A i \in DOMAIN line'[reader] : text'[reader][i] = line'[reader][i]
      <3> SUFFICES ASSUME NEW i \in 1..n PROVE text'[reader][i] = line'[reader][i]
        BY <1>3, <1>5
      <3>1. CASE i = n
        BY <3>1, <1>3, <1>5, <1>6
      <3>2. CASE i # n
        <4>1. i \in 1..n - 1
          BY <1>2, <3>2
        <4> QED BY <1>1, <1>2, <1>3, <1>5, <1>6, <4>1, KeyForALine
      <3> QED BY <3>1, <3>2
    <2>3. n + (tty[polled].bytes_left - 1) <= MaxCount
      BY <1>2
    <2> QED BY <1>3, <1>4, <1>5, <1>6, <2>1, <2>2, <2>3 DEF Edited
  <1>8. tty' \in [Tty -> [caller : {TASK_FS, SR_TARGET_NONE},
                          process_index : User \cup {SR_TARGET_NONE},
                          bytes_left : 0..MaxCount, trans_count : 0..MaxCount]]
    BY <1>1, <1>2, <1>4, KeyForALine DEF TTypeOK
  <1>9. CASE tty[polled].bytes_left = 1 /\ AsksToResume(n)
    <2>1. /\ Send(TASK_TTY, TASK_FS, Resume(n, reader))
          /\ tty_pc' = "resumed" /\ UNCHANGED <<at, current>>
      BY <1>1, <1>9, KeyForALine DEF AsksToResume
    <2>2. TypeOK' => TTypeOK'
      BY <1>1, <1>5, <1>6, <1>8, <2>1, KeyForALine DEF TTypeOK
    <2> HIDE DEF n
    <2> QED BY <1>1, <1>4, <1>7, <2>1, <2>2, KeyForALine, LineCompletes
  <1>10. CASE /\ tty[polled].bytes_left > 1
              /\ at' = at + 1
              /\ UNCHANGED <<vars, tty_pc, current>>
    <2>1. TTypeOK'
      BY <1>1, <1>5, <1>6, <1>8, <1>10, KeyForALine, SameVars DEF TTypeOK
    <2>2. tty'[polled].bytes_left > 0
      BY <1>2, <1>4, <1>10
    <2> QED BY <1>1, <1>7, <1>10, <2>1, <2>2, KeyForALine, LineGoesOn
  <1> QED BY <1>1, <1>9, <1>10

\* The enter key completes the line.
LEMMA EnterKeeps ==
    ASSUME TIInv, TtyEnter
    PROVE  TIInv'
  <1> DEFINE n == tty[polled].trans_count
  <1>1. /\ TakesKey /\ tty[polled].bytes_left > 0
        /\ Send(TASK_TTY, tty[polled].caller, Resume(n, reader))
        /\ tty_pc' = "resumed" /\ UNCHANGED <<at, current, tty, text, line>>
    BY DEF TtyEnter, AsksToResume
  <1>2. n \in 0..MaxCount /\ Send(TASK_TTY, TASK_FS, Resume(n, reader))
        /\ n = tty'[polled].trans_count
    BY <1>1, KeyForALine
  <1>3. Edited
    <2>1. DOMAIN line[reader] \subseteq 1..MaxCount
      BY <1>1, KeyForALine
    <2> QED BY <1>1, <2>1, KeyForALine DEF Edited
  <1>4. TypeOK' => TTypeOK'
    BY <1>1, KeyForALine DEF TTypeOK
  <1> HIDE DEF n
  <1> QED BY <1>1, <1>2, <1>3, <1>4, KeyForALine, LineCompletes

-----------------------------------------------------------------------------
(* The messages of task_tty.                                               *)

\* task_tty takes an interrupt, or the request of the file system, or waits.
LEMMA TtyReceiveKeeps ==
    ASSUME TIInv, TtyReceive
    PROVE  TIInv'
  <1> DEFINE m == [source |-> TASK_TTY, body |-> Zeroed]
  <1>1. /\ tty_pc = "poll" /\ tty_pc' = "handle" /\ Free(TASK_TTY) /\ ~panicked
        /\ message_receive(TASK_TTY, SR_TARGET_ANY, m) /\ UNCHANGED pending
        /\ UNCHANGED <<tty, at, current, keys, tty_key_pressed, fs_pc, fs_msg>>
        /\ UNCHANGED <<phase, asked, text, line>>
    BY DEF TtyReceive, Receive, Runnable, Free, keyVars, fsVars, userVars
  <1>2. KernelInv /\ TTypeOK /\ Runs /\ m \in Message
    BY <1>1, Procs DEF TIInv, Message
  <1>3. ~TtyTakes /\ ~TtyReplies /\ ~TtyAsks /\ ~FsAwaits
    BY <1>1, <1>2, Exclusive, Procs DEF Runs, Together, TtyTakes, TtyReplies, TtyAsks
  <1>4. KernelInv'
    BY <1>1, <1>2, MessageReceiveKeeps, Procs DEF Free
  <1>5. TTypeOK'
    BY <1>1, <1>2, <1>4 DEF TTypeOK, TypeOK, KernelInv
  <1>6. \A d : HasReader(d)' <=> HasReader(d)
    BY <1>1 DEF HasReader
  <1>7. ~TtyReplies' /\ ~TtyAsks'
    BY <1>1 DEF TtyReplies, TtyAsks
  <1>8. CASE has_int_msg[TASK_TTY]
    <2>1. ReceivesInterrupt(TASK_TTY, SR_TARGET_ANY)
      BY <1>1, <1>8 DEF message_receive, ReceivesQueued, ReceiveBlocks, TakesInterrupt
    <2>2. /\ UNCHANGED panicked
          /\ \A x \in Proc \ {TASK_TTY} :
                buffer'[x] = buffer[x] /\ has_int_msg'[x] = has_int_msg[x]
          /\ buffer'[TASK_TTY] = [source |-> SR_TARGET_INTERRUPT, body |-> HardInt]
          /\ \A x : Free(x)' <=> Free(x)
          /\ \A x, y : Waiting(x, y)' <=> Waiting(x, y)
          /\ \A x, y : Offers(x, y)' <=> Offers(x, y)
      BY <1>1, <1>2, <2>1, ReceivesInterruptOutcome, Procs
    <2>3. ~TtyTakes'
      BY <2>2 DEF TtyTakes
    <2>4. Partners' /\ TtyInStep'
      BY <1>1, <1>2, <2>2 DEF Runs, Partners, TtyInStep
    <2>5. Runs'
      BY <1>1, <1>2, <1>3, <1>6, <1>7, <2>2, <2>3, <2>4, SameRuns
    <2> QED BY <1>1, <1>2, <1>4, <1>5, <2>2, <2>5, Procs DEF TIInv
  <1>9. ASSUME ~has_int_msg[TASK_TTY]
        PROVE  /\ UNCHANGED <<has_int_msg, panicked>>
               /\ \A x \in Proc \ {TASK_TTY} : buffer'[x] = buffer[x]
               /\ \/ \E sender \in Proc :
                        /\ Offers(sender, TASK_TTY)
                        /\ Free(TASK_TTY)' /\ Free(sender)'
                        /\ buffer'[TASK_TTY] = buffer[sender]
                        /\ SameBut(sender)
                        /\ \A x, y \in Proc : Offers(x, y)' <=> Offers(x, y) /\ x # sender
                  \/ /\ Waiting(TASK_TTY, SR_TARGET_ANY)'
                     /\ SameBut(TASK_TTY)
                     /\ \A x, y \in Proc : Offers(x, y)' <=> Offers(x, y)
    BY <1>1, <1>2, <1>9, ReceiveOutcome, Procs
  <1>10. CASE /\ ~has_int_msg[TASK_TTY]
              /\ Waiting(TASK_TTY, SR_TARGET_ANY)'
              /\ SameBut(TASK_TTY)
              /\ \A x, y \in Proc : Offers(x, y)' <=> Offers(x, y)
    <2>1. ~TtyTakes'
      BY <1>10 DEF TtyTakes, Free, Waiting
    <2>2. Partners' /\ TtyInStep'
      BY <1>1, <1>2, <1>9, <1>10 DEF Runs, Partners, TtyInStep
    <2>3. /\ \A x \in Proc \ {TASK_TTY} : Free(x)' <=> Free(x)
          /\ \A x \in Proc \ {TASK_TTY} : \A y : Waiting(x, y)' <=> Waiting(x, y)
      BY <1>10 DEF SameBut
    <2>4. Runs'
      BY <1>1, <1>2, <1>3, <1>6, <1>7, <1>9, <1>10, <2>1, <2>2, <2>3, SameRuns
    <2> QED BY <1>1, <1>2, <1>4, <1>5, <1>9, <1>10, <2>4, Procs DEF TIInv
  <1>11. ASSUME NEW sender \in Proc,
                ~has_int_msg[TASK_TTY],
                Offers(sender, TASK_TTY),
                Free(TASK_TTY)', Free(sender)', buffer'[TASK_TTY] = buffer[sender],
                SameBut(sender),
                \A x, y \in Proc : Offers(x, y)' <=> Offers(x, y) /\ x # sender
         PROVE  TIInv'
    <2>1. sender = TASK_FS
      <3>1. TASK_FS \in {sender, TASK_TTY}
        BY <1>2, <1>11, Procs DEF Runs, Partners
      <3> QED BY <3>1, Procs
    <2>2. fs_pc = "driver" /\ ~Free(TASK_FS)
      <3>1. /\ ~Free(TASK_FS) /\ \A y : ~Waiting(TASK_FS, y)
            /\ \A p \in User : ~Offers(TASK_FS, p)
        BY <1>2, <1>11, <2>1, Exclusive, Procs
      <3> QED BY <1>2, <3>1 DEF Runs, FsInStep
    <2>3. buffer[TASK_FS] = DriverRequest
      BY <1>2, <1>11, <2>1 DEF Runs, Messages
    <2>4. FsWorks /\ Asked(fs_msg)
      BY <1>2, <1>3, <2>2 DEF FsWorks, FsReplied, Suspended, Runs, Messages
    <2>5. UNCHANGED <<has_int_msg, panicked>> /\ \A x \in Proc \ {TASK_TTY} : buffer'[x] = buffer[x]
      BY <1>9, <1>11
    <2>6. DriverRequest.body # HardInt
      <3>1. PICK n \in 0..MaxCount :
               /\ <<asked[fs_msg.source], n>> \in Program[fs_msg.source]
               /\ fs_msg.body = Request(asked[fs_msg.source], TtyOf[fs_msg.source], n)
        BY <2>4 DEF Asked
      <3>2. /\ fs_msg.source \in User /\ asked[fs_msg.source] \in Call
            /\ TtyOf[fs_msg.source] \in Tty
        BY <2>4, <3>1, TerminalAssumption DEF Asked
      <3>3. DriverRequest.body \in Body
        BY <3>1, <3>2, BodiesAre, Fields DEF DriverRequest
      <3> QED BY <3>3, BodiesAre
    <2>7. UNCHANGED <<DriverRequest, DriverAnswer>>
      BY <1>1 DEF DriverRequest, DriverAnswer
    <2>8. TtyTakes' /\ buffer'[TASK_TTY] = DriverRequest'
      BY <1>1, <1>11, <2>1, <2>3, <2>6, <2>7 DEF TtyTakes
    <2>9. /\ ~FsTakes /\ ~FsTakes' /\ FsWorks' /\ FsAwaits'
          /\ ~FsReplied /\ ~FsReplied'
      BY <1>1, <1>11, <2>1, <2>2 DEF FsTakes, FsWorks, FsAwaits, FsReplied
    <2>10. /\ \A p \in User : Free(p)' <=> Free(p)
           /\ \A p \in User : \A y : Waiting(p, y)' <=> Waiting(p, y)
           /\ \A p \in User : Offers(p, TASK_FS)' <=> Offers(p, TASK_FS)
           /\ \A p \in User : ~Offers(TASK_FS, p) /\ ~Offers(TASK_FS, p)'
           /\ ~Offers(TASK_FS, TASK_TTY)'
           /\ \A p \in User : buffer'[p] = buffer[p]
      <3>1. \A p \in User : p \in Proc \ {TASK_FS}
        BY Procs
      <3>2. \A p \in User : ~Offers(TASK_FS, p)
        BY <1>2, <1>11, <2>1, Exclusive, Procs
      <3> QED BY <1>11, <2>1, <2>5, <3>1, <3>2, Procs DEF SameBut
    <2>11. \A p \in User : FsRequest(p)' <=> FsRequest(p)
      BY <1>1, <1>3, <1>7, <2>4, <2>9 DEF FsRequest, Suspended
    <2>12. \A p \in User : FsHolds(p)' <=> FsHolds(p)
      BY <2>9, <2>10, <2>11 DEF FsHolds
    <2>13. \A p \in User : TtyHolds(p)' <=> TtyHolds(p)
      BY <1>1, <1>6 DEF TtyHolds
    <2>14. \A p \in User : Answered(p)' <=> Answered(p)
      BY <1>1, <2>10 DEF Answered
    <2>15. \A p \in User : UserInStep(p)' /\ InOnePlace(p)' /\ LineFits(p)'
      <3> SUFFICES ASSUME NEW p \in User
                   PROVE  UserInStep(p)' /\ InOnePlace(p)' /\ LineFits(p)'
        OBVIOUS
      <3>1. UserInStep(p) /\ InOnePlace(p) /\ LineFits(p)
        BY <1>2 DEF Runs
      <3>2. UserInStep(p)'
        BY <1>1, <2>10, <3>1 DEF UserInStep
      <3>3. InOnePlace(p)'
        BY <1>1, <2>10, <2>12, <2>13, <2>14, <3>1 DEF InOnePlace
      <3>4. LineFits(p)'
        BY <1>1, <2>10, <2>11, <3>1 DEF LineFits
      <3> QED BY <3>2, <3>3, <3>4
    <2>16. Partners'
      BY <1>1, <1>2, <1>11, <2>5 DEF Runs, Partners
    <2>17. TtyInStep' /\ FsInStep' /\ Together'
      BY <1>1, <1>11, <2>1, <2>2, <2>8, <2>9 DEF TtyInStep, FsInStep, Together
    <2>18. /\ \A x : Asked(x)' <=> Asked(x)
           /\ \A x, p : Answer(x, p)' <=> Answer(x, p)
      BY <1>1 DEF Asked, Answer
    <2>19. Messages'
      <3>1. \A p \in User : Offers(p, TASK_FS) => buffer[p].source = p /\ Asked(buffer[p])
        BY <1>2 DEF Runs, Messages
      <3>2. \A p \in User : Answered(p) => Answer(buffer[p], p)
        BY <1>2 DEF Runs, Messages
      <3> QED BY <1>1, <1>7, <2>4, <2>8, <2>9, <2>10, <2>14, <2>18, <3>1, <3>2 DEF Messages
    <2>20. Readers'
      BY <1>1, <1>2, <1>6 DEF Runs, Readers
    <2> QED BY <1>4, <1>5, <2>10, <2>15, <2>16, <2>17, <2>19, <2>20 DEF TIInv, Runs
  <1> QED BY <1>8, <1>9, <1>10, <1>11

\* The call that the file system works for.
LEMMA CallOf ==
    ASSUME NEW m, Asked(m)
    PROVE  /\ m.source \in User /\ phase[m.source] # "idle"
           /\ asked[m.source] \in Call /\ m.body.type = asked[m.source]
           /\ m.body.device = TtyOf[m.source] /\ TtyOf[m.source] \in Tty
           /\ m.body.count \in 0..MaxCount
           /\ m.body.type # "OPEN" => m.body.count > 0
           /\ <<asked[m.source], m.body.count>> \in Program[m.source]
  <1>1. PICK n \in 0..MaxCount :
           /\ <<asked[m.source], n>> \in Program[m.source]
           /\ m.body = Request(asked[m.source], TtyOf[m.source], n)
    BY DEF Asked
  <1>2. m.source \in User /\ phase[m.source] # "idle"
    BY DEF Asked
  <1>3. /\ m.body.type = asked[m.source] /\ m.body.device = TtyOf[m.source]
        /\ m.body.count = n
    BY <1>1, Fields
  <1>4. asked[m.source] \in Call /\ TtyOf[m.source] \in Tty
    BY <1>1, <1>2, TerminalAssumption
  <1>5. n > 0 <=> asked[m.source] # "OPEN"
    BY <1>1, <1>2, TerminalAssumption
  <1> QED BY <1>1, <1>2, <1>3, <1>4, <1>5

\* A terminal is free when a read of it reaches it: it has one reader at most.
LEMMA TerminalIsFree ==
    ASSUME Runs, NEW p \in User, asked[p] = "READ", FsHolds(p)
    PROVE  ~HasReader(TtyOf[p])
  <1> SUFFICES ASSUME HasReader(TtyOf[p]) PROVE FALSE
    OBVIOUS
  <1> DEFINE r == tty[TtyOf[p]].process_index
  <1>1. r \in User /\ TtyOf[r] = TtyOf[p] /\ asked[r] = "READ" /\ ~FsHolds(r)
    BY ReaderIsHeld, TerminalAssumption
  <1>2. \A q \in User : asked[q] = "READ" => \E c \in Program[q] : c[1] = "READ"
    <2> SUFFICES ASSUME NEW q \in User, asked[q] = "READ"
                 PROVE  \E c \in Program[q] : c[1] = "READ"
      OBVIOUS
    <2>1. PICK n \in 0..MaxCount : <<"READ", n>> \in Program[q]
      BY DEF Runs, UserInStep
    <2>2. <<"READ", n>>[1] = "READ"
      OBVIOUS
    <2> QED BY <2>1, <2>2
  <1>3. r = p
    BY <1>1, <1>2, ReaderAssumption
  <1> QED BY <1>1, <1>3

\* task_tty answers: a request is done, or a read has begun.
LEMMA DriverReplies ==
    ASSUME TIInv, TypeOK' => TTypeOK', TtyTakes, ~panicked, tty_pc' = "poll",
           UNCHANGED <<fs_pc, fs_msg, phase, asked, text, line>>,
           Send(TASK_TTY, TASK_FS, DriverAnswer.body),
           fs_msg.body.type = "READ" =>
              tty' = [tty EXCEPT ![fs_msg.body.device] =
                         [caller |-> TASK_FS, process_index |-> fs_msg.source,
                          bytes_left |-> fs_msg.body.count, trans_count |-> 0]],
           fs_msg.body.type # "READ" => UNCHANGED tty
    PROVE  TIInv'
  <1> DEFINE p == fs_msg.source
             d == fs_msg.body.device
             b == DriverAnswer.body
             m == [source |-> TASK_TTY, body |-> b]
             Read == fs_msg.body.type = "READ"
  <1>1. KernelInv /\ TTypeOK /\ Runs
    BY DEF TIInv
  <1>2. /\ FsAwaits /\ FsWorks /\ tty_pc = "handle" /\ Free(TASK_TTY)
        /\ ~FsTakes /\ ~FsReplied /\ ~TtyReplies /\ ~TtyAsks
    <2>1. FsAwaits /\ tty_pc = "handle" /\ Free(TASK_TTY)
      BY <1>1 DEF TtyTakes, Runs, Together
    <2> QED BY <1>1, <2>1, Exclusive, Procs
            DEF FsAwaits, FsWorks, FsTakes, FsReplied, TtyReplies, TtyAsks
  <1>3. Asked(fs_msg)
    BY <1>1, <1>2 DEF Runs, Messages, Suspended
  <1>4. /\ p \in User /\ phase[p] # "idle" /\ asked[p] = fs_msg.body.type
        /\ d = TtyOf[p] /\ d \in Tty /\ fs_msg.body.count \in 0..MaxCount
        /\ Read => fs_msg.body.count > 0
        /\ p \in Proc \ {TASK_FS, TASK_TTY}
    BY <1>3, CallOf, Procs
  <1>5. m \in Message /\ m = DriverAnswer
    <2>1. b \in Body
      BY <1>4, BodiesAre DEF DriverAnswer
    <2> QED BY <2>1, Procs DEF Message, DriverAnswer
  <1>6. message_send(TASK_TTY, TASK_FS, m) /\ UNCHANGED pending
    BY DEF Send
  <1> HIDE DEF b
  <1>7. /\ KernelInv'
        /\ UNCHANGED has_int_msg
        /\ buffer'[TASK_TTY] = m
        /\ \A q \in User : buffer'[q] = buffer[q]
        /\ \/ SendPanics(TASK_TTY, TASK_FS, m)
           \/ /\ UNCHANGED panicked
              /\ Waiting(TASK_FS, TASK_TTY) \/ Waiting(TASK_FS, SR_TARGET_ANY)
              /\ Free(TASK_TTY)' /\ Free(TASK_FS)' /\ buffer'[TASK_FS] = m
              /\ SameBut(TASK_FS)
              /\ \A x, y \in Proc : Offers(x, y)' <=> Offers(x, y)
           \/ /\ UNCHANGED panicked
              /\ ~Waiting(TASK_FS, TASK_TTY) /\ ~Waiting(TASK_FS, SR_TARGET_ANY)
              /\ SameBut(TASK_TTY)
              /\ \A x, y \in Proc :
                    Offers(x, y)' <=> Offers(x, y) \/ (x = TASK_TTY /\ y = TASK_FS)
    BY <1>1, <1>2, <1>5, <1>6, SendResult, Procs
  <1>8. TTypeOK'
    BY <1>1, <1>6, <1>7 DEF TTypeOK, TypeOK, KernelInv
  <1>9. CASE SendPanics(TASK_TTY, TASK_FS, m)
    BY <1>7, <1>8, <1>9, SameIpc DEF SendPanics, TIInv
  <1>10. CASE ~SendPanics(TASK_TTY, TASK_FS, m)
    <2>1. UNCHANGED <<panicked, has_int_msg, pending>>
      BY <1>6, <1>7, <1>10
    <2>2. /\ \A q \in User : Free(q)' <=> Free(q)
          /\ \A q \in User : \A y : Waiting(q, y)' <=> Waiting(q, y)
          /\ \A q \in User : Offers(q, TASK_FS)' <=> Offers(q, TASK_FS)
          /\ \A x \in Proc : ~Offers(TASK_FS, x) /\ ~Offers(TASK_FS, x)'
          /\ \A x, y \in Proc : Offers(x, y)' => TASK_FS \in {x, y}
      <3>1. \A x \in Proc : ~Offers(TASK_FS, x)
        BY <1>1, <1>2, Exclusive, Procs DEF FsAwaits
      <3>2. /\ \A q \in User : Free(q)' <=> Free(q)
            /\ \A q \in User : \A y : Waiting(q, y)' <=> Waiting(q, y)
        BY <1>7, <1>10, Procs DEF SameBut
      <3>3. \A x, y \in Proc : Offers(x, y) => TASK_FS \in {x, y}
        BY <1>1 DEF Runs, Partners
      <3>4. \A x, y \in Proc : Offers(x, y)' => Offers(x, y) \/ (x = TASK_TTY /\ y = TASK_FS)
        BY <1>7, <1>10
      <3>5. \A q \in User : Offers(q, TASK_FS)' <=> Offers(q, TASK_FS)
        BY <1>7, <1>10, Procs
      <3> QED BY <3>1, <3>2, <3>3, <3>4, <3>5, Procs
    <2>3. UNCHANGED <<DriverRequest, DriverAnswer>>
      BY DEF DriverRequest, DriverAnswer
    <2>4. /\ FsWorks' /\ ~FsTakes' /\ ~TtyTakes' /\ ~TtyAsks'
          /\ TtyReplies' <=> FsAwaits'
          /\ TtyReplies' \/ FsReplied'
          /\ TtyReplies' => buffer'[TASK_TTY] = DriverAnswer'
          /\ FsReplied' => buffer'[TASK_FS] = DriverAnswer'
          /\ TtyInStep' /\ FsInStep'
      <3>1. FsWorks' /\ ~FsTakes' /\ ~TtyTakes' /\ ~TtyAsks'
        BY <1>2 DEF FsWorks, FsTakes, TtyTakes, TtyAsks
      <3>2. CASE Waiting(TASK_FS, TASK_TTY) \/ Waiting(TASK_FS, SR_TARGET_ANY)
        <4>1. /\ Free(TASK_TTY)' /\ Free(TASK_FS)' /\ buffer'[TASK_FS] = m
              /\ \A x, y \in Proc : Offers(x, y)' <=> Offers(x, y)
          BY <1>7, <1>10, <3>2
        <4>2. fs_pc = "driven"
          BY <1>1, <1>2, <3>2, Exclusive, Procs DEF FsAwaits
        <4>3. ~Offers(TASK_TTY, TASK_FS)' /\ \A y : ~Waiting(TASK_FS, y)'
          BY <4>1 DEF Free, Waiting, Offers, Sending
        <4>4. ~TtyReplies' /\ ~FsAwaits' /\ FsReplied'
          BY <4>1, <4>2, <4>3 DEF TtyReplies, FsAwaits, FsReplied
        <4>5. TtyInStep' /\ FsInStep'
          BY <4>1, <4>2 DEF TtyInStep, FsInStep
        <4> QED BY <1>5, <2>3, <3>1, <4>1, <4>4, <4>5
      <3>3. CASE ~Waiting(TASK_FS, TASK_TTY) /\ ~Waiting(TASK_FS, SR_TARGET_ANY)
        <4>1. Free(TASK_FS) /\ fs_pc = "driver"
          BY <1>2, <3>3 DEF FsAwaits
        <4>2. /\ Offers(TASK_TTY, TASK_FS)' /\ Free(TASK_FS)'
          BY <1>7, <1>10, <3>3, <4>1, Procs DEF SameBut
        <4>3. TtyReplies' /\ FsAwaits' /\ ~FsReplied'
          BY <4>1, <4>2 DEF TtyReplies, FsAwaits, FsReplied
        <4>4. TtyInStep' /\ FsInStep'
          BY <4>1, <4>2 DEF TtyInStep, FsInStep
        <4> QED BY <1>5, <1>7, <2>3, <3>1, <4>3, <4>4
      <3> QED BY <3>2, <3>3
    <2>5. Partners' /\ Together'
      BY <1>1, <2>1, <2>2, <2>4 DEF Runs, Partners, Together
    <2>6. /\ ~Suspended /\ (Suspended' <=> Read)
          /\ \A q \in User : FsRequest(q) <=> q = p
          /\ \A q \in User : FsRequest(q)' <=> q = p /\ ~Read
      BY <1>2, <2>4 DEF Suspended, FsRequest
    <2>7. /\ \A q \in User : FsHolds(q) <=> q = p
          /\ \A q \in User : FsHolds(q)' <=> q = p /\ ~Read
      BY <1>2, <2>2, <2>4, <2>6, Procs DEF FsHolds
    <2>8. /\ \A x \in Tty \ {d} : HasReader(x)' <=> HasReader(x)
          /\ \A x \in Tty \ {d} : tty'[x] = tty[x]
          /\ Read => /\ ~HasReader(d) /\ HasReader(d)'
                     /\ tty'[d] = [caller |-> TASK_FS, process_index |-> p,
                                   bytes_left |-> fs_msg.body.count, trans_count |-> 0]
          /\ ~Read => UNCHANGED tty /\ (HasReader(d)' <=> HasReader(d))
      <3>1. /\ \A x \in Tty \ {d} : tty'[x] = tty[x]
            /\ ~Read => UNCHANGED tty
            /\ Read => tty'[d] = [caller |-> TASK_FS, process_index |-> p,
                                  bytes_left |-> fs_msg.body.count, trans_count |-> 0]
        BY <1>1, <1>4 DEF TTypeOK
      <3>2. \A x : /\ HasReader(x) <=> tty[x].bytes_left > 0
                   /\ HasReader(x)' <=> tty'[x].bytes_left > 0
        BY <1>2 DEF HasReader
      <3>3. Read => ~HasReader(d)
        BY <1>1, <1>4, <2>7, TerminalIsFree
      <3> QED BY <1>4, <3>1, <3>2, <3>3
    <2>9. /\ \A q \in User \ {p} : TtyHolds(q)' <=> TtyHolds(q)
          /\ ~Read => (TtyHolds(p)' <=> TtyHolds(p))
          /\ Read => TtyHolds(p)'
      <3>1. \A q \in User : TtyOf[q] \in Tty
        BY TerminalAssumption
      <3>2. ~Read => \A q \in User : TtyHolds(q)' <=> TtyHolds(q)
        BY <2>8, <3>1 DEF TtyHolds
      <3>3. ASSUME Read PROVE TtyHolds(p)'
        BY <1>4, <2>8, <3>3 DEF TtyHolds
      <3>4. ASSUME Read, NEW q \in User \ {p} PROVE TtyHolds(q)' <=> TtyHolds(q)
        <4>1. CASE TtyOf[q] = d
          BY <1>4, <2>8, <3>4, <4>1 DEF TtyHolds
        <4>2. CASE TtyOf[q] # d
          BY <1>4, <2>8, <3>1, <4>2 DEF TtyHolds
        <4> QED BY <4>1, <4>2
      <3> QED BY <1>4, <3>2, <3>3, <3>4
    <2>10. \A q \in User : Answered(q)' <=> Answered(q)
      BY <2>2 DEF Answered
    <2>11. \A q \in User : UserInStep(q)' /\ InOnePlace(q)' /\ LineFits(q)'
      <3> SUFFICES ASSUME NEW q \in User
                   PROVE  UserInStep(q)' /\ InOnePlace(q)' /\ LineFits(q)'
        OBVIOUS
      <3>1. UserInStep(q) /\ InOnePlace(q) /\ LineFits(q)
        BY <1>1 DEF Runs
      <3>2. UserInStep(q)'
        BY <2>2, <3>1 DEF UserInStep
      <3>3. InOnePlace(q)'
        BY <1>4, <2>2, <2>7, <2>9, <2>10, <3>1 DEF InOnePlace
      <3>4. LineFits(q)'
        BY <1>4, <2>2, <2>6, <3>1 DEF LineFits
      <3> QED BY <3>2, <3>3, <3>4
    <2>12. /\ \A x : Asked(x)' <=> Asked(x)
           /\ \A x, q : Answer(x, q)' <=> Answer(x, q)
      BY DEF Asked, Answer
    <2>13. Messages'
      <3>1. \A q \in User : Offers(q, TASK_FS) => buffer[q].source = q /\ Asked(buffer[q])
        BY <1>1 DEF Runs, Messages
      <3>2. \A q \in User : Answered(q) => Answer(buffer[q], q)
        BY <1>1 DEF Runs, Messages
      <3> QED BY <1>3, <1>7, <2>2, <2>4, <2>10, <2>12, <3>1, <3>2, Procs DEF Messages
    <2>14. Readers'
      <3> SUFFICES ASSUME NEW x \in Tty, HasReader(x)'
                   PROVE  LET q == tty'[x].process_index
                          IN  /\ q \in User /\ TtyOf[q] = x /\ asked[q] = "READ"
                              /\ tty'[x].caller = TASK_FS
                              /\ Len(line[q]) = tty'[x].trans_count
                              /\ tty'[x].trans_count + tty'[x].bytes_left <= MaxCount
        BY DEF Readers
      <3>1. CASE x = d /\ Read
        <4>1. line[p] = <<>>
          BY <1>1, <1>4, <2>6 DEF Runs, LineFits
        <4>2. Len(line[p]) = 0
          BY <4>1
        <4> QED BY <1>4, <2>8, <3>1, <4>2
      <3>2. CASE x # d \/ ~Read
        <4>1. tty'[x] = tty[x] /\ HasReader(x)
          BY <2>8, <3>2
        <4> QED BY <1>1, <4>1 DEF Runs, Readers
      <3> QED BY <3>1, <3>2
    <2> QED BY <1>7, <1>8, <2>1, <2>2, <2>4, <2>5, <2>11, <2>13, <2>14, Procs DEF TIInv, Runs
  <1> QED BY <1>9, <1>10

\* What task_tty finds when it handles a request.
LEMMA RequestOfFs ==
    ASSUME TIInv, Handles(buffer[TASK_TTY]), buffer[TASK_TTY].body # HardInt
    PROVE  /\ TtyTakes /\ ~panicked /\ TTypeOK
           /\ buffer[TASK_TTY].source = TASK_FS
           /\ fs_msg.body.type \in Call
           /\ buffer[TASK_TTY].body.type = Driver[fs_msg.body.type]
           /\ buffer[TASK_TTY].body.device = fs_msg.body.device
           /\ buffer[TASK_TTY].body.count = fs_msg.body.count
           /\ buffer[TASK_TTY].body.process_index = fs_msg.source
           /\ fs_msg.source \in User /\ fs_msg.body.device \in Tty
           /\ fs_msg.body.count \in 0..MaxCount
           /\ tty_pc' = "poll" /\ at' = 1
           /\ UNCHANGED <<current, keys, fs_pc, fs_msg, phase, asked, text, line>>
  <1>1. /\ tty_pc = "handle" /\ Free(TASK_TTY) /\ ~panicked
        /\ tty_pc' = "poll" /\ at' = 1
        /\ UNCHANGED <<current, keys, fs_pc, fs_msg, phase, asked, text, line>>
    BY DEF Handles, Runnable, Free, fsVars, userVars
  <1>2. TtyTakes
    BY <1>1 DEF TtyTakes
  <1>3. TTypeOK /\ Runs
    BY <1>1 DEF TIInv
  <1>4. buffer[TASK_TTY] = DriverRequest
    BY <1>2, <1>3 DEF Runs, Messages
  <1>5. Asked(fs_msg)
    <2>1. FsAwaits /\ KernelInv
      BY <1>1, <1>2, <1>3 DEF TIInv, Runs, Together
    <2>2. FsWorks /\ ~FsReplied /\ ~TtyReplies
      BY <1>1, <2>1, Exclusive, Procs DEF FsAwaits, FsWorks, FsReplied, TtyReplies
    <2> QED BY <1>3, <2>2 DEF Runs, Messages, Suspended
  <1>6. /\ fs_msg.source \in User /\ fs_msg.body.type \in Call
        /\ fs_msg.body.device \in Tty /\ fs_msg.body.count \in 0..MaxCount
    BY <1>5, CallOf
  <1>7. /\ buffer[TASK_TTY].source = TASK_FS
        /\ buffer[TASK_TTY].body = Msg(Driver[fs_msg.body.type], fs_msg.body.device,
                                       fs_msg.body.count, fs_msg.source)
    BY <1>4 DEF DriverRequest
  <1> QED BY <1>1, <1>2, <1>3, <1>6, <1>7, Fields

\* An open or a write is done at once.
LEMMA AnswersKeep ==
    ASSUME TIInv, TtyAnswers(buffer[TASK_TTY])
    PROVE  TIInv'
  <1>1. /\ Handles(buffer[TASK_TTY]) /\ buffer[TASK_TTY].body # HardInt
        /\ buffer[TASK_TTY].body.type \in {"DEVOPEN", "DEVWRITE"}
        /\ Send(TASK_TTY, buffer[TASK_TTY].source, SyscallRet(buffer[TASK_TTY].body.count))
        /\ UNCHANGED <<tty, tty_key_pressed>>
    BY DEF TtyAnswers
  <1>2. fs_msg.body.type # "READ"
    BY <1>1, RequestOfFs, Fields
  <1>3. Send(TASK_TTY, TASK_FS, DriverAnswer.body)
    BY <1>1, <1>2, RequestOfFs DEF DriverAnswer
  <1>4. 1 \in 1..Len(ttys_table) + 1
    BY <1>1, RequestOfFs, Polled
  <1>5. TypeOK' => TTypeOK'
    BY <1>1, <1>4, RequestOfFs DEF TTypeOK
  <1> QED BY <1>1, <1>2, <1>3, <1>5, RequestOfFs, DriverReplies

\* A read begins: the terminal keeps it, and the file system suspends the reader.
LEMMA DoReadKeeps ==
    ASSUME TIInv, tty_do_read(buffer[TASK_TTY])
    PROVE  TIInv'
  <1> DEFINE t == [caller |-> TASK_FS, process_index |-> fs_msg.source,
                   bytes_left |-> fs_msg.body.count, trans_count |-> 0]
  <1>1. /\ Handles(buffer[TASK_TTY]) /\ buffer[TASK_TTY].body # HardInt
        /\ buffer[TASK_TTY].body.type = "DEVREAD"
        /\ Send(TASK_TTY, buffer[TASK_TTY].source, Suspend(buffer[TASK_TTY].body.count))
        /\ UNCHANGED tty_key_pressed
        /\ tty' = [tty EXCEPT ![buffer[TASK_TTY].body.device] =
                     [caller |-> buffer[TASK_TTY].source,
                      process_index |-> buffer[TASK_TTY].body.process_index,
                      bytes_left |-> buffer[TASK_TTY].body.count, trans_count |-> 0]]
    BY DEF tty_do_read
  <1>2. fs_msg.body.type = "READ"
    BY <1>1, RequestOfFs, Fields DEF Call
  <1>3. Send(TASK_TTY, TASK_FS, DriverAnswer.body)
    BY <1>1, <1>2, RequestOfFs DEF DriverAnswer
  <1>4. 1 \in 1..Len(ttys_table) + 1
    BY <1>1, RequestOfFs, Polled
  <1>5. tty' = [tty EXCEPT ![fs_msg.body.device] = t]
    BY <1>1, RequestOfFs
  <1>6. t \in [caller : {TASK_FS, SR_TARGET_NONE},
               process_index : User \cup {SR_TARGET_NONE},
               bytes_left : 0..MaxCount, trans_count : 0..MaxCount]
    BY <1>1, RequestOfFs, TerminalAssumption
  <1>7. TypeOK' => TTypeOK'
    <2> HIDE DEF t
    <2>1. tty' \in [Tty -> [caller : {TASK_FS, SR_TARGET_NONE},
                            process_index : User \cup {SR_TARGET_NONE},
                            bytes_left : 0..MaxCount, trans_count : 0..MaxCount]]
      BY <1>1, <1>5, <1>6, RequestOfFs DEF TTypeOK
    <2> QED BY <1>1, <1>4, <2>1, RequestOfFs DEF TTypeOK
  <1> QED BY <1>1, <1>2, <1>3, <1>5, <1>7, RequestOfFs, DriverReplies

-----------------------------------------------------------------------------
(* task_fs.                                                                *)

\* A message for the file system is taken out of its sender.
LEMMA FsReceiveKeeps ==
    ASSUME TIInv, FsReceive
    PROVE  TIInv'
  <1> DEFINE m == [source |-> TASK_FS, body |-> Zeroed]
  <1>1. /\ fs_pc = "receive" /\ fs_pc' = "handle" /\ Free(TASK_FS) /\ ~panicked
        /\ message_receive(TASK_FS, SR_TARGET_ANY, m) /\ UNCHANGED pending
        /\ UNCHANGED <<tty, tty_pc, at, current, keys, tty_key_pressed, fs_msg>>
        /\ UNCHANGED <<phase, asked, text, line>>
    BY DEF FsReceive, Receive, Runnable, Free, ttyVars, keyVars, userVars
  <1>2. KernelInv /\ TTypeOK /\ Runs /\ m \in Message
    BY <1>1, Procs DEF TIInv, Message
  <1>3. /\ ~FsTakes /\ ~FsWorks /\ ~FsAwaits /\ ~FsReplied
        /\ ~FsWorks' /\ ~FsAwaits' /\ ~FsReplied'
    BY <1>1 DEF FsTakes, FsWorks, FsAwaits, FsReplied
  <1>4. ~TtyTakes /\ ~TtyReplies
    BY <1>2, <1>3 DEF Runs, Together
  <1>5. ~has_int_msg[TASK_FS]
    BY <1>2, Procs DEF Runs, Partners
  <1>6. /\ KernelInv'
        /\ UNCHANGED <<has_int_msg, panicked>>
        /\ \A x \in Proc \ {TASK_FS} : buffer'[x] = buffer[x]
        /\ \/ \E sender \in Proc :
                 /\ Offers(sender, TASK_FS)
                 /\ Free(TASK_FS)' /\ Free(sender)' /\ buffer'[TASK_FS] = buffer[sender]
                 /\ SameBut(sender)
                 /\ \A x, y \in Proc : Offers(x, y)' <=> Offers(x, y) /\ x # sender
           \/ /\ Waiting(TASK_FS, SR_TARGET_ANY)'
              /\ SameBut(TASK_FS)
              /\ \A x, y \in Proc : Offers(x, y)' <=> Offers(x, y)
    BY <1>1, <1>2, <1>5, ReceiveOutcome, Procs
  <1>7. TTypeOK'
    BY <1>1, <1>2, <1>6 DEF TTypeOK, TypeOK, KernelInv
  <1>8. /\ \A x : Asked(x)' <=> Asked(x)
        /\ \A x, q : Answer(x, q)' <=> Answer(x, q)
        /\ \A q : UNCHANGED LineMessage(q)
        /\ reader' = reader /\ polled' = polled
    BY <1>1 DEF Asked, Answer, LineMessage, reader, polled
  <1>9. \A x \in Proc : ~Offers(TASK_FS, x)
    BY <1>1, <1>2, Exclusive, Procs
  <1>10. \A q \in User : ~FsRequest(q) /\ ~FsHolds(q)
    BY <1>3, <1>9, Procs DEF FsRequest, FsHolds
  <1>11. /\ \A x, y \in Proc : Offers(x, y)' => Offers(x, y)
         /\ \A x \in Proc : ~Offers(TASK_FS, x)'
    BY <1>6, <1>9, Procs
  <1>12. Partners'
    BY <1>1, <1>2, <1>6, <1>11 DEF Runs, Partners
  <1>13. \A q \in User : q \in Proc /\ q # TASK_FS /\ q # TASK_TTY /\ TtyOf[q] \in Tty
    BY Procs, TerminalAssumption
  <1>14. ASSUME TtyInStep', FsInStep', ~TtyTakes', ~TtyReplies', Readers', Messages',
                \A q \in User : UserInStep(q)' /\ InOnePlace(q)' /\ LineFits(q)'
         PROVE  TIInv'
    <2>1. Together'
      BY <1>3, <1>14 DEF Together
    <2> QED BY <1>6, <1>7, <1>11, <1>12, <1>13, <1>14, <2>1 DEF TIInv, Runs
  <1>15. ASSUME \A q \in User : Answered(q)' <=> Answered(q),
                FsTakes' =>
                   \/ Asked(buffer[TASK_FS])'
                   \/ \E p \in User : buffer'[TASK_FS] = LineMessage(p)' /\ asked'[p] = "READ",
                TtyAsks' => buffer'[TASK_TTY] = LineMessage(reader)',
                ~TtyTakes', ~TtyReplies'
         PROVE  Messages'
    <2>1. ASSUME NEW q \in User, Offers(q, TASK_FS)'
          PROVE  buffer'[q].source = q /\ Asked(buffer[q])'
      <3>1. Offers(q, TASK_FS) /\ buffer'[q] = buffer[q]
        BY <1>6, <1>11, <1>13, <2>1, Procs
      <3>2. buffer[q].source = q /\ Asked(buffer[q])
        BY <1>2, <3>1 DEF Runs, Messages
      <3> QED BY <1>8, <3>1, <3>2
    <2>2. ASSUME NEW q \in User, Answered(q)'
          PROVE  Answer(buffer[q], q)'
      <3>1. Answered(q) /\ buffer'[q] = buffer[q]
        BY <1>6, <1>13, <1>15, <2>2
      <3>2. Answer(buffer[q], q)
        BY <1>2, <3>1 DEF Runs, Messages
      <3> QED BY <1>8, <3>1, <3>2
    <2>3. ~Offers(TASK_FS, TASK_TTY)' /\ \A q \in User : ~Offers(TASK_FS, q)'
      BY <1>11, <1>13, Procs
    <2> QED BY <1>3, <1>15, <2>1, <2>2, <2>3 DEF Messages
  <1>16. ASSUME NEW sender \in Proc,
                Offers(sender, TASK_FS),
                Free(TASK_FS)', Free(sender)', buffer'[TASK_FS] = buffer[sender],
                SameBut(sender),
                \A x, y \in Proc : Offers(x, y)' <=> Offers(x, y) /\ x # sender
         PROVE  TIInv'
    <2>1. sender # TASK_FS /\ FsTakes' /\ FsInStep'
      BY <1>1, <1>9, <1>16, Procs DEF FsTakes, FsInStep
    <2>2. /\ \A x \in Proc \ {sender} : Free(x)' <=> Free(x)
          /\ \A x \in Proc \ {sender} : \A y : Waiting(x, y)' <=> Waiting(x, y)
          /\ \A y : ~Offers(sender, y)' /\ ~Waiting(sender, y)'
          /\ \A x \in Proc \ {sender} : Offers(x, TASK_FS)' <=> Offers(x, TASK_FS)
          /\ ~Free(sender) /\ \A y : ~Waiting(sender, y)
      <3>1. ~Free(sender) /\ \A y : ~Waiting(sender, y)
        BY <1>2, <1>16, Exclusive
      <3>2. \A y : ~Offers(sender, y)' /\ ~Waiting(sender, y)'
        BY <1>16 DEF Free, Waiting, Offers, Sending
      <3> QED BY <1>16, <3>1, <3>2, Procs DEF SameBut
    <2>3. CASE sender = TASK_TTY
      <3> DEFINE r == reader
      <3>1. tty_pc = "resumed" /\ TtyAsks /\ at <= Len(ttys_table)
        BY <1>2, <1>4, <1>16, <2>2, <2>3 DEF Runs, TtyInStep, TtyReplies, TtyAsks
      <3>2. polled \in Tty /\ HasReader(polled)
        BY <1>2, <1>16, <2>3, <3>1, Polled DEF HasReader
      <3>3. /\ r \in User /\ TtyOf[r] = polled /\ asked[r] = "READ" /\ phase[r] # "idle"
            /\ TtyHolds(r) /\ ~Offers(r, TASK_FS) /\ ~Answered(r)
        BY <1>2, <3>2, ReaderIsHeld DEF reader
      <3>4. buffer'[TASK_FS] = LineMessage(r)'
        <4>1. buffer[TASK_TTY] = LineMessage(r)
          BY <1>2, <3>1 DEF Runs, Messages
        <4> QED BY <1>8, <1>16, <2>3, <4>1
      <3>5. /\ \A q \in User : Free(q)' <=> Free(q)
            /\ \A q \in User : \A y : Waiting(q, y)' <=> Waiting(q, y)
            /\ \A q \in User : Offers(q, TASK_FS)' <=> Offers(q, TASK_FS)
            /\ \A q \in User : Answered(q)' <=> Answered(q)
        BY <1>1, <1>13, <2>2, <2>3 DEF Answered
      <3>6. ~TtyTakes' /\ ~TtyReplies' /\ ~TtyAsks' /\ TtyInStep'
        BY <1>1, <1>16, <2>2, <2>3, <3>1 DEF TtyTakes, TtyReplies, TtyAsks, TtyInStep
      <3>7. /\ \A d \in Tty \ {polled} : HasReader(d)' <=> HasReader(d)
            /\ ~HasReader(polled)'
        BY <1>1, <1>8, <2>2, <2>3, <3>1 DEF HasReader
      <3>8. /\ ~TtyHolds(r)'
            /\ \A q \in User \ {r} : TtyHolds(q)' <=> TtyHolds(q)
        <4>1. ~TtyHolds(r)'
          BY <1>8, <3>3, <3>7 DEF TtyHolds
        <4>2. ASSUME NEW q \in User \ {r} PROVE TtyHolds(q)' <=> TtyHolds(q)
          BY <1>1, <1>8, <1>13, <3>7 DEF TtyHolds, reader
        <4> QED BY <4>1, <4>2
      <3>9. \A q \in User : ~FsRequest(q)'
        <4>1. buffer'[TASK_FS].source = TASK_TTY
          BY <3>4 DEF LineMessage
        <4> QED BY <1>3, <1>13, <4>1 DEF FsRequest
      <3>10. FsHolds(r)' /\ \A q \in User \ {r} : ~FsHolds(q)'
        <4>1. \A q, k : Resume(k, q).process_index = q
          BY Fields
        <4>2. \A q \in User \ {r} : buffer'[TASK_FS] # LineMessage(q)'
          BY <1>8, <3>4, <4>1 DEF LineMessage
        <4> QED BY <1>11, <1>13, <2>1, <3>4, <3>9, <4>2 DEF FsHolds
      <3>11. ASSUME NEW q \in User
             PROVE  UserInStep(q)' /\ InOnePlace(q)' /\ LineFits(q)'
        <4>1. UserInStep(q) /\ InOnePlace(q) /\ LineFits(q)
          BY <1>2 DEF Runs
        <4>2. UserInStep(q)'
          BY <1>1, <3>5, <4>1 DEF UserInStep
        <4>3. InOnePlace(q)'
          <5>1. CASE q = r
            BY <1>1, <1>8, <3>3, <3>5, <3>8, <3>10, <5>1 DEF InOnePlace
          <5>2. CASE q # r
            BY <1>1, <1>10, <3>5, <3>8, <3>10, <4>1, <5>2 DEF InOnePlace
          <5> QED BY <5>1, <5>2
        <4>4. LineFits(q)'
          BY <1>1, <3>5, <3>9, <4>1 DEF LineFits
        <4> QED BY <4>2, <4>3, <4>4
      <3>12. Messages'
        BY <1>1, <1>8, <1>15, <3>3, <3>4, <3>5, <3>6
      <3>13. Readers'
        <4>1. \A d \in Tty : HasReader(d)' => HasReader(d)
          BY <3>2, <3>7
        <4> QED BY <1>1, <1>2, <4>1 DEF Runs, Readers
      <3> QED BY <1>14, <2>1, <3>6, <3>11, <3>12, <3>13
    <2>4. CASE sender # TASK_TTY
      <3>1. sender \in User
        BY <2>1, <2>4, Procs
      <3>2. /\ buffer[sender].source = sender /\ Asked(buffer[sender])
            /\ UserInStep(sender) /\ InOnePlace(sender) /\ LineFits(sender)
        BY <1>2, <1>16, <3>1 DEF Runs, Messages
      <3>3. phase[sender] = "called" /\ ~TtyHolds(sender)
        BY <1>16, <2>2, <3>2 DEF UserInStep, InOnePlace
      <3>4. /\ Free(TASK_TTY)' <=> Free(TASK_TTY)
            /\ \A y : Waiting(TASK_TTY, y)' <=> Waiting(TASK_TTY, y)
            /\ Offers(TASK_TTY, TASK_FS)' <=> Offers(TASK_TTY, TASK_FS)
            /\ buffer'[TASK_TTY] = buffer[TASK_TTY]
        BY <1>6, <2>2, <2>4, Procs
      <3>5. /\ TtyTakes' <=> TtyTakes
            /\ TtyReplies' <=> TtyReplies
            /\ TtyAsks' <=> TtyAsks
            /\ \A d : HasReader(d)' <=> HasReader(d)
        BY <1>1, <1>8, <3>4 DEF TtyTakes, TtyReplies, TtyAsks, HasReader
      <3>6. TtyInStep'
        BY <1>1, <1>2, <3>4 DEF Runs, TtyInStep
      <3>7. \A q \in User : TtyHolds(q)' <=> TtyHolds(q)
        BY <1>1, <3>5 DEF TtyHolds
      <3>8. \A q \in User : Answered(q)' <=> Answered(q)
        BY <1>1, <1>13, <2>2, <3>3 DEF Answered
      <3>9. FsRequest(sender)' /\ \A q \in User \ {sender} : ~FsRequest(q)'
        BY <1>3, <1>16, <2>1, <3>2 DEF FsRequest
      <3>10. FsHolds(sender)' /\ \A q \in User \ {sender} : ~FsHolds(q)'
        <4>1. \A q, k : buffer'[TASK_FS].body # Resume(k, q)
          BY <1>16, <3>2, LineIsNoCall
        <4>2. \A q : buffer'[TASK_FS] # LineMessage(q)'
          BY <1>8, <4>1 DEF LineMessage
        <4> QED BY <1>11, <1>13, <3>9, <4>2 DEF FsHolds
      <3>11. ASSUME NEW q \in User
             PROVE  UserInStep(q)' /\ InOnePlace(q)' /\ LineFits(q)'
        <4>1. CASE q = sender
          <5>1. UserInStep(q)'
            BY <1>1, <1>16, <3>2, <3>3, <4>1 DEF UserInStep
          <5>2. InOnePlace(q)'
            BY <1>1, <2>2, <3>3, <3>7, <3>8, <3>10, <4>1 DEF InOnePlace, Answered
          <5>3. LineFits(q)'
            BY <1>1, <1>16, <3>2, <4>1 DEF LineFits
          <5> QED BY <5>1, <5>2, <5>3
        <4>2. CASE q # sender
          <5>1. /\ UserInStep(q) /\ InOnePlace(q) /\ LineFits(q)
                /\ Free(q)' <=> Free(q)
                /\ \A y : Waiting(q, y)' <=> Waiting(q, y)
                /\ Offers(q, TASK_FS)' <=> Offers(q, TASK_FS)
            BY <1>2, <1>13, <2>2, <4>2 DEF Runs
          <5>2. UserInStep(q)'
            BY <1>1, <5>1 DEF UserInStep
          <5>3. InOnePlace(q)'
            BY <1>1, <1>10, <3>7, <3>8, <3>10, <4>2, <5>1 DEF InOnePlace
          <5>4. LineFits(q)'
            BY <1>1, <3>9, <4>2, <5>1 DEF LineFits
          <5> QED BY <5>2, <5>3, <5>4
        <4> QED BY <4>1, <4>2
      <3>12. TtyAsks' => buffer'[TASK_TTY] = LineMessage(reader)'
        BY <1>2, <1>8, <3>4, <3>5 DEF Runs, Messages
      <3>13. Asked(buffer[TASK_FS])'
        BY <1>8, <1>16, <3>2
      <3>14. Messages'
        BY <1>4, <1>15, <3>5, <3>8, <3>12, <3>13
      <3>15. Readers'
        BY <1>1, <1>2, <3>5 DEF Runs, Readers
      <3> QED BY <1>4, <1>14, <2>1, <3>5, <3>6, <3>11, <3>14, <3>15
    <2> QED BY <2>3, <2>4
  <1>17. CASE /\ Waiting(TASK_FS, SR_TARGET_ANY)'
              /\ SameBut(TASK_FS)
              /\ \A x, y \in Proc : Offers(x, y)' <=> Offers(x, y)
    <2>1. ~FsTakes' /\ FsInStep'
      BY <1>1, <1>17 DEF FsTakes, FsInStep, Free, Waiting
    <2>2. /\ \A x \in Proc \ {TASK_FS} : Free(x)' <=> Free(x)
          /\ \A x \in Proc \ {TASK_FS} : \A y : Waiting(x, y)' <=> Waiting(x, y)
      BY <1>17 DEF SameBut
    <2>3. /\ Free(TASK_TTY)' <=> Free(TASK_TTY)
          /\ \A y : Waiting(TASK_TTY, y)' <=> Waiting(TASK_TTY, y)
          /\ Offers(TASK_TTY, TASK_FS)' <=> Offers(TASK_TTY, TASK_FS)
          /\ buffer'[TASK_TTY] = buffer[TASK_TTY]
      BY <1>6, <1>17, <2>2, Procs
    <2>4. /\ TtyTakes' <=> TtyTakes
          /\ TtyReplies' <=> TtyReplies
          /\ TtyAsks' <=> TtyAsks
          /\ \A d : HasReader(d)' <=> HasReader(d)
      BY <1>1, <1>8, <2>3 DEF TtyTakes, TtyReplies, TtyAsks, HasReader
    <2>5. TtyInStep'
      BY <1>1, <1>2, <2>3 DEF Runs, TtyInStep
    <2>6. /\ \A q \in User : TtyHolds(q)' <=> TtyHolds(q)
          /\ \A q \in User : Answered(q)' <=> Answered(q)
      BY <1>1, <1>13, <2>2, <2>4 DEF TtyHolds, Answered
    <2>7. \A q \in User : ~FsRequest(q)' /\ ~FsHolds(q)'
      BY <1>3, <1>11, <1>13, <2>1 DEF FsRequest, FsHolds
    <2>8. ASSUME NEW q \in User
          PROVE  UserInStep(q)' /\ InOnePlace(q)' /\ LineFits(q)'
      <3>1. /\ UserInStep(q) /\ InOnePlace(q) /\ LineFits(q)
            /\ Free(q)' <=> Free(q)
            /\ \A y : Waiting(q, y)' <=> Waiting(q, y)
            /\ Offers(q, TASK_FS)' <=> Offers(q, TASK_FS)
        BY <1>2, <1>13, <1>17, <2>2, Procs DEF Runs
      <3>2. UserInStep(q)'
        BY <1>1, <3>1 DEF UserInStep
      <3>3. InOnePlace(q)'
        BY <1>1, <1>10, <2>6, <2>7, <3>1 DEF InOnePlace
      <3>4. LineFits(q)'
        BY <1>1, <2>7, <3>1 DEF LineFits
      <3> QED BY <3>2, <3>3, <3>4
    <2>9. TtyAsks' => buffer'[TASK_TTY] = LineMessage(reader)'
      BY <1>2, <1>8, <2>3, <2>4 DEF Runs, Messages
    <2>10. Messages'
      BY <1>4, <1>15, <2>1, <2>4, <2>6, <2>9
    <2>11. Readers'
      BY <1>1, <1>2, <2>4 DEF Runs, Readers
    <2> QED BY <1>4, <1>14, <2>1, <2>4, <2>5, <2>8, <2>10, <2>11
  <1> QED BY <1>6, <1>16, <1>17

\* The call that the file system has in hand is one.
LEMMA FsHoldsOne ==
    ASSUME NEW p \in User, NEW q \in User, Free(TASK_FS), KernelInv,
           FsHolds(p), FsHolds(q)
    PROVE  p = q
  <1>1. ~Offers(TASK_FS, p) /\ ~Offers(TASK_FS, q)
    BY Exclusive, Procs
  <1>2. FsTakes => ~FsWorks
    BY DEF FsTakes, FsWorks
  <1>3. CASE FsTakes
    <2>1. \A x : FsHolds(x) /\ ~Offers(TASK_FS, x) =>
             buffer[TASK_FS].source = x \/ buffer[TASK_FS] = LineMessage(x)
      BY <1>2, <1>3 DEF FsHolds, FsRequest
    <2>2. \A x : LineMessage(x).source = TASK_TTY /\ LineMessage(x).body.process_index = x
      BY Fields DEF LineMessage
    <2> QED BY <1>1, <2>1, <2>2, Procs
  <1>4. CASE ~FsTakes
    BY <1>1, <1>4 DEF FsHolds, FsRequest
  <1> QED BY <1>3, <1>4

\* The file system answers a process.
LEMMA FsAnswers ==
    ASSUME TIInv, TypeOK' => TTypeOK', ~panicked, FsTakes \/ FsReplied,
           NEW p \in User, FsHolds(p), NEW n \in 0..MaxCount,
           asked[p] = "READ" => n = Len(line[p]),
           Send(TASK_FS, p, SyscallRet(n)), fs_pc' = "receive",
           UNCHANGED <<tty, tty_pc, at, phase, asked, text, line>>
    PROVE  TIInv'
  <1> DEFINE m == [source |-> TASK_FS, body |-> SyscallRet(n)]
  <1>1. KernelInv /\ TTypeOK /\ Runs
    BY DEF TIInv
  <1>2. /\ Free(TASK_FS) /\ ~FsAwaits /\ ~TtyTakes /\ ~TtyReplies
        /\ ~FsTakes' /\ ~FsWorks' /\ ~FsAwaits' /\ ~FsReplied'
    <2>1. Free(TASK_FS) /\ fs_pc \in {"handle", "driven"}
      BY DEF FsTakes, FsReplied
    <2>2. ~FsAwaits
      BY <1>1, <2>1, Exclusive, Procs DEF FsAwaits
    <2>3. ~FsTakes' /\ ~FsWorks' /\ ~FsAwaits' /\ ~FsReplied'
      BY DEF FsTakes, FsWorks, FsAwaits, FsReplied
    <2> QED BY <1>1, <2>1, <2>2, <2>3 DEF Runs, Together
  <1>3. m \in Message /\ message_send(TASK_FS, p, m) /\ UNCHANGED pending
    BY BodiesAre, Procs DEF Message, Send
  <1>4. /\ p \in Proc \ {TASK_FS, TASK_TTY}
        /\ \A q \in User : q \in Proc \ {TASK_FS, TASK_TTY} /\ TtyOf[q] \in Tty
    BY Procs, TerminalAssumption
  <1>5. /\ \A x \in Proc : ~Offers(TASK_FS, x)
        /\ \A q \in User \ {p} : ~FsHolds(q)
    BY <1>1, <1>2, Exclusive, Procs, FsHoldsOne
  <1>6. /\ UserInStep(p) /\ phase[p] # "idle" /\ ~TtyHolds(p)
        /\ ~Offers(p, TASK_FS) /\ ~Answered(p)
        /\ \/ phase[p] = "called" /\ Free(p)
           \/ phase[p] = "receiving" /\ Waiting(p, TASK_FS)
    <2>1. UserInStep(p) /\ InOnePlace(p)
      BY <1>1 DEF Runs
    <2>2. phase[p] # "idle" /\ ~TtyHolds(p) /\ ~Offers(p, TASK_FS) /\ ~Answered(p)
      BY <2>1 DEF InOnePlace
    <2> QED BY <2>1, <2>2 DEF UserInStep, Answered
  <1>7. /\ KernelInv'
        /\ UNCHANGED has_int_msg
        /\ buffer'[TASK_FS] = m
        /\ \A x \in Proc \ {TASK_FS, p} : buffer'[x] = buffer[x]
        /\ \/ SendPanics(TASK_FS, p, m)
           \/ /\ UNCHANGED panicked
              /\ Waiting(p, TASK_FS) \/ Waiting(p, SR_TARGET_ANY)
              /\ Free(TASK_FS)' /\ Free(p)' /\ buffer'[p] = m
              /\ SameBut(p)
              /\ \A x, y \in Proc : Offers(x, y)' <=> Offers(x, y)
           \/ /\ UNCHANGED panicked
              /\ ~Waiting(p, TASK_FS) /\ ~Waiting(p, SR_TARGET_ANY)
              /\ buffer'[p] = buffer[p]
              /\ SameBut(TASK_FS)
              /\ \A x, y \in Proc :
                    Offers(x, y)' <=> Offers(x, y) \/ (x = TASK_FS /\ y = p)
    BY <1>1, <1>2, <1>3, <1>4, SendResult, Procs
  <1>8. TTypeOK'
    BY <1>1, <1>3, <1>7 DEF TTypeOK, TypeOK, KernelInv
  <1>9. CASE SendPanics(TASK_FS, p, m)
    BY <1>5, <1>7, <1>8, <1>9, <1>4, SameIpc, Procs DEF SendPanics, TIInv
  <1>10. CASE ~SendPanics(TASK_FS, p, m)
    <2>1. UNCHANGED <<panicked, has_int_msg, pending>>
      BY <1>3, <1>7, <1>10
    <2>2. /\ \A q \in User \ {p} : Free(q)' <=> Free(q)
          /\ \A q \in User \ {p} : \A y : Waiting(q, y)' <=> Waiting(q, y)
          /\ Free(TASK_TTY)' <=> Free(TASK_TTY)
          /\ \A y : Waiting(TASK_TTY, y)' <=> Waiting(TASK_TTY, y)
          /\ buffer'[TASK_TTY] = buffer[TASK_TTY]
          /\ \A q \in User \ {p} : buffer'[q] = buffer[q]
          /\ \A q \in User : Offers(q, TASK_FS)' <=> Offers(q, TASK_FS)
          /\ Offers(TASK_TTY, TASK_FS)' <=> Offers(TASK_TTY, TASK_FS)
          /\ \A x \in Proc : Offers(TASK_FS, x)' => x = p
          /\ \A x, y \in Proc : Offers(x, y)' => TASK_FS \in {x, y}
      <3>1. /\ \A q \in User \ {p} : Free(q)' <=> Free(q)
            /\ \A q \in User \ {p} : \A y : Waiting(q, y)' <=> Waiting(q, y)
            /\ Free(TASK_TTY)' <=> Free(TASK_TTY)
            /\ \A y : Waiting(TASK_TTY, y)' <=> Waiting(TASK_TTY, y)
        BY <1>4, <1>7, <1>10, Procs DEF SameBut
      <3>2. \A x, y \in Proc : Offers(x, y) => TASK_FS \in {x, y}
        BY <1>1 DEF Runs, Partners
      <3>3. \A x, y \in Proc : Offers(x, y)' => Offers(x, y) \/ (x = TASK_FS /\ y = p)
        BY <1>7, <1>10
      <3>4. \A x, y \in Proc : x # TASK_FS => (Offers(x, y)' <=> Offers(x, y))
        BY <1>7, <1>10
      <3> QED BY <1>4, <1>5, <1>7, <3>1, <3>2, <3>3, <3>4, Procs
    <2>3. /\ ~TtyTakes' /\ ~TtyReplies'
          /\ TtyAsks' <=> TtyAsks
          /\ \A d : HasReader(d)' <=> HasReader(d)
          /\ reader' = reader
      BY <1>2, <2>2 DEF TtyTakes, TtyReplies, TtyAsks, HasReader, polled, reader
    <2>4. \/ /\ Answered(p)' /\ ~Offers(TASK_FS, p)' /\ Free(TASK_FS)' /\ buffer'[p] = m
          \/ /\ ~Answered(p)' /\ Offers(TASK_FS, p)'
             /\ Free(p)' <=> Free(p)
             /\ \A y : Waiting(p, y)' <=> Waiting(p, y)
      <3>1. CASE Waiting(p, TASK_FS) \/ Waiting(p, SR_TARGET_ANY)
        <4>1. phase[p] = "receiving"
          BY <1>1, <1>4, <1>6, <3>1, Exclusive
        <4> QED BY <1>4, <1>5, <1>7, <1>10, <3>1, <4>1, Procs DEF Answered
      <3>2. CASE ~Waiting(p, TASK_FS) /\ ~Waiting(p, SR_TARGET_ANY)
        <4>1. phase[p] = "called"
          BY <1>6, <3>2
        <4> QED BY <1>4, <1>7, <1>10, <3>2, <4>1, Procs DEF Answered, SameBut
      <3> QED BY <3>1, <3>2
    <2>5. Partners' /\ TtyInStep' /\ FsInStep' /\ Together'
      <3>1. fs_pc # "driver"
        BY DEF FsTakes, FsReplied
      <3>2. Partners'
        BY <1>1, <2>1, <2>2, <3>1 DEF Runs, Partners
      <3>3. TtyInStep'
        BY <1>1, <2>2 DEF Runs, TtyInStep
      <3> QED BY <1>2, <2>3, <2>4, <3>2, <3>3 DEF FsInStep, Together
    <2>6. /\ \A q \in User : ~FsRequest(q)'
          /\ \A q \in User \ {p} : ~FsHolds(q)'
          /\ FsHolds(p)' <=> Offers(TASK_FS, p)'
      BY <1>2, <1>4, <2>2 DEF FsRequest, FsHolds
    <2>7. /\ \A q \in User : TtyHolds(q)' <=> TtyHolds(q)
          /\ \A q \in User \ {p} : Answered(q)' <=> Answered(q)
      BY <2>2, <2>3 DEF TtyHolds, Answered
    <2>8. /\ \A x : Asked(x)' <=> Asked(x)
          /\ \A x, q : Answer(x, q)' <=> Answer(x, q)
          /\ \A q : UNCHANGED LineMessage(q)
          /\ Answer(m, p)
      BY DEF Asked, Answer, LineMessage
    <2>9. ASSUME NEW q \in User
          PROVE  UserInStep(q)' /\ InOnePlace(q)' /\ LineFits(q)'
      <3>1. UserInStep(q) /\ InOnePlace(q) /\ LineFits(q)
        BY <1>1 DEF Runs
      <3>2. LineFits(q)'
        BY <2>2, <2>6, <3>1 DEF LineFits
      <3>3. CASE q = p
        <4>1. UserInStep(p)'
          BY <1>6, <2>4 DEF UserInStep, Answered
        <4>2. InOnePlace(p)'
          BY <1>6, <2>2, <2>4, <2>6, <2>7 DEF InOnePlace
        <4> QED BY <3>2, <3>3, <4>1, <4>2
      <3>4. CASE q # p
        <4>1. UserInStep(q)'
          BY <2>2, <3>1, <3>4 DEF UserInStep
        <4>2. InOnePlace(q)'
          BY <1>5, <2>2, <2>6, <2>7, <3>1, <3>4 DEF InOnePlace
        <4> QED BY <3>2, <4>1, <4>2
      <3> QED BY <3>3, <3>4
    <2>10. Messages'
      <3>1. ASSUME NEW q \in User, Offers(q, TASK_FS)'
            PROVE  buffer'[q].source = q /\ Asked(buffer[q])'
        <4>1. Offers(q, TASK_FS) /\ q # p
          BY <1>6, <2>2, <3>1
        <4>2. buffer[q].source = q /\ Asked(buffer[q])
          BY <1>1, <4>1 DEF Runs, Messages
        <4> QED BY <2>2, <2>8, <4>1, <4>2
      <3>2. TtyAsks' => buffer'[TASK_TTY] = LineMessage(reader)'
        BY <1>1, <2>2, <2>3, <2>8 DEF Runs, Messages
      <3>3. ASSUME NEW q \in User, Offers(TASK_FS, q)'
            PROVE  Answer(buffer[TASK_FS], q)'
        BY <1>4, <1>7, <2>2, <2>8, <3>3
      <3>4. ASSUME NEW q \in User, Answered(q)'
            PROVE  Answer(buffer[q], q)'
        <4>1. CASE q = p
          BY <2>4, <2>8, <3>4, <4>1
        <4>2. CASE q # p
          <5>1. Answer(buffer[q], q)
            BY <1>1, <2>7, <3>4, <4>2 DEF Runs, Messages
          <5> QED BY <2>2, <2>8, <4>2, <5>1
        <4> QED BY <4>1, <4>2
      <3>5. ~Offers(TASK_FS, TASK_TTY)'
        BY <1>4, <2>2, Procs
      <3> QED BY <1>2, <2>3, <3>1, <3>2, <3>3, <3>4, <3>5 DEF Messages
    <2>11. Readers'
      BY <1>1, <2>3 DEF Runs, Readers
    <2> QED BY <1>4, <1>6, <1>7, <1>8, <2>1, <2>2, <2>5, <2>9, <2>10, <2>11 DEF TIInv, Runs
  <1> QED BY <1>9, <1>10

\* The wish to resume a process becomes the answer to it.
LEMMA FsResumesKeeps ==
    ASSUME TIInv, FsResumes
    PROVE  TIInv'
  <1>1. /\ fs_pc = "handle" /\ fs_pc' = "receive" /\ ~panicked /\ Free(TASK_FS)
        /\ buffer[TASK_FS].body.type = "RESUME_PROC"
        /\ Send(TASK_FS, buffer[TASK_FS].body.process_index,
                SyscallRet(buffer[TASK_FS].body.count))
        /\ UNCHANGED <<tty, tty_pc, at, current, keys, tty_key_pressed, fs_msg>>
        /\ UNCHANGED <<phase, asked, text, line>>
    BY DEF FsResumes, Runnable, Free, ttyVars, keyVars, userVars
  <1>2. TTypeOK /\ Runs /\ FsTakes
    BY <1>1 DEF TIInv, FsTakes
  <1>3. ~Asked(buffer[TASK_FS])
    <2>1. Asked(buffer[TASK_FS]) => buffer[TASK_FS].body.type \in Call
      BY CallOf
    <2> QED BY <1>1, <2>1 DEF Call
  <1>4. PICK p \in User : buffer[TASK_FS] = LineMessage(p) /\ asked[p] = "READ"
    BY <1>2, <1>3 DEF Runs, Messages
  <1>5. /\ buffer[TASK_FS].body.process_index = p
        /\ buffer[TASK_FS].body.count = Len(line[p])
    BY <1>4, Fields DEF LineMessage
  <1>6. Len(line[p]) \in 0..MaxCount
    <2>1. line[p] \in Seq(Char) /\ DOMAIN line[p] \subseteq 1..MaxCount
      BY <1>2 DEF TTypeOK, Runs, LineFits
    <2>2. Len(line[p]) \in Nat /\ DOMAIN line[p] = 1..Len(line[p]) /\ MaxCount \in Nat
      BY <2>1, LenProperties, TerminalAssumption
    <2>3. CASE Len(line[p]) = 0
      BY <2>2, <2>3
    <2>4. CASE Len(line[p]) # 0
      <3>1. Len(line[p]) \in DOMAIN line[p]
        BY <2>2, <2>4
      <3> QED BY <2>1, <2>2, <3>1
    <2> QED BY <2>3, <2>4
  <1>7. FsHolds(p)
    BY <1>2, <1>4 DEF FsHolds
  <1>8. TypeOK' => TTypeOK'
    BY <1>1, <1>2 DEF TTypeOK
  <1> QED BY <1>1, <1>2, <1>5, <1>6, <1>7, <1>8, FsAnswers

\* The file system has its answer from the driver, with the count it asked for.
LEMMA FsDrivenKeeps ==
    ASSUME TIInv, FsDriven
    PROVE  TIInv'
  <1> DEFINE reply == buffer[TASK_FS].body
             p == fs_msg.source
  <1>1. /\ fs_pc = "driven" /\ ~panicked /\ Free(TASK_FS)
        /\ UNCHANGED <<tty, tty_pc, at, current, keys, tty_key_pressed>>
        /\ UNCHANGED <<phase, asked, text, line>>
        /\ \/ reply.count # fs_msg.body.count
           \/ /\ reply.count = fs_msg.body.count
              /\ fs_pc' = "receive" /\ fs_msg' = NoMsg
              /\ \/ reply.type = "SUSPEND_PROC" /\ UNCHANGED vars
                 \/ /\ reply.type # "SUSPEND_PROC"
                    /\ Send(TASK_FS, fs_msg.source, SyscallRet(reply.count))
    BY DEF FsDriven, Runnable, Free, ttyVars, keyVars, userVars
  <1>2. KernelInv /\ TTypeOK /\ Runs /\ FsReplied /\ FsWorks
    BY <1>1 DEF TIInv, FsReplied, FsWorks
  <1>3. buffer[TASK_FS] = DriverAnswer
    BY <1>2 DEF Runs, Messages
  <1>4. ASSUME fs_msg.body.type # "READ"
        PROVE  /\ p \in User /\ asked[p] = fs_msg.body.type
               /\ fs_msg.body.count \in 0..MaxCount
    <2>1. Asked(fs_msg)
      BY <1>2, <1>4 DEF Runs, Messages, Suspended
    <2> QED BY <2>1, CallOf
  <1>5. /\ reply.count = fs_msg.body.count
        /\ reply.type = "SUSPEND_PROC" <=> fs_msg.body.type = "READ"
    BY <1>3, Fields DEF DriverAnswer
  <1>6. fs_pc' = "receive" /\ fs_msg' = NoMsg
    BY <1>1, <1>5
  <1>7. TypeOK' => TTypeOK'
    <2>1. fs_msg' \in Message
      BY <1>6, Procs DEF NoMsg, Message
    <2> QED BY <1>1, <1>2, <1>6, <2>1 DEF TTypeOK
  <1>8. CASE reply.type # "SUSPEND_PROC"
    <2>1. Send(TASK_FS, p, SyscallRet(fs_msg.body.count))
      BY <1>1, <1>5, <1>8
    <2>2. p \in User /\ asked[p] # "READ" /\ fs_msg.body.count \in 0..MaxCount
      BY <1>4, <1>5, <1>8
    <2>3. FsHolds(p)
      BY <1>2, <1>5, <1>8 DEF FsHolds, FsRequest, Suspended
    <2> QED BY <1>1, <1>2, <1>6, <1>7, <2>1, <2>2, <2>3, FsAnswers
  <1>9. CASE reply.type = "SUSPEND_PROC"
    <2>1. UNCHANGED vars /\ fs_msg.body.type = "READ"
      BY <1>1, <1>5, <1>9
    <2>2. TTypeOK' /\ KernelInv'
      BY <1>2, <1>7, <2>1, SameVars DEF TTypeOK
    <2>3. ~FsAwaits /\ ~TtyTakes /\ ~TtyReplies
      BY <1>1, <1>2, Exclusive, Procs DEF FsAwaits, Runs, Together
    <2>4. /\ ~FsTakes' /\ ~FsWorks' /\ ~FsAwaits' /\ ~FsReplied'
          /\ ~TtyTakes' /\ ~TtyReplies'
          /\ TtyAsks' <=> TtyAsks
      BY <1>1, <1>6, <2>1, <2>3, SameVars
      DEF FsTakes, FsWorks, FsAwaits, FsReplied, TtyTakes, TtyReplies, TtyAsks
    <2>5. /\ \A d : HasReader(d)' <=> HasReader(d)
          /\ reader' = reader
      BY <1>1, <2>1, SameVars DEF HasReader, polled, reader
    <2>6. \A x \in Proc : ~Offers(TASK_FS, x)
      BY <1>1, <1>2, Exclusive, Procs
    <2>7. \A q \in User : q \in Proc
      BY Procs
    <2>8. \A q \in User : ~FsRequest(q) /\ ~FsHolds(q)
      BY <1>1, <1>2, <2>1, <2>6, <2>7 DEF FsRequest, FsHolds, FsTakes, Suspended
    <2>9. \A q \in User : ~FsRequest(q)' /\ ~FsHolds(q)'
      BY <2>1, <2>4, <2>6, <2>7, SameVars DEF FsRequest, FsHolds
    <2>10. /\ \A q \in User : TtyHolds(q)' <=> TtyHolds(q)
           /\ \A q \in User : Answered(q)' <=> Answered(q)
      BY <1>1, <2>1, <2>5, SameVars DEF TtyHolds, Answered
    <2>11. Partners' /\ TtyInStep' /\ FsInStep' /\ Together'
      BY <1>1, <1>2, <1>6, <2>1, <2>4, SameVars
      DEF Runs, Partners, TtyInStep, FsInStep, Together
    <2>12. \A q \in User : UserInStep(q)' /\ InOnePlace(q)' /\ LineFits(q)'
      <3> SUFFICES ASSUME NEW q \in User
                   PROVE  UserInStep(q)' /\ InOnePlace(q)' /\ LineFits(q)'
        OBVIOUS
      <3>1. UserInStep(q) /\ InOnePlace(q) /\ LineFits(q)
        BY <1>2 DEF Runs
      <3>2. UserInStep(q)'
        BY <1>1, <2>1, <3>1, SameVars DEF UserInStep
      <3>3. InOnePlace(q)'
        BY <1>1, <2>1, <2>8, <2>9, <2>10, <3>1, SameVars DEF InOnePlace
      <3>4. LineFits(q)'
        BY <1>1, <2>1, <2>9, <3>1, SameVars DEF LineFits
      <3> QED BY <3>2, <3>3, <3>4
    <2>13. /\ \A x : Asked(x)' <=> Asked(x)
           /\ \A x, q : Answer(x, q)' <=> Answer(x, q)
           /\ \A q : UNCHANGED LineMessage(q)
      BY <1>1 DEF Asked, Answer, LineMessage
    <2>14. Messages'
      BY <1>2, <2>1, <2>4, <2>5, <2>6, <2>7, <2>10, <2>13, SameVars, Procs DEF Runs, Messages
    <2>15. Readers'
      BY <1>1, <1>2, <2>5 DEF Runs, Readers
    <2> QED BY <2>1, <2>2, <2>6, <2>7, <2>11, <2>12, <2>14, <2>15, SameVars DEF TIInv, Runs
  <1> QED BY <1>8, <1>9

\* A call is passed on to the driver.
LEMMA FsCallsDriverKeeps ==
    ASSUME TIInv, FsCallsDriver
    PROVE  TIInv'
  <1> DEFINE c == buffer[TASK_FS]
             b == Msg(Driver[c.body.type], c.body.device, c.body.count, c.source)
             m == [source |-> TASK_FS, body |-> b]
  <1>1. /\ fs_pc = "handle" /\ fs_pc' = "driver" /\ ~panicked /\ Free(TASK_FS)
        /\ c.body.type \in Call /\ fs_msg' = c
        /\ message_send(TASK_FS, TASK_TTY, m)
        /\ pending' = [pending EXCEPT ![TASK_FS] = TASK_TTY]
        /\ UNCHANGED <<tty, tty_pc, at, current, keys, tty_key_pressed>>
        /\ UNCHANGED <<phase, asked, text, line>>
    BY DEF FsCallsDriver, SendBoth, Runnable, Free, ttyVars, keyVars, userVars
  <1>2. KernelInv /\ TTypeOK /\ Runs /\ FsTakes
    BY <1>1 DEF TIInv, FsTakes
  <1>3. Asked(c)
    <2>1. ASSUME NEW p \in User, c = LineMessage(p) PROVE FALSE
      BY <1>1, <2>1, Fields DEF LineMessage, Call
    <2> QED BY <1>2, <2>1 DEF Runs, Messages
  <1>4. /\ c.source \in User /\ c.body.device \in Tty /\ c.body.count \in 0..MaxCount
        /\ c.body.type \in Call
    BY <1>3, CallOf
  <1>5. m \in Message /\ m = DriverRequest' /\ b \in Body
    <2>1. b \in Body
      BY <1>4, BodiesAre
    <2>2. m = DriverRequest'
      BY <1>1 DEF DriverRequest
    <2> QED BY <2>1, <2>2, Procs DEF Message
  <1> HIDE DEF b
  <1>6. /\ ~FsAwaits /\ ~FsWorks /\ ~FsReplied /\ ~TtyTakes /\ ~TtyReplies
        /\ FsWorks' /\ ~FsTakes' /\ ~FsReplied'
    <2>1. ~FsAwaits /\ ~FsWorks /\ ~FsReplied /\ FsWorks' /\ ~FsTakes' /\ ~FsReplied'
      BY <1>1 DEF FsAwaits, FsWorks, FsReplied, FsTakes
    <2>2. ~TtyTakes /\ ~TtyReplies
      BY <1>2, <2>1 DEF Runs, Together
    <2> QED BY <2>1, <2>2
  <1>7. /\ KernelInv'
        /\ UNCHANGED has_int_msg
        /\ \A x \in Proc \ {TASK_FS, TASK_TTY} : buffer'[x] = buffer[x]
        /\ buffer'[TASK_FS] = m
        /\ \/ SendPanics(TASK_FS, TASK_TTY, m)
           \/ /\ UNCHANGED panicked
              /\ Waiting(TASK_TTY, TASK_FS) \/ Waiting(TASK_TTY, SR_TARGET_ANY)
              /\ Free(TASK_FS)' /\ Free(TASK_TTY)' /\ buffer'[TASK_TTY] = m
              /\ SameBut(TASK_TTY)
              /\ \A x, y \in Proc : Offers(x, y)' <=> Offers(x, y)
           \/ /\ UNCHANGED panicked
              /\ ~Waiting(TASK_TTY, TASK_FS) /\ ~Waiting(TASK_TTY, SR_TARGET_ANY)
              /\ buffer'[TASK_TTY] = buffer[TASK_TTY]
              /\ SameBut(TASK_FS)
              /\ \A x, y \in Proc :
                    Offers(x, y)' <=> Offers(x, y) \/ (x = TASK_FS /\ y = TASK_TTY)
    BY <1>1, <1>2, <1>5, SendResult, Procs
  <1>8. TTypeOK'
    <2>1. pending' \in [Proc -> Proc \cup {SR_TARGET_NONE}] /\ fs_msg' \in Message
      BY <1>1, <1>2, Procs DEF TTypeOK, TypeOK, KernelTypeOK
    <2> QED BY <1>1, <1>2, <1>7, <2>1 DEF TTypeOK, TypeOK, KernelInv
  <1>9. /\ \A x \in Proc : ~Offers(TASK_FS, x)
        /\ \A q \in User : q \in Proc \ {TASK_FS, TASK_TTY} /\ TtyOf[q] \in Tty
    BY <1>1, <1>2, Exclusive, Procs, TerminalAssumption
  <1>10. CASE SendPanics(TASK_FS, TASK_TTY, m)
    BY <1>7, <1>8, <1>9, <1>10, SameIpc, Procs DEF SendPanics, TIInv
  <1>11. CASE ~SendPanics(TASK_FS, TASK_TTY, m)
    <2>1. UNCHANGED <<panicked, has_int_msg>>
      BY <1>7, <1>11
    <2>2. /\ \A q \in User : Free(q)' <=> Free(q)
          /\ \A q \in User : \A y : Waiting(q, y)' <=> Waiting(q, y)
          /\ \A q \in User : buffer'[q] = buffer[q]
          /\ \A q \in User : Offers(q, TASK_FS)' <=> Offers(q, TASK_FS)
          /\ Offers(TASK_TTY, TASK_FS)' <=> Offers(TASK_TTY, TASK_FS)
          /\ \A q \in User : ~Offers(TASK_FS, q)'
          /\ \A x, y \in Proc : Offers(x, y)' => TASK_FS \in {x, y}
      <3>1. /\ \A q \in User : Free(q)' <=> Free(q)
            /\ \A q \in User : \A y : Waiting(q, y)' <=> Waiting(q, y)
        BY <1>7, <1>9, <1>11 DEF SameBut
      <3>2. \A x, y \in Proc : Offers(x, y) => TASK_FS \in {x, y}
        BY <1>2 DEF Runs, Partners
      <3>3. \A x, y \in Proc : Offers(x, y)' => Offers(x, y) \/ (x = TASK_FS /\ y = TASK_TTY)
        BY <1>7, <1>11
      <3>4. \A x, y \in Proc : x # TASK_FS => (Offers(x, y)' <=> Offers(x, y))
        BY <1>7, <1>11
      <3> QED BY <1>7, <1>9, <3>1, <3>2, <3>3, <3>4, Procs
    <2>3. /\ TtyTakes' <=> FsAwaits'
          /\ TtyTakes' => buffer'[TASK_TTY] = m
          /\ ~TtyReplies'
          /\ TtyAsks' <=> TtyAsks
          /\ TtyAsks => buffer'[TASK_TTY] = buffer[TASK_TTY]
          /\ TtyInStep' /\ FsInStep'
      <3>1. CASE Waiting(TASK_TTY, TASK_FS) \/ Waiting(TASK_TTY, SR_TARGET_ANY)
        <4>1. /\ Free(TASK_FS)' /\ Free(TASK_TTY)' /\ buffer'[TASK_TTY] = m
          BY <1>7, <1>11, <3>1
        <4>2. /\ tty_pc = "handle" /\ ~Offers(TASK_TTY, TASK_FS)
          BY <1>2, <3>1, Exclusive, Procs DEF Runs, TtyInStep
        <4>3. TtyTakes' /\ FsAwaits'
          BY <1>1, <1>5, <4>1, <4>2, BodiesAre DEF TtyTakes, FsAwaits
        <4>4. ~TtyReplies' /\ ~TtyAsks' /\ ~TtyAsks
          BY <1>1, <4>2 DEF TtyReplies, TtyAsks
        <4>5. TtyInStep' /\ FsInStep'
          BY <1>1, <4>1, <4>2 DEF TtyInStep, FsInStep
        <4> QED BY <4>1, <4>3, <4>4, <4>5
      <3>2. CASE ~Waiting(TASK_TTY, TASK_FS) /\ ~Waiting(TASK_TTY, SR_TARGET_ANY)
        <4>1. /\ buffer'[TASK_TTY] = buffer[TASK_TTY] /\ Offers(TASK_FS, TASK_TTY)'
              /\ Free(TASK_TTY)' <=> Free(TASK_TTY)
              /\ \A y : Waiting(TASK_TTY, y)' <=> Waiting(TASK_TTY, y)
          BY <1>7, <1>11, <3>2, Procs DEF SameBut
        <4>2. ~FsAwaits'
          BY <4>1 DEF FsAwaits, Free, Waiting, Offers, Sending, SENDING, RECEIVING
        <4>3. ~TtyTakes' /\ ~TtyReplies' /\ (TtyAsks' <=> TtyAsks)
          BY <1>1, <1>6, <2>2, <4>1 DEF TtyTakes, TtyReplies, TtyAsks
        <4>4. TtyInStep' /\ FsInStep'
          BY <1>1, <1>2, <2>2, <4>1 DEF Runs, TtyInStep, FsInStep
        <4> QED BY <4>1, <4>2, <4>3, <4>4
      <3> QED BY <3>1, <3>2
    <2>4. Partners' /\ Together'
      <3>1. /\ pending'[TASK_FS] = TASK_TTY
            /\ \A x \in Proc \ {TASK_FS} : pending'[x] = pending[x]
        BY <1>1, <1>2, Procs DEF TTypeOK, TypeOK
      <3>2. Partners'
        BY <1>1, <1>2, <1>9, <2>1, <2>2, <3>1, Procs DEF Runs, Partners
      <3> QED BY <2>3, <3>2 DEF Together
    <2>5. /\ \A d : HasReader(d)' <=> HasReader(d)
          /\ reader' = reader
      BY <1>1, <2>2 DEF HasReader, polled, reader
    <2>6. /\ \A q \in User : FsRequest(q) <=> q = c.source
          /\ \A q \in User : FsRequest(q)' <=> q = c.source
      BY <1>1, <1>2, <1>6, <2>3 DEF FsRequest, Suspended
    <2>7. /\ \A q \in User : FsHolds(q) <=> q = c.source
          /\ \A q \in User : FsHolds(q)' <=> q = c.source
      <3>1. \A q \in User : c # LineMessage(q)
        BY <1>4, Procs DEF LineMessage
      <3> QED BY <1>6, <1>9, <2>2, <2>6, <3>1 DEF FsHolds
    <2>8. /\ \A q \in User : TtyHolds(q)' <=> TtyHolds(q)
          /\ \A q \in User : Answered(q)' <=> Answered(q)
      BY <1>1, <2>2, <2>5 DEF TtyHolds, Answered
    <2>9. \A q \in User : UserInStep(q)' /\ InOnePlace(q)' /\ LineFits(q)'
      <3> SUFFICES ASSUME NEW q \in User
                   PROVE  UserInStep(q)' /\ InOnePlace(q)' /\ LineFits(q)'
        OBVIOUS
      <3>1. UserInStep(q) /\ InOnePlace(q) /\ LineFits(q)
        BY <1>2 DEF Runs
      <3>2. UserInStep(q)'
        BY <1>1, <2>2, <3>1 DEF UserInStep
      <3>3. InOnePlace(q)'
        BY <1>1, <2>2, <2>7, <2>8, <3>1 DEF InOnePlace
      <3>4. LineFits(q)'
        BY <1>1, <2>2, <2>6, <3>1 DEF LineFits
      <3> QED BY <3>2, <3>3, <3>4
    <2>10. /\ \A x : Asked(x)' <=> Asked(x)
           /\ \A x, q : Answer(x, q)' <=> Answer(x, q)
           /\ \A q : UNCHANGED LineMessage(q)
      BY <1>1 DEF Asked, Answer, LineMessage
    <2>11. Messages'
      <3>1. \A q \in User : Offers(q, TASK_FS) => buffer[q].source = q /\ Asked(buffer[q])
        BY <1>2 DEF Runs, Messages
      <3>2. \A q \in User : Answered(q) => Answer(buffer[q], q)
        BY <1>2 DEF Runs, Messages
      <3>3. TtyAsks => buffer[TASK_TTY] = LineMessage(reader)
        BY <1>2 DEF Runs, Messages
      <3>4. Asked(fs_msg)'
        BY <1>1, <1>3, <2>10
      <3>5. TtyAsks' => buffer'[TASK_TTY] = LineMessage(reader)'
        BY <2>3, <2>5, <2>10, <3>3
      <3> QED BY <1>5, <1>6, <1>7, <2>2, <2>3, <2>8, <2>10, <3>1, <3>2, <3>4, <3>5 DEF Messages
    <2>12. Readers'
      BY <1>1, <1>2, <2>5 DEF Runs, Readers
    <2> QED BY <1>7, <1>8, <2>2, <2>3, <2>4, <2>9, <2>11, <2>12 DEF TIInv, Runs
  <1> QED BY <1>10, <1>11

\* The file system takes the answer of the driver, or waits for it.
LEMMA FsDriverKeeps ==
    ASSUME TIInv, FsDriver
    PROVE  TIInv'
  <1> DEFINE m == [buffer[TASK_FS] EXCEPT !.source = TASK_FS]
  <1>1. /\ fs_pc = "driver" /\ fs_pc' = "driven" /\ ~panicked /\ Free(TASK_FS)
        /\ message_receive(TASK_FS, pending[TASK_FS], m)
        /\ pending' = [pending EXCEPT ![TASK_FS] = SR_TARGET_NONE]
        /\ UNCHANGED <<tty, tty_pc, at, current, keys, tty_key_pressed, fs_msg>>
        /\ UNCHANGED <<phase, asked, text, line>>
    BY DEF FsDriver, ReceiveReply, Runnable, Free, ttyVars, keyVars, userVars
  <1>2. KernelInv /\ TTypeOK /\ Runs
    BY <1>1 DEF TIInv
  <1>3. /\ pending[TASK_FS] = TASK_TTY /\ ~has_int_msg[TASK_FS]
        /\ message_receive(TASK_FS, TASK_TTY, m)
    BY <1>1, <1>2, Procs DEF Runs, Partners
  <1>4. m \in Message
    BY <1>2, Procs DEF KernelInv, KernelTypeOK, Message
  <1> HIDE DEF m
  <1>5. /\ FsAwaits /\ FsWorks /\ ~FsTakes /\ ~FsReplied
        /\ FsWorks' /\ ~FsTakes' /\ (TtyTakes \/ TtyReplies)
    <2>1. /\ FsAwaits /\ FsWorks /\ ~FsTakes /\ ~FsReplied /\ FsWorks' /\ ~FsTakes'
      BY <1>1 DEF FsAwaits, FsWorks, FsTakes, FsReplied
    <2> QED BY <1>2, <2>1 DEF Runs, Together
  <1>6. /\ KernelInv'
        /\ UNCHANGED <<has_int_msg, panicked>>
        /\ \A x \in Proc \ {TASK_FS} : buffer'[x] = buffer[x]
        /\ \/ /\ Offers(TASK_TTY, TASK_FS)
              /\ Free(TASK_FS)' /\ Free(TASK_TTY)' /\ buffer'[TASK_FS] = buffer[TASK_TTY]
              /\ SameBut(TASK_TTY)
              /\ \A x, y \in Proc : Offers(x, y)' <=> Offers(x, y) /\ x # TASK_TTY
           \/ /\ ~Offers(TASK_TTY, TASK_FS)
              /\ Waiting(TASK_FS, TASK_TTY)'
              /\ SameBut(TASK_FS)
              /\ \A x, y \in Proc : Offers(x, y)' <=> Offers(x, y)
    BY <1>1, <1>2, <1>3, <1>4, ReceiveOutcome, Procs
  <1>7. TTypeOK'
    <2>1. pending' \in [Proc -> Proc \cup {SR_TARGET_NONE}]
      BY <1>1, <1>2 DEF TTypeOK, TypeOK
    <2> QED BY <1>1, <1>2, <1>6, <2>1 DEF TTypeOK, TypeOK, KernelInv
  <1>8. /\ \A x \in Proc : ~Offers(TASK_FS, x)
        /\ \A q \in User : q \in Proc \ {TASK_FS, TASK_TTY} /\ TtyOf[q] \in Tty
    BY <1>1, <1>2, Exclusive, Procs, TerminalAssumption
  <1>9. /\ \A q \in User : Free(q)' <=> Free(q)
        /\ \A q \in User : \A y : Waiting(q, y)' <=> Waiting(q, y)
        /\ \A q \in User : buffer'[q] = buffer[q]
        /\ \A q \in User : Offers(q, TASK_FS)' <=> Offers(q, TASK_FS)
        /\ \A x \in Proc : ~Offers(TASK_FS, x)'
        /\ \A x, y \in Proc : Offers(x, y)' => Offers(x, y)
    <2>1. /\ \A q \in User : Free(q)' <=> Free(q)
          /\ \A q \in User : \A y : Waiting(q, y)' <=> Waiting(q, y)
      BY <1>6, <1>8 DEF SameBut
    <2>2. \A x, y \in Proc : x # TASK_TTY => (Offers(x, y)' <=> Offers(x, y))
      BY <1>6
    <2>3. \A x, y \in Proc : Offers(x, y)' => Offers(x, y)
      BY <1>6
    <2> QED BY <1>6, <1>8, <2>1, <2>2, <2>3, Procs
  <1>10. UNCHANGED <<DriverRequest, DriverAnswer>>
    BY <1>1 DEF DriverRequest, DriverAnswer
  <1>11. /\ TtyTakes' \/ TtyReplies' <=> FsAwaits'
         /\ TtyTakes' => buffer'[TASK_TTY] = DriverRequest'
         /\ FsReplied' => buffer'[TASK_FS] = DriverAnswer'
         /\ FsReplied' <=> TtyReplies
         /\ ~TtyReplies' /\ ~TtyAsks' /\ ~TtyAsks
         /\ TtyInStep' /\ FsInStep'
    <2>1. CASE Offers(TASK_TTY, TASK_FS)
      <3>1. /\ Free(TASK_FS)' /\ Free(TASK_TTY)' /\ buffer'[TASK_FS] = buffer[TASK_TTY]
            /\ ~Offers(TASK_TTY, TASK_FS)'
        BY <1>6, <2>1, Procs
      <3>2. TtyReplies /\ tty_pc = "poll"
        BY <1>2, <1>5, <2>1, Exclusive, Procs DEF TtyTakes, TtyReplies
      <3>3. ~TtyTakes' /\ ~TtyReplies' /\ ~TtyAsks' /\ ~TtyAsks /\ FsReplied' /\ ~FsAwaits'
        BY <1>1, <3>1, <3>2
        DEF TtyTakes, TtyReplies, TtyAsks, FsReplied, FsAwaits, Free, Waiting
      <3>4. buffer[TASK_TTY] = DriverAnswer
        BY <1>2, <3>2 DEF Runs, Messages
      <3>5. TtyInStep' /\ FsInStep'
        BY <1>1, <3>1, <3>2 DEF TtyInStep, FsInStep
      <3> QED BY <1>10, <3>1, <3>2, <3>3, <3>4, <3>5
    <2>2. CASE ~Offers(TASK_TTY, TASK_FS)
      <3>1. /\ Waiting(TASK_FS, TASK_TTY)' /\ buffer'[TASK_TTY] = buffer[TASK_TTY]
            /\ Free(TASK_TTY)' <=> Free(TASK_TTY)
            /\ \A y : Waiting(TASK_TTY, y)' <=> Waiting(TASK_TTY, y)
            /\ ~Offers(TASK_TTY, TASK_FS)'
        BY <1>6, <2>2, Procs DEF SameBut
      <3>2. TtyTakes /\ ~TtyReplies /\ ~TtyAsks
        BY <1>5, <2>2 DEF TtyReplies, TtyAsks
      <3>3. TtyTakes' /\ ~TtyReplies' /\ ~TtyAsks' /\ ~FsReplied' /\ FsAwaits'
        BY <1>1, <3>1, <3>2
        DEF TtyTakes, TtyReplies, TtyAsks, FsReplied, FsAwaits, Free, Waiting
      <3>4. buffer[TASK_TTY] = DriverRequest
        BY <1>2, <3>2 DEF Runs, Messages
      <3>5. TtyInStep' /\ FsInStep'
        BY <1>1, <1>2, <2>2, <3>1 DEF Runs, TtyInStep, FsInStep
      <3> QED BY <1>10, <3>1, <3>2, <3>3, <3>4, <3>5
    <2> QED BY <2>1, <2>2
  <1>12. Partners' /\ Together'
    <2>1. /\ pending'[TASK_FS] = SR_TARGET_NONE
          /\ \A x \in Proc \ {TASK_FS} : pending'[x] = pending[x]
      BY <1>1, <1>2, Procs DEF TTypeOK, TypeOK
    <2>2. Partners'
      BY <1>1, <1>2, <1>6, <1>8, <1>9, <2>1, Procs DEF Runs, Partners
    <2> QED BY <1>11, <2>2 DEF Together
  <1>13. \A d \in Tty : HasReader(d)' <=> HasReader(d)
    <2>1. tty_pc = "resumed" => ~TtyTakes /\ ~TtyReplies
      BY DEF TtyTakes, TtyReplies
    <2> QED BY <1>1, <1>5, <2>1 DEF HasReader
  <1>14. \A q \in User : FsRequest(q)' <=> FsRequest(q)
    BY <1>1, <1>5, <1>11 DEF FsRequest, Suspended
  <1>15. /\ \A q \in User : FsHolds(q)' <=> FsHolds(q)
         /\ \A q \in User : TtyHolds(q)' <=> TtyHolds(q)
         /\ \A q \in User : Answered(q)' <=> Answered(q)
    BY <1>1, <1>5, <1>8, <1>9, <1>13, <1>14 DEF FsHolds, TtyHolds, Answered
  <1>16. \A q \in User : UserInStep(q)' /\ InOnePlace(q)' /\ LineFits(q)'
    <2> SUFFICES ASSUME NEW q \in User
                 PROVE  UserInStep(q)' /\ InOnePlace(q)' /\ LineFits(q)'
      OBVIOUS
    <2>1. UserInStep(q) /\ InOnePlace(q) /\ LineFits(q)
      BY <1>2 DEF Runs
    <2>2. UserInStep(q)'
      BY <1>1, <1>9, <2>1 DEF UserInStep
    <2>3. InOnePlace(q)'
      BY <1>1, <1>9, <1>15, <2>1 DEF InOnePlace
    <2>4. LineFits(q)'
      BY <1>1, <1>9, <1>14, <2>1 DEF LineFits
    <2> QED BY <2>2, <2>3, <2>4
  <1>17. /\ \A x : Asked(x)' <=> Asked(x)
         /\ \A x, q : Answer(x, q)' <=> Answer(x, q)
    BY <1>1 DEF Asked, Answer
  <1>18. Messages'
    <2>1. \A q \in User : Offers(q, TASK_FS) => buffer[q].source = q /\ Asked(buffer[q])
      BY <1>2 DEF Runs, Messages
    <2>2. \A q \in User : Answered(q) => Answer(buffer[q], q)
      BY <1>2 DEF Runs, Messages
    <2>3. ~Suspended' => Asked(fs_msg)'
      BY <1>1, <1>2, <1>5, <1>11, <1>17 DEF Runs, Messages, Suspended
    <2>4. ~Offers(TASK_FS, TASK_TTY)' /\ \A q \in User : ~Offers(TASK_FS, q)'
      BY <1>8, <1>9, Procs
    <2> QED BY <1>5, <1>9, <1>11, <1>15, <1>17, <2>1, <2>2, <2>3, <2>4 DEF Messages
  <1>19. Readers'
    BY <1>1, <1>2, <1>13 DEF Runs, Readers
  <1> QED BY <1>6, <1>7, <1>8, <1>9, <1>11, <1>12, <1>16, <1>18, <1>19 DEF TIInv, Runs
-----------------------------------------------------------------------------
(* The processes.                                                          *)

\* A process calls the file system, which takes the request or will.
LEMMA UserCallKeeps ==
    ASSUME TIInv, NEW p \in User, NEW type, NEW n, UserCall(p, type, n)
    PROVE  TIInv'
  <1> DEFINE m == [source |-> p, body |-> Request(type, TtyOf[p], n)]
  <1>1. /\ phase[p] = "idle" /\ ~panicked /\ Free(p) /\ <<type, n>> \in Program[p]
        /\ phase' = [phase EXCEPT ![p] = "called"]
        /\ asked' = [asked EXCEPT ![p] = type]
        /\ message_send(p, TASK_FS, m)
        /\ pending' = [pending EXCEPT ![p] = TASK_FS]
        /\ UNCHANGED <<tty, tty_pc, at, current, keys, tty_key_pressed, fs_pc, fs_msg>>
        /\ UNCHANGED <<text, line>>
    BY DEF UserCall, SendBoth, Runnable, Free, ttyVars, keyVars, fsVars
  <1>2. KernelInv /\ TTypeOK /\ Runs
    BY <1>1 DEF TIInv
  <1>3. /\ p \in Proc \ {TASK_FS, TASK_TTY}
        /\ \A q \in User : q \in Proc \ {TASK_FS, TASK_TTY} /\ TtyOf[q] \in Tty
    BY Procs, TerminalAssumption
  <1>4. type \in Call /\ n \in 0..MaxCount
    BY <1>1, TerminalAssumption
  <1>5. /\ asked[p] = "NONE" /\ ~FsHolds(p) /\ ~FsRequest(p) /\ ~TtyHolds(p)
        /\ ~Offers(p, TASK_FS) /\ ~Offers(TASK_FS, p) /\ ~Answered(p)
        /\ line[p] = <<>> /\ text[p] = [i \in 1..MaxCount |-> NoChar]
    <2>1. UserInStep(p) /\ InOnePlace(p) /\ LineFits(p)
      BY <1>2 DEF Runs
    <2>2. asked[p] = "NONE" /\ ~FsHolds(p) /\ ~TtyHolds(p)
      BY <1>1, <2>1 DEF UserInStep, InOnePlace
    <2>3. ~Offers(p, TASK_FS) /\ ~Answered(p)
      BY <1>1, <1>2, <1>3, Exclusive DEF Answered
    <2> QED BY <2>1, <2>2, <2>3 DEF LineFits, FsHolds
  <1>6. m \in Message
    <2>1. Request(type, TtyOf[p], n) \in Body
      BY <1>3, <1>4, BodiesAre
    <2> QED BY <1>3, <2>1 DEF Message
  <1>7. /\ \A q \in User \ {p} : phase'[q] = phase[q] /\ asked'[q] = asked[q]
        /\ phase'[p] = "called" /\ asked'[p] = type
        /\ \A x \in Proc \ {p} : pending'[x] = pending[x]
        /\ pending'[p] = TASK_FS
    BY <1>1, <1>2, <1>3 DEF TTypeOK, TypeOK
  <1>8. /\ KernelInv'
        /\ UNCHANGED has_int_msg
        /\ \A x \in Proc \ {p, TASK_FS} : buffer'[x] = buffer[x]
        /\ buffer'[p] = m
        /\ \/ SendPanics(p, TASK_FS, m)
           \/ /\ UNCHANGED panicked
              /\ Waiting(TASK_FS, p) \/ Waiting(TASK_FS, SR_TARGET_ANY)
              /\ Free(p)' /\ Free(TASK_FS)' /\ buffer'[TASK_FS] = m
              /\ SameBut(TASK_FS)
              /\ \A x, y \in Proc : Offers(x, y)' <=> Offers(x, y)
           \/ /\ UNCHANGED panicked
              /\ ~Waiting(TASK_FS, p) /\ ~Waiting(TASK_FS, SR_TARGET_ANY)
              /\ buffer'[TASK_FS] = buffer[TASK_FS]
              /\ SameBut(p)
              /\ \A x, y \in Proc :
                    Offers(x, y)' <=> Offers(x, y) \/ (x = p /\ y = TASK_FS)
    <2> HIDE DEF m
    <2> QED BY <1>1, <1>2, <1>3, <1>6, SendResult, Procs
  <1>9. TTypeOK'
    <2>1. pending' \in [Proc -> Proc \cup {SR_TARGET_NONE}]
      BY <1>1, <1>2, Procs DEF TTypeOK, TypeOK
    <2>2. /\ phase' \in [User -> {"idle", "called", "receiving"}]
          /\ asked' \in [User -> Call \cup {"NONE"}]
      BY <1>1, <1>2, <1>4 DEF TTypeOK
    <2> QED BY <1>1, <1>2, <1>8, <2>1, <2>2 DEF TTypeOK, TypeOK, KernelInv
  <1> HIDE DEF m
  <1>10. CASE SendPanics(p, TASK_FS, m)
    BY <1>2, <1>3, <1>5, <1>7, <1>8, <1>9, <1>10, SameIpc DEF SendPanics, TIInv
  <1>11. CASE ~SendPanics(p, TASK_FS, m)
    <2>1. UNCHANGED <<panicked, has_int_msg>>
      BY <1>8, <1>11
    <2>2. /\ \A q \in User \ {p} : Free(q)' <=> Free(q)
          /\ \A q \in User \ {p} : \A y : Waiting(q, y)' <=> Waiting(q, y)
          /\ \A q \in User \ {p} : Offers(q, TASK_FS)' <=> Offers(q, TASK_FS)
          /\ \A q \in User \ {p} : buffer'[q] = buffer[q]
          /\ Free(TASK_TTY)' <=> Free(TASK_TTY)
          /\ \A y : Waiting(TASK_TTY, y)' <=> Waiting(TASK_TTY, y)
          /\ buffer'[TASK_TTY] = buffer[TASK_TTY]
          /\ Offers(TASK_TTY, TASK_FS)' <=> Offers(TASK_TTY, TASK_FS)
          /\ \A x \in Proc : Offers(TASK_FS, x)' <=> Offers(TASK_FS, x)
          /\ \A x, y \in Proc : Offers(x, y)' => TASK_FS \in {x, y}
      <3>1. /\ \A q \in User \ {p} : Free(q)' <=> Free(q)
            /\ \A q \in User \ {p} : \A y : Waiting(q, y)' <=> Waiting(q, y)
            /\ Free(TASK_TTY)' <=> Free(TASK_TTY)
            /\ \A y : Waiting(TASK_TTY, y)' <=> Waiting(TASK_TTY, y)
        BY <1>3, <1>8, <1>11, Procs DEF SameBut
      <3>2. \A x, y \in Proc : Offers(x, y) => TASK_FS \in {x, y}
        BY <1>2 DEF Runs, Partners
      <3>3. \A x, y \in Proc : Offers(x, y)' => Offers(x, y) \/ (x = p /\ y = TASK_FS)
        BY <1>8, <1>11
      <3>4. \A x, y \in Proc : x # p => (Offers(x, y)' <=> Offers(x, y))
        BY <1>8, <1>11
      <3> QED BY <1>3, <1>8, <3>1, <3>2, <3>3, <3>4, Procs
    <2>3. /\ TtyTakes' <=> TtyTakes
          /\ TtyReplies' <=> TtyReplies
          /\ TtyAsks' <=> TtyAsks
          /\ \A d : HasReader(d)' <=> HasReader(d)
          /\ reader' = reader
      BY <1>1, <2>2 DEF TtyTakes, TtyReplies, TtyAsks, HasReader, polled, reader
    <2>4. /\ \A x : Asked(x) => Asked(x)'
          /\ Asked(m)'
          /\ \A x, q : q \in User \ {p} => (Answer(x, q)' <=> Answer(x, q))
          /\ \A q : UNCHANGED LineMessage(q)
          /\ UNCHANGED <<DriverRequest, DriverAnswer>>
      <3>1. \A x : Asked(x) => x.source \in User \ {p}
        BY <1>1 DEF Asked
      <3>2. \A x : Asked(x) => Asked(x)'
        BY <1>7, <3>1 DEF Asked
      <3>3. Asked(m)'
        BY <1>1, <1>4, <1>7 DEF Asked, m
      <3> QED BY <1>1, <1>7, <3>2, <3>3 DEF Answer, LineMessage, DriverRequest, DriverAnswer
    <2>5. /\ FsAwaits' <=> FsAwaits
          /\ FsWorks' <=> FsWorks
          /\ FsReplied' <=> FsReplied
          /\ Suspended' <=> Suspended
          /\ FsInStep' /\ UserInStep(p)'
          /\ ~Answered(p)'
          /\ FsHolds(p)' <=> ~Offers(p, TASK_FS)'
          /\ \A q \in User \ {p} : /\ FsRequest(q)' <=> FsRequest(q)
                                   /\ FsHolds(q)' <=> FsHolds(q)
          /\ Offers(TASK_FS, TASK_TTY) => buffer'[TASK_FS] = buffer[TASK_FS]
          /\ FsReplied => buffer'[TASK_FS] = buffer[TASK_FS]
          /\ \A q \in User : Offers(TASK_FS, q) => buffer'[TASK_FS] = buffer[TASK_FS]
          /\ FsTakes' => \/ buffer'[TASK_FS] = m
                         \/ FsTakes /\ buffer'[TASK_FS] = buffer[TASK_FS]
          /\ Offers(p, TASK_FS)' => buffer'[p] = m
      <3>1. ~Answered(p)' /\ (asked'[p] = "NONE" \/ \E k \in 0..MaxCount : <<asked'[p], k>> \in Program[p])
        BY <1>1, <1>4, <1>7 DEF Answered
      <3>2. CASE Waiting(TASK_FS, p) \/ Waiting(TASK_FS, SR_TARGET_ANY)
        <4>1. /\ Free(p)' /\ Free(TASK_FS)' /\ buffer'[TASK_FS] = m
              /\ \A x, y \in Proc : Offers(x, y)' <=> Offers(x, y)
          BY <1>8, <1>11, <3>2
        <4>2. fs_pc = "handle" /\ ~Free(TASK_FS) /\ \A x : ~Offers(TASK_FS, x)
          BY <1>2, <1>3, <3>2, Exclusive, Procs DEF Runs, FsInStep
        <4>3. /\ FsTakes' /\ ~FsTakes /\ ~FsWorks /\ ~FsWorks' /\ ~FsAwaits /\ ~FsAwaits'
              /\ ~FsReplied /\ ~FsReplied'
          BY <1>1, <4>1, <4>2 DEF FsTakes, FsWorks, FsAwaits, FsReplied
        <4>4. /\ \A q \in User : ~FsRequest(q) /\ ~FsHolds(q)
              /\ \A q \in User \ {p} : m # LineMessage(q) /\ m.source # q
              /\ m.source = p
          BY <1>3, <4>2, <4>3 DEF FsRequest, FsHolds, LineMessage, m
        <4>5. /\ \A q \in User : FsRequest(q)' <=> q = p
              /\ \A q \in User : FsHolds(q)' <=> q = p
          BY <1>3, <2>2, <2>4, <4>1, <4>2, <4>3, <4>4 DEF FsRequest, FsHolds
        <4>6. ~Offers(p, TASK_FS)' /\ FsInStep' /\ UserInStep(p)'
          BY <1>1, <1>3, <1>5, <1>7, <3>1, <4>1, <4>2, Procs DEF FsInStep, UserInStep
        <4>7. Suspended' <=> Suspended
          BY <1>1, <2>3, <4>3 DEF Suspended
        <4> QED BY <1>8, <3>1, <4>1, <4>2, <4>3, <4>4, <4>5, <4>6, <4>7
      <3>3. CASE ~Waiting(TASK_FS, p) /\ ~Waiting(TASK_FS, SR_TARGET_ANY)
        <4>1. /\ buffer'[TASK_FS] = buffer[TASK_FS] /\ Offers(p, TASK_FS)'
              /\ Free(TASK_FS)' <=> Free(TASK_FS)
              /\ \A y : Waiting(TASK_FS, y)' <=> Waiting(TASK_FS, y)
          BY <1>3, <1>8, <1>11, <3>3, Procs DEF SameBut
        <4>2. /\ FsTakes' <=> FsTakes
              /\ FsWorks' <=> FsWorks
              /\ FsAwaits' <=> FsAwaits
              /\ FsReplied' <=> FsReplied
          BY <1>1, <4>1 DEF FsTakes, FsWorks, FsAwaits, FsReplied
        <4>3. Suspended' <=> Suspended
          BY <1>1, <2>3, <4>2 DEF Suspended
        <4>4. \A q \in User : FsRequest(q)' <=> FsRequest(q)
          BY <1>1, <4>1, <4>2, <4>3 DEF FsRequest
        <4>5. \A q \in User : FsHolds(q)' <=> FsHolds(q)
          BY <1>3, <2>2, <2>4, <4>1, <4>2, <4>4 DEF FsHolds
        <4>6. FsInStep'
          BY <1>1, <1>2, <1>3, <2>2, <4>1, Procs DEF Runs, FsInStep
        <4>7. UserInStep(p)'
          BY <1>7, <3>1, <4>1 DEF UserInStep
        <4> QED BY <1>5, <1>8, <3>1, <4>1, <4>2, <4>3, <4>4, <4>5, <4>6, <4>7
      <3> QED BY <3>2, <3>3
    <2>6. /\ \A q \in User : TtyHolds(q)' <=> TtyHolds(q)
          /\ \A q \in User \ {p} : Answered(q)' <=> Answered(q)
      BY <1>1, <1>7, <2>2, <2>3 DEF TtyHolds, Answered
    <2>7. Partners' /\ TtyInStep' /\ Together'
      <3>1. Partners'
        BY <1>1, <1>2, <1>3, <1>7, <2>1, <2>2, Procs DEF Runs, Partners
      <3>2. TtyInStep'
        BY <1>1, <1>2, <2>2 DEF Runs, TtyInStep
      <3> QED BY <1>2, <2>3, <2>5, <3>1, <3>2 DEF Runs, Together
    <2>8. UserInStep(p)' /\ InOnePlace(p)' /\ LineFits(p)'
      <3>1. InOnePlace(p)'
        BY <1>5, <1>7, <2>5, <2>6 DEF InOnePlace
      <3>2. LineFits(p)'
        BY <1>1, <1>5 DEF LineFits
      <3> QED BY <2>5, <3>1, <3>2
    <2>9. ASSUME NEW q \in User \ {p}
          PROVE  UserInStep(q)' /\ InOnePlace(q)' /\ LineFits(q)'
      <3>1. UserInStep(q) /\ InOnePlace(q) /\ LineFits(q)
        BY <1>2 DEF Runs
      <3>2. UserInStep(q)'
        BY <1>7, <2>2, <3>1 DEF UserInStep
      <3>3. InOnePlace(q)'
        BY <1>7, <2>2, <2>5, <2>6, <3>1 DEF InOnePlace
      <3>4. LineFits(q)'
        BY <1>1, <1>7, <2>2, <2>5, <3>1 DEF LineFits
      <3> QED BY <3>2, <3>3, <3>4
    <2>10. Messages'
      <3>1. ASSUME NEW q \in User, Offers(q, TASK_FS)'
            PROVE  buffer'[q].source = q /\ Asked(buffer[q])'
        <4>1. CASE q = p
          BY <1>8, <2>4, <4>1 DEF m
        <4>2. CASE q # p
          <5>1. buffer[q].source = q /\ Asked(buffer[q])
            BY <1>2, <2>2, <3>1, <4>2 DEF Runs, Messages
          <5> QED BY <2>2, <2>4, <4>2, <5>1
        <4> QED BY <4>1, <4>2
      <3>2. ASSUME FsTakes'
            PROVE  \/ Asked(buffer[TASK_FS])'
                   \/ \E q \in User : buffer'[TASK_FS] = LineMessage(q)' /\ asked'[q] = "READ"
        <4>1. CASE buffer'[TASK_FS] = m
          BY <2>4, <4>1
        <4>2. CASE FsTakes /\ buffer'[TASK_FS] = buffer[TASK_FS]
          <5>1. \/ Asked(buffer[TASK_FS])
                \/ \E q \in User \ {p} : buffer[TASK_FS] = LineMessage(q) /\ asked[q] = "READ"
            BY <1>2, <1>5, <4>2 DEF Runs, Messages
          <5> QED BY <1>7, <2>4, <4>2, <5>1
        <4> QED BY <2>5, <3>2, <4>1, <4>2
      <3>3. /\ FsWorks' /\ ~Suspended' => Asked(fs_msg)'
            /\ Offers(TASK_FS, TASK_TTY)' => buffer'[TASK_FS] = DriverRequest'
            /\ FsReplied' => buffer'[TASK_FS] = DriverAnswer'
        BY <1>1, <1>2, <2>2, <2>4, <2>5, Procs DEF Runs, Messages
      <3>4. /\ TtyTakes' => buffer'[TASK_TTY] = DriverRequest'
            /\ TtyReplies' => buffer'[TASK_TTY] = DriverAnswer'
            /\ TtyAsks' => buffer'[TASK_TTY] = LineMessage(reader)'
        BY <1>2, <2>2, <2>3, <2>4 DEF Runs, Messages
      <3>5. ASSUME NEW q \in User, Offers(TASK_FS, q)'
            PROVE  Answer(buffer[TASK_FS], q)'
        <4>1. Offers(TASK_FS, q) /\ q # p
          BY <1>3, <1>5, <2>2, <3>5
        <4>2. Answer(buffer[TASK_FS], q)
          BY <1>2, <4>1 DEF Runs, Messages
        <4> QED BY <2>4, <2>5, <4>1, <4>2
      <3>6. ASSUME NEW q \in User, Answered(q)'
            PROVE  Answer(buffer[q], q)'
        <4>1. q # p /\ Answered(q)
          BY <2>5, <2>6, <3>6
        <4>2. Answer(buffer[q], q)
          BY <1>2, <4>1 DEF Runs, Messages
        <4> QED BY <2>2, <2>4, <4>1, <4>2
      <3> QED BY <3>1, <3>2, <3>3, <3>4, <3>5, <3>6 DEF Messages
    <2>11. Readers'
      <3> SUFFICES ASSUME NEW d \in Tty, HasReader(d)'
                   PROVE  LET q == tty'[d].process_index
                          IN  /\ q \in User /\ TtyOf[q] = d /\ asked'[q] = "READ"
                              /\ tty'[d].caller = TASK_FS
                              /\ Len(line'[q]) = tty'[d].trans_count
                              /\ tty'[d].trans_count + tty'[d].bytes_left <= MaxCount
        BY DEF Readers
      <3>1. HasReader(d)
        BY <2>3
      <3> QED BY <1>1, <1>2, <1>5, <1>7, <3>1 DEF Runs, Readers
    <2>12. \A q \in User : Offers(TASK_FS, q)' => phase'[q] # "idle"
      BY <1>3, <1>5, <1>7, <2>2 DEF TIInv
    <2>13. \A q \in User : UserInStep(q)' /\ InOnePlace(q)' /\ LineFits(q)'
      BY <2>8, <2>9
    <2> QED BY <1>8, <1>9, <2>5, <2>7, <2>10, <2>11, <2>12, <2>13 DEF TIInv, Runs
  <1> QED BY <1>10, <1>11
\* A process waits for the answer, or takes it.
LEMMA UserReceiveKeeps ==
    ASSUME TIInv, NEW p \in User, UserReceive(p)
    PROVE  TIInv'
  <1> DEFINE m == [buffer[p] EXCEPT !.source = p]
  <1>1. /\ phase[p] = "called" /\ ~panicked /\ Free(p)
        /\ phase' = [phase EXCEPT ![p] = "receiving"]
        /\ message_receive(p, pending[p], m)
        /\ pending' = [pending EXCEPT ![p] = SR_TARGET_NONE]
        /\ UNCHANGED <<tty, tty_pc, at, current, keys, tty_key_pressed, fs_pc, fs_msg>>
        /\ UNCHANGED <<asked, text, line>>
    BY DEF UserReceive, ReceiveReply, Runnable, Free, ttyVars, keyVars, fsVars
  <1>2. KernelInv /\ TTypeOK /\ Runs
    BY <1>1 DEF TIInv
  <1>3. /\ p \in Proc \ {TASK_FS, TASK_TTY}
        /\ \A q \in User : q \in Proc \ {TASK_FS, TASK_TTY} /\ TtyOf[q] \in Tty
    BY Procs, TerminalAssumption
  <1>4. /\ pending[p] = TASK_FS /\ ~has_int_msg[p]
        /\ message_receive(p, TASK_FS, m)
    BY <1>1, <1>2, <1>3 DEF Runs, Partners
  <1>5. m \in Message
    BY <1>2, <1>3 DEF KernelInv, KernelTypeOK, Message
  <1> HIDE DEF m
  <1>6. /\ KernelInv'
        /\ UNCHANGED <<has_int_msg, panicked>>
        /\ \A x \in Proc \ {p} : buffer'[x] = buffer[x]
        /\ \/ /\ Offers(TASK_FS, p)
              /\ Free(p)' /\ Free(TASK_FS)' /\ buffer'[p] = buffer[TASK_FS]
              /\ SameBut(TASK_FS)
              /\ \A x, y \in Proc : Offers(x, y)' <=> Offers(x, y) /\ x # TASK_FS
           \/ /\ ~Offers(TASK_FS, p)
              /\ Waiting(p, TASK_FS)'
              /\ SameBut(p)
              /\ \A x, y \in Proc : Offers(x, y)' <=> Offers(x, y)
    BY <1>1, <1>2, <1>3, <1>4, <1>5, ReceiveOutcome, Procs
  <1>7. /\ \A q \in User \ {p} : phase'[q] = phase[q]
        /\ phase'[p] = "receiving"
        /\ \A x \in Proc \ {p} : pending'[x] = pending[x]
        /\ pending'[p] = SR_TARGET_NONE
    BY <1>1, <1>2, <1>3 DEF TTypeOK, TypeOK
  <1>8. TTypeOK'
    <2>1. pending' \in [Proc -> Proc \cup {SR_TARGET_NONE}]
      BY <1>1, <1>2 DEF TTypeOK, TypeOK
    <2>2. phase' \in [User -> {"idle", "called", "receiving"}]
      BY <1>1, <1>2 DEF TTypeOK
    <2> QED BY <1>1, <1>2, <1>6, <2>1, <2>2 DEF TTypeOK, TypeOK, KernelInv
  <1>9. /\ ~Offers(p, TASK_FS) /\ ~Answered(p) /\ UserInStep(p)
        /\ FsHolds(p) \/ TtyHolds(p)
        /\ ~(FsHolds(p) /\ TtyHolds(p))
    <2>1. UserInStep(p) /\ InOnePlace(p)
      BY <1>2 DEF Runs
    <2>2. ~Offers(p, TASK_FS) /\ ~Answered(p)
      BY <1>1, <1>2, <1>3, Exclusive DEF Answered
    <2> QED BY <1>1, <2>1, <2>2 DEF InOnePlace
  <1>10. /\ \A q \in User \ {p} : Free(q)' <=> Free(q)
         /\ \A q \in User \ {p} : \A y : Waiting(q, y)' <=> Waiting(q, y)
         /\ Free(TASK_TTY)' <=> Free(TASK_TTY)
         /\ \A y : Waiting(TASK_TTY, y)' <=> Waiting(TASK_TTY, y)
         /\ buffer'[TASK_TTY] = buffer[TASK_TTY] /\ buffer'[TASK_FS] = buffer[TASK_FS]
         /\ \A q \in User \ {p} : buffer'[q] = buffer[q]
         /\ \A q \in User : Offers(q, TASK_FS)' <=> Offers(q, TASK_FS)
         /\ Offers(TASK_TTY, TASK_FS)' <=> Offers(TASK_TTY, TASK_FS)
         /\ \A x, y \in Proc : Offers(x, y)' => Offers(x, y)
    <2>1. /\ \A q \in User \ {p} : Free(q)' <=> Free(q)
          /\ \A q \in User \ {p} : \A y : Waiting(q, y)' <=> Waiting(q, y)
          /\ Free(TASK_TTY)' <=> Free(TASK_TTY)
          /\ \A y : Waiting(TASK_TTY, y)' <=> Waiting(TASK_TTY, y)
      BY <1>3, <1>6, Procs DEF SameBut
    <2>2. \A x, y \in Proc : x # TASK_FS => (Offers(x, y)' <=> Offers(x, y))
      BY <1>6
    <2>3. \A x, y \in Proc : Offers(x, y)' => Offers(x, y)
      BY <1>6
    <2> QED BY <1>3, <1>6, <2>1, <2>2, <2>3, Procs
  <1>11. /\ TtyTakes' <=> TtyTakes
         /\ TtyReplies' <=> TtyReplies
         /\ TtyAsks' <=> TtyAsks
         /\ \A d : HasReader(d)' <=> HasReader(d)
         /\ reader' = reader
    BY <1>1, <1>10 DEF TtyTakes, TtyReplies, TtyAsks, HasReader, polled, reader
  <1>12. /\ \A x : Asked(x) => Asked(x)'
         /\ \A x, q : Answer(x, q)' <=> Answer(x, q)
         /\ \A q : UNCHANGED LineMessage(q)
         /\ UNCHANGED <<DriverRequest, DriverAnswer>>
    <2>1. \A x : Asked(x) => x.source \in User /\ phase'[x.source] # "idle"
      BY <1>7 DEF Asked
    <2>2. \A x : Asked(x) => Asked(x)'
      BY <1>1, <2>1 DEF Asked
    <2> QED BY <1>1, <2>2 DEF Answer, LineMessage, DriverRequest, DriverAnswer
  <1>13. /\ FsTakes' <=> FsTakes
         /\ FsAwaits' <=> FsAwaits
         /\ FsWorks' <=> FsWorks
         /\ FsReplied' <=> FsReplied
         /\ FsInStep' /\ UserInStep(p)'
         /\ FsHolds(p)' \/ TtyHolds(p) <=> ~Answered(p)'
         /\ ~(FsHolds(p)' /\ TtyHolds(p))
         /\ \A q \in User : FsRequest(q)' <=> FsRequest(q)
         /\ \A q \in User \ {p} : FsHolds(q)' <=> FsHolds(q)
         /\ Answered(p)' => Answer(buffer[p], p)'
    <2>1. CASE Offers(TASK_FS, p)
      <3>1. /\ Free(p)' /\ Free(TASK_FS)' /\ buffer'[p] = buffer[TASK_FS]
            /\ \A x, y \in Proc : Offers(x, y)' <=> Offers(x, y) /\ x # TASK_FS
        <4>1. ~Waiting(p, TASK_FS)' \/ Offers(TASK_FS, p)
          BY <2>1
        <4> QED BY <1>6, <2>1
      <3>2. /\ fs_pc = "receive" /\ ~Free(TASK_FS)
            /\ \A q \in User \ {p} : ~Offers(TASK_FS, q)
        BY <1>2, <1>3, <2>1, Exclusive, Procs DEF Runs, FsInStep
      <3>3. /\ ~FsTakes /\ ~FsTakes' /\ ~FsWorks /\ ~FsWorks'
            /\ ~FsAwaits /\ ~FsAwaits' /\ ~FsReplied /\ ~FsReplied'
        BY <1>1, <3>2 DEF FsTakes, FsWorks, FsAwaits, FsReplied
      <3>4. \A q \in User : ~FsRequest(q) /\ ~FsRequest(q)' /\ ~FsHolds(q)'
        BY <1>3, <3>1, <3>3, Procs DEF FsRequest, FsHolds
      <3>5. FsHolds(p) /\ ~TtyHolds(p) /\ \A q \in User \ {p} : ~FsHolds(q)
        BY <1>9, <2>1, <3>2, <3>3, <3>4 DEF FsHolds
      <3>6. Answered(p)' /\ UserInStep(p)' /\ FsInStep'
        BY <1>1, <1>7, <1>9, <3>1, <3>2 DEF Answered, UserInStep, FsInStep
      <3>7. Answer(buffer[p], p)'
        <4>1. Answer(buffer[TASK_FS], p)
          BY <1>2, <2>1 DEF Runs, Messages
        <4> QED BY <1>12, <3>1, <4>1
      <3> QED BY <3>3, <3>4, <3>5, <3>6, <3>7
    <2>2. CASE ~Offers(TASK_FS, p)
      <3>1. /\ Waiting(p, TASK_FS)' /\ \A x, y \in Proc : Offers(x, y)' <=> Offers(x, y)
            /\ Free(TASK_FS)' <=> Free(TASK_FS)
            /\ \A y : Waiting(TASK_FS, y)' <=> Waiting(TASK_FS, y)
        BY <1>3, <1>6, <2>2, Procs DEF SameBut
      <3>2. /\ FsTakes' <=> FsTakes
            /\ FsWorks' <=> FsWorks
            /\ FsAwaits' <=> FsAwaits
            /\ FsReplied' <=> FsReplied
        BY <1>1, <3>1 DEF FsTakes, FsWorks, FsAwaits, FsReplied
      <3>3. \A q \in User : FsRequest(q)' <=> FsRequest(q)
        BY <1>1, <1>10, <1>11, <3>2 DEF FsRequest, Suspended
      <3>4. \A q \in User : FsHolds(q)' <=> FsHolds(q)
        BY <1>3, <1>10, <1>12, <3>1, <3>2, <3>3, Procs DEF FsHolds
      <3>5. ~Answered(p)'
        BY <3>1 DEF Answered, Free, Waiting
      <3>6. UserInStep(p)'
        BY <1>1, <1>7, <1>9, <3>1 DEF UserInStep
      <3>7. FsInStep'
        BY <1>1, <1>2, <1>3, <3>1, Procs DEF Runs, FsInStep
      <3> QED BY <1>9, <3>2, <3>3, <3>4, <3>5, <3>6, <3>7
    <2> QED BY <2>1, <2>2
  <1>14. /\ \A q \in User : TtyHolds(q)' <=> TtyHolds(q)
         /\ \A q \in User \ {p} : Answered(q)' <=> Answered(q)
    BY <1>1, <1>7, <1>10, <1>11 DEF TtyHolds, Answered
  <1>15. Partners' /\ TtyInStep' /\ Together'
    <2>1. Partners'
      BY <1>1, <1>2, <1>3, <1>6, <1>7, <1>10, Procs DEF Runs, Partners
    <2>2. TtyInStep'
      BY <1>1, <1>2, <1>10 DEF Runs, TtyInStep
    <2> QED BY <1>2, <1>11, <1>13, <2>1, <2>2 DEF Runs, Together
  <1>16. InOnePlace(p)' /\ LineFits(p)'
    <2>1. InOnePlace(p)'
      BY <1>7, <1>9, <1>10, <1>13, <1>14 DEF InOnePlace
    <2>2. LineFits(p)
      BY <1>2 DEF Runs
    <2>3. LineFits(p)'
      BY <1>1, <1>10, <1>13, <2>2 DEF LineFits
    <2> QED BY <2>1, <2>3
  <1>17. ASSUME NEW q \in User \ {p}
         PROVE  UserInStep(q)' /\ InOnePlace(q)' /\ LineFits(q)'
    <2>1. UserInStep(q) /\ InOnePlace(q) /\ LineFits(q)
      BY <1>2 DEF Runs
    <2>2. UserInStep(q)'
      BY <1>1, <1>7, <1>10, <2>1 DEF UserInStep
    <2>3. InOnePlace(q)'
      BY <1>7, <1>10, <1>13, <1>14, <2>1 DEF InOnePlace
    <2>4. LineFits(q)'
      BY <1>1, <1>10, <1>13, <2>1 DEF LineFits
    <2> QED BY <2>2, <2>3, <2>4
  <1>18. Messages'
    <2>1. ASSUME NEW q \in User, Offers(q, TASK_FS)'
          PROVE  buffer'[q].source = q /\ Asked(buffer[q])'
      <3>1. Offers(q, TASK_FS) /\ q # p
        BY <1>9, <1>10, <2>1
      <3>2. buffer[q].source = q /\ Asked(buffer[q])
        BY <1>2, <3>1 DEF Runs, Messages
      <3> QED BY <1>10, <1>12, <3>1, <3>2
    <2>2. /\ FsTakes' => \/ Asked(buffer[TASK_FS])'
                         \/ \E q \in User : /\ buffer'[TASK_FS] = LineMessage(q)'
                                            /\ asked'[q] = "READ"
          /\ FsWorks' /\ ~Suspended' => Asked(fs_msg)'
      <3>1. Suspended' <=> Suspended
        BY <1>1, <1>11, <1>13 DEF Suspended
      <3> QED BY <1>1, <1>2, <1>10, <1>12, <1>13, <3>1 DEF Runs, Messages
    <2>3. /\ Offers(TASK_FS, TASK_TTY)' => buffer'[TASK_FS] = DriverRequest'
          /\ FsReplied' => buffer'[TASK_FS] = DriverAnswer'
          /\ TtyTakes' => buffer'[TASK_TTY] = DriverRequest'
          /\ TtyReplies' => buffer'[TASK_TTY] = DriverAnswer'
          /\ TtyAsks' => buffer'[TASK_TTY] = LineMessage(reader)'
      BY <1>2, <1>10, <1>11, <1>12, <1>13, Procs DEF Runs, Messages
    <2>4. ASSUME NEW q \in User, Offers(TASK_FS, q)'
          PROVE  Answer(buffer[TASK_FS], q)'
      <3>1. Offers(TASK_FS, q)
        BY <1>3, <1>10, <2>4, Procs
      <3>2. Answer(buffer[TASK_FS], q)
        BY <1>2, <3>1 DEF Runs, Messages
      <3> QED BY <1>10, <1>12, <3>2
    <2>5. ASSUME NEW q \in User, Answered(q)'
          PROVE  Answer(buffer[q], q)'
      <3>1. CASE q = p
        BY <1>13, <2>5, <3>1
      <3>2. CASE q # p
        <4>1. Answer(buffer[q], q)
          BY <1>2, <1>14, <2>5, <3>2 DEF Runs, Messages
        <4> QED BY <1>10, <1>12, <3>2, <4>1
      <3> QED BY <3>1, <3>2
    <2> QED BY <2>1, <2>2, <2>3, <2>4, <2>5 DEF Messages
  <1>19. Readers'
    BY <1>1, <1>2, <1>11 DEF Runs, Readers
  <1>20. \A q \in User : Offers(TASK_FS, q)' => phase'[q] # "idle"
    BY <1>3, <1>7, <1>10, Procs DEF TIInv
  <1>21. \A q \in User : UserInStep(q)' /\ InOnePlace(q)' /\ LineFits(q)'
    BY <1>13, <1>16, <1>17
  <1> QED BY <1>6, <1>8, <1>13, <1>15, <1>18, <1>19, <1>20, <1>21 DEF TIInv, Runs

\* A process has its answer, and forgets the line.
LEMMA UserReturnKeeps ==
    ASSUME TIInv, NEW p \in User, UserReturn(p)
    PROVE  TIInv'
  <1>1. /\ phase[p] = "receiving" /\ ~panicked /\ Free(p) /\ Answered(p)
        /\ phase' = [phase EXCEPT ![p] = "idle"]
        /\ asked' = [asked EXCEPT ![p] = "NONE"]
        /\ line' = [line EXCEPT ![p] = <<>>]
        /\ text' = [text EXCEPT ![p] = [i \in 1..MaxCount |-> NoChar]]
        /\ buffer' = [buffer EXCEPT ![p] = [source |-> p, body |-> Zeroed]]
        /\ UNCHANGED <<kernelVars, pending, panicked>>
        /\ UNCHANGED <<tty, tty_pc, at, current, keys, tty_key_pressed, fs_pc, fs_msg>>
    BY DEF UserReturn, Returns, Runnable, Answered, Free, ttyVars, keyVars, fsVars
  <1>2. KernelInv /\ TTypeOK /\ Runs
    BY <1>1 DEF TIInv
  <1>3. /\ p \in Proc \ {TASK_FS, TASK_TTY}
        /\ \A q \in User : q \in Proc \ {TASK_FS, TASK_TTY} /\ TtyOf[q] \in Tty
    BY Procs, TerminalAssumption
  <1>4. /\ UserInStep(p) /\ InOnePlace(p)
        /\ ~FsHolds(p) /\ ~FsRequest(p) /\ ~TtyHolds(p)
        /\ ~Offers(p, TASK_FS) /\ ~Offers(TASK_FS, p)
    <2>1. UserInStep(p) /\ InOnePlace(p)
      BY <1>2 DEF Runs
    <2>2. ~Offers(p, TASK_FS)
      BY <1>1, <1>2, <1>3, Exclusive
    <2> QED BY <1>1, <2>1, <2>2 DEF InOnePlace, FsHolds
  <1>5. /\ \A q \in User \ {p} : /\ phase'[q] = phase[q] /\ asked'[q] = asked[q]
                                 /\ line'[q] = line[q] /\ text'[q] = text[q]
        /\ phase'[p] = "idle" /\ asked'[p] = "NONE" /\ line'[p] = <<>>
        /\ text'[p] = [i \in 1..MaxCount |-> NoChar]
        /\ \A x \in Proc \ {p} : buffer'[x] = buffer[x]
    BY <1>1, <1>2 DEF TTypeOK, KernelInv, KernelTypeOK
  <1>6. buffer' \in [Proc -> Message] /\ panicked' \in BOOLEAN
    <2>1. [source |-> p, body |-> Zeroed] \in Message
      BY <1>3 DEF Message
    <2> QED BY <1>1, <1>2, <2>1 DEF KernelInv, KernelTypeOK, TTypeOK, TypeOK
  <1>7. KernelInv'
    BY <1>1, <1>2, <1>6, SameKernelInv
  <1>8. TTypeOK'
    <2>1. /\ phase' \in [User -> {"idle", "called", "receiving"}]
          /\ asked' \in [User -> Call \cup {"NONE"}]
      BY <1>1, <1>2 DEF TTypeOK
    <2>2. line' \in [User -> Seq(Char)]
      BY <1>1, <1>2 DEF TTypeOK
    <2>3. text' \in [User -> [1..MaxCount -> Char \cup {NoChar}]]
      BY <1>1, <1>2 DEF TTypeOK
    <2> QED BY <1>1, <1>2, <1>6, <1>7, <2>1, <2>2, <2>3 DEF TTypeOK, TypeOK, KernelInv
  <1>9. /\ \A x : Free(x)' <=> Free(x)
        /\ \A x, y : Waiting(x, y)' <=> Waiting(x, y)
        /\ \A x, y : Offers(x, y)' <=> Offers(x, y)
        /\ UNCHANGED has_int_msg
    BY <1>1, SameIpc
  <1>10. buffer'[TASK_FS] = buffer[TASK_FS] /\ buffer'[TASK_TTY] = buffer[TASK_TTY]
    BY <1>3, <1>5, Procs
  <1>11. /\ FsTakes' <=> FsTakes
         /\ FsWorks' <=> FsWorks
         /\ FsAwaits' <=> FsAwaits
         /\ FsReplied' <=> FsReplied
         /\ TtyTakes' <=> TtyTakes
         /\ TtyReplies' <=> TtyReplies
         /\ TtyAsks' <=> TtyAsks
         /\ Suspended' <=> Suspended
         /\ \A d : HasReader(d)' <=> HasReader(d)
         /\ reader' = reader
    BY <1>1, <1>9, <1>10
    DEF FsTakes, FsWorks, FsAwaits, FsReplied, TtyTakes, TtyReplies, TtyAsks, Suspended,
        HasReader, polled, reader
  <1>12. FsTakes => \A k : buffer[TASK_FS].body # Resume(k, p)
    <2> SUFFICES ASSUME FsTakes, NEW k, buffer[TASK_FS].body = Resume(k, p)
                 PROVE  FALSE
      OBVIOUS
    <2>1. ~Asked(buffer[TASK_FS])
      BY LineIsNoCall
    <2>2. PICK q \in User : buffer[TASK_FS] = LineMessage(q)
      BY <1>2, <2>1 DEF Runs, Messages
    <2>3. Resume(k, p).process_index = p /\ Resume(Len(line[q]), q).process_index = q
      BY Fields
    <2>4. q = p
      BY <2>2, <2>3 DEF LineMessage
    <2> QED BY <1>4, <2>2, <2>4 DEF FsHolds
  <1>13. /\ \A x : Asked(x) /\ x.source # p => Asked(x)'
         /\ \A x, q : q \in User \ {p} => (Answer(x, q)' <=> Answer(x, q))
         /\ \A q \in User \ {p} : UNCHANGED LineMessage(q)
         /\ UNCHANGED <<DriverRequest, DriverAnswer>>
    <2>1. \A x : Asked(x) /\ x.source # p => Asked(x)'
      BY <1>5 DEF Asked
    <2> QED BY <1>1, <1>5, <2>1 DEF Answer, LineMessage, DriverRequest, DriverAnswer
  <1>14. \A q \in User : FsRequest(q)' <=> FsRequest(q)
    BY <1>1, <1>10, <1>11 DEF FsRequest
  <1>15. ASSUME NEW q \in User PROVE FsHolds(q)' <=> FsHolds(q)
    <2>1. CASE q = p
      <3>1. FsTakes => buffer[TASK_FS] # LineMessage(p)'
        BY <1>12 DEF LineMessage
      <3> QED BY <1>4, <1>9, <1>10, <1>11, <1>14, <2>1, <3>1 DEF FsHolds
    <2>2. CASE q # p
      BY <1>9, <1>10, <1>11, <1>13, <1>14, <2>2 DEF FsHolds
    <2> QED BY <2>1, <2>2
  <1>16. /\ \A q \in User : TtyHolds(q)' <=> TtyHolds(q)
         /\ \A q \in User \ {p} : Answered(q)' <=> Answered(q)
         /\ ~Answered(p)'
    BY <1>1, <1>5, <1>9, <1>11 DEF TtyHolds, Answered
  <1>17. Partners' /\ TtyInStep' /\ FsInStep' /\ Together'
    <2>1. Partners'
      <3>1. phase[p] # "called" /\ phase'[p] # "called"
        BY <1>1, <1>5
      <3>2. \A q \in User : phase'[q] = "called" <=> phase[q] = "called"
        BY <1>5, <3>1
      <3> QED BY <1>1, <1>2, <1>9, <3>2 DEF Runs, Partners
    <2>2. TtyInStep' /\ FsInStep'
      BY <1>1, <1>2, <1>9 DEF Runs, TtyInStep, FsInStep
    <2> QED BY <1>2, <1>11, <2>1, <2>2 DEF Runs, Together
  <1>18. UserInStep(p)' /\ InOnePlace(p)' /\ LineFits(p)'
    <2>1. UserInStep(p)'
      BY <1>1, <1>5, <1>9 DEF UserInStep
    <2>2. InOnePlace(p)'
      BY <1>4, <1>5, <1>15, <1>16 DEF InOnePlace
    <2>3. LineFits(p)'
      BY <1>5 DEF LineFits
    <2> QED BY <2>1, <2>2, <2>3
  <1>19. ASSUME NEW q \in User \ {p}
         PROVE  UserInStep(q)' /\ InOnePlace(q)' /\ LineFits(q)'
    <2>1. UserInStep(q) /\ InOnePlace(q) /\ LineFits(q)
      BY <1>2 DEF Runs
    <2>2. UserInStep(q)'
      BY <1>5, <1>9, <2>1 DEF UserInStep
    <2>3. InOnePlace(q)'
      BY <1>5, <1>9, <1>15, <1>16, <2>1 DEF InOnePlace
    <2>4. LineFits(q)'
      BY <1>5, <1>9, <1>14, <2>1 DEF LineFits
    <2> QED BY <2>2, <2>3, <2>4
  <1>20. Messages'
    <2>1. ASSUME NEW q \in User, Offers(q, TASK_FS)'
          PROVE  buffer'[q].source = q /\ Asked(buffer[q])'
      <3>1. Offers(q, TASK_FS) /\ q # p /\ buffer'[q] = buffer[q]
        BY <1>3, <1>4, <1>5, <1>9, <2>1
      <3>2. buffer[q].source = q /\ Asked(buffer[q])
        BY <1>2, <3>1 DEF Runs, Messages
      <3> QED BY <1>13, <3>1, <3>2
    <2>2. ASSUME FsTakes'
          PROVE  \/ Asked(buffer[TASK_FS])'
                 \/ \E q \in User : buffer'[TASK_FS] = LineMessage(q)' /\ asked'[q] = "READ"
      <3>1. CASE Asked(buffer[TASK_FS])
        <4>1. buffer[TASK_FS].source # p
          BY <1>4, <1>11, <2>2 DEF FsRequest
        <4> QED BY <1>10, <1>13, <3>1, <4>1
      <3>2. ASSUME NEW q \in User, buffer[TASK_FS] = LineMessage(q), asked[q] = "READ"
            PROVE  buffer'[TASK_FS] = LineMessage(q)' /\ asked'[q] = "READ"
        <4>1. q # p
          BY <1>4, <1>11, <2>2, <3>2 DEF FsHolds
        <4> QED BY <1>5, <1>10, <1>13, <3>2, <4>1
      <3> QED BY <1>2, <1>11, <2>2, <3>1, <3>2 DEF Runs, Messages
    <2>3. ASSUME FsWorks', ~Suspended' PROVE Asked(fs_msg)'
      <3>1. Asked(fs_msg) /\ fs_msg.source # p
        BY <1>2, <1>4, <1>11, <2>3 DEF Runs, Messages, FsRequest
      <3> QED BY <1>1, <1>13, <3>1
    <2>4. ASSUME TtyAsks' PROVE buffer'[TASK_TTY] = LineMessage(reader)'
      <3>1. TtyAsks /\ buffer[TASK_TTY] = LineMessage(reader)
        BY <1>2, <1>11, <2>4 DEF Runs, Messages
      <3>2. tty_pc = "resumed" /\ at <= Len(ttys_table) /\ Offers(TASK_TTY, TASK_FS)
        BY <1>2, <3>1 DEF TtyAsks, Runs, TtyInStep
      <3>3. polled \in Tty /\ HasReader(polled)
        BY <1>2, <3>2, Polled DEF HasReader
      <3>4. reader \in User /\ ~Answered(reader)
        BY <1>2, <3>3, ReaderIsHeld DEF reader
      <3>5. reader \in User \ {p}
        BY <1>1, <3>4
      <3>6. LineMessage(reader)' = LineMessage(reader)
        BY <1>11, <1>13, <3>5 DEF LineMessage
      <3> QED BY <1>10, <3>1, <3>6
    <2>5. /\ Offers(TASK_FS, TASK_TTY)' => buffer'[TASK_FS] = DriverRequest'
          /\ FsReplied' => buffer'[TASK_FS] = DriverAnswer'
          /\ TtyTakes' => buffer'[TASK_TTY] = DriverRequest'
          /\ TtyReplies' => buffer'[TASK_TTY] = DriverAnswer'
      BY <1>2, <1>9, <1>10, <1>11, <1>13 DEF Runs, Messages
    <2>6. ASSUME NEW q \in User, Offers(TASK_FS, q)'
          PROVE  Answer(buffer[TASK_FS], q)'
      <3>1. Offers(TASK_FS, q) /\ q # p
        BY <1>4, <1>9, <2>6
      <3>2. Answer(buffer[TASK_FS], q)
        BY <1>2, <3>1 DEF Runs, Messages
      <3> QED BY <1>10, <1>13, <3>1, <3>2
    <2>7. ASSUME NEW q \in User, Answered(q)'
          PROVE  Answer(buffer[q], q)'
      <3>1. q # p /\ Answered(q) /\ buffer'[q] = buffer[q]
        BY <1>3, <1>5, <1>16, <2>7
      <3>2. Answer(buffer[q], q)
        BY <1>2, <3>1 DEF Runs, Messages
      <3> QED BY <1>13, <3>1, <3>2
    <2> QED BY <2>1, <2>2, <2>3, <2>4, <2>5, <2>6, <2>7 DEF Messages
  <1>21. Readers'
    <2> SUFFICES ASSUME NEW d \in Tty, HasReader(d)'
                 PROVE  LET q == tty'[d].process_index
                        IN  /\ q \in User /\ TtyOf[q] = d /\ asked'[q] = "READ"
                            /\ tty'[d].caller = TASK_FS
                            /\ Len(line'[q]) = tty'[d].trans_count
                            /\ tty'[d].trans_count + tty'[d].bytes_left <= MaxCount
      BY DEF Readers
    <2>1. HasReader(d) /\ tty'[d] = tty[d]
      BY <1>1, <1>11
    <2>2. tty[d].process_index \in User \ {p}
      BY <1>1, <1>2, <2>1, ReaderIsHeld
    <2>3. LET q == tty[d].process_index
          IN  /\ q \in User /\ TtyOf[q] = d /\ asked[q] = "READ"
              /\ tty[d].caller = TASK_FS
              /\ Len(line[q]) = tty[d].trans_count
              /\ tty[d].trans_count + tty[d].bytes_left <= MaxCount
      BY <1>2, <2>1 DEF Runs, Readers
    <2> QED BY <1>5, <2>1, <2>2, <2>3
  <1>22. \A q \in User : Offers(TASK_FS, q)' => phase'[q] # "idle"
    BY <1>4, <1>5, <1>9 DEF TIInv
  <1>23. \A q \in User : UserInStep(q)' /\ InOnePlace(q)' /\ LineFits(q)'
    BY <1>18, <1>19
  <1> QED BY <1>7, <1>8, <1>17, <1>20, <1>21, <1>22, <1>23 DEF TIInv, Runs
-----------------------------------------------------------------------------
(* The theorems.                                                           *)

\* No step of the terminals, the file system, the processes, the keyboard or
\* the clock breaks the invariant.
LEMMA NextTIInv == TIInv /\ [TNext]_tvars => TIInv'
  <1> SUFFICES ASSUME TIInv, [TNext]_tvars PROVE TIInv'
    OBVIOUS
  <1>1. ASSUME NEW key \in Key, keyboard_handler(key) PROVE TIInv'
    BY <1>1, KeyboardKeeps
  <1>2. CASE clock_handler
    BY <1>2, ClockKeeps
  <1>3. CASE TtyStep
    <2>1. CASE TtyIdle \/ console_select \/ IgnoresKey
      BY <2>1, PollsKeep
    <2>2. CASE TtyBackspace
      BY <2>2, BackspaceKeeps
    <2>3. CASE TtyChar
      BY <2>3, CharKeeps
    <2>4. CASE TtyEnter
      BY <2>4, EnterKeeps
    <2>5. CASE TtyResumed
      BY <2>5, ResumedKeeps
    <2>6. CASE TtyReceive
      BY <2>6, TtyReceiveKeeps
    <2>7. CASE TtyHardInt
      BY <2>7, HardIntKeeps
    <2>8. CASE TtyAnswers(buffer[TASK_TTY])
      BY <2>8, AnswersKeep
    <2>9. CASE tty_do_read(buffer[TASK_TTY])
      BY <2>9, DoReadKeeps
    <2> QED BY <1>3, <2>1, <2>2, <2>3, <2>4, <2>5, <2>6, <2>7, <2>8, <2>9 DEF TtyStep
  <1>4. CASE FsStep
    <2>1. CASE FsReceive
      BY <2>1, FsReceiveKeeps
    <2>2. CASE FsCallsDriver
      BY <2>2, FsCallsDriverKeeps
    <2>3. CASE FsDriver
      BY <2>3, FsDriverKeeps
    <2>4. CASE FsDriven
      BY <2>4, FsDrivenKeeps
    <2>5. CASE FsResumes
      BY <2>5, FsResumesKeeps
    <2> QED BY <1>4, <2>1, <2>2, <2>3, <2>4, <2>5 DEF FsStep
  <1>5. ASSUME NEW p \in User,
               \/ \E call \in Program[p] : UserCall(p, call[1], call[2])
               \/ UserReceive(p) \/ UserReturn(p)
        PROVE  TIInv'
    <2>1. ASSUME NEW call \in Program[p], UserCall(p, call[1], call[2]) PROVE TIInv'
      BY <2>1, UserCallKeeps
    <2>2. CASE UserReceive(p)
      BY <2>2, UserReceiveKeeps
    <2>3. CASE UserReturn(p)
      BY <2>3, UserReturnKeeps
    <2> QED BY <1>5, <2>1, <2>2, <2>3
  <1>6. CASE UNCHANGED tvars
    BY <1>6, StutterKeeps
  <1> QED BY <1>1, <1>2, <1>3, <1>4, <1>5, <1>6 DEF TNext

\* Wherever the terminals, the file system and the processes are in their calls,
\* they agree on who has which call and which line in hand (tty.cpp:36-322,
\* main.cpp:30-120).
THEOREM TerminalInvariant == TSpec => []TIInv
  <1>1. TInit => TIInv
    BY InitTIInv
  <1>2. TIInv /\ [TNext]_tvars => TIInv'
    BY NextTIInv
  <1> QED BY <1>1, <1>2, PTL DEF TSpec

\* A read returns the line that was typed for it, with its length, for any
\* number of processes, terminals and keys (tty.cpp:173-233, main.cpp:64-78).
THEOREM ReadReturnsItsLine == TSpec => []ReaderGetsItsLine
  <1>1. TIInv => ReaderGetsItsLine
    <2> SUFFICES ASSUME TIInv, NEW p \in User, Returns(p), asked[p] = "READ"
                 PROVE  /\ buffer[p].source = TASK_FS
                        /\ buffer[p].body = SyscallRet(Len(line[p]))
                        /\ \A i \in DOMAIN line[p] : text[p][i] = line[p][i]
      BY DEF ReaderGetsItsLine
    <2>1. Runs /\ Answered(p)
      BY DEF TIInv, Returns, Runnable, Answered, Free
    <2>2. Answer(buffer[p], p) /\ LineFits(p)
      BY <2>1 DEF Runs, Messages
    <2> QED BY <2>2 DEF Answer, LineFits
  <1> QED BY <1>1, TerminalInvariant, PTL

\* No call is lost between the process, the file system and the terminal, and
\* only a process in a call is answered (tty.cpp:221-233, main.cpp:64-78).
THEOREM NoCallIsLost == TSpec => []EveryCallIsInHand
  <1>1. TIInv => EveryCallIsInHand
    <2> SUFFICES ASSUME TIInv PROVE EveryCallIsInHand
      OBVIOUS
    <2>1. TTypeOK /\ KernelInv
      BY DEF TIInv
    <2>2. ASSUME NEW p \in User, phase[p] # "idle", ~panicked
          PROVE  \/ Sending(p) \/ FsHas(p) \/ TtyHas(p)
                 \/ phase[p] = "receiving" /\ Runnable(p)
      <3>1. Runs /\ InOnePlace(p)
        BY <2>2 DEF TIInv, Runs
      <3>2. CASE Offers(p, TASK_FS)
        BY <3>2 DEF Offers
      <3>3. CASE Answered(p)
        BY <2>2, <3>3 DEF Answered, Runnable, Free
      <3>4. CASE FsHolds(p)
        <4>1. FsTakes => fs_pc = "handle" /\ ~Receiving(TASK_FS)
          BY <2>1, NotSending, Procs DEF FsTakes
        <4>2. LineMessage(p).body.process_index = p
          BY Fields DEF LineMessage
        <4>3. FsRequest(p) => FsHas(p)
          BY <4>1 DEF FsRequest, FsWorks, FsHas
        <4>4. FsTakes /\ buffer[TASK_FS] = LineMessage(p) => FsHas(p)
          BY <4>1, <4>2 DEF FsHas
        <4>5. Offers(TASK_FS, p) => FsHas(p)
          BY DEF Offers, FsHas
        <4> QED BY <3>4, <4>3, <4>4, <4>5 DEF FsHolds
      <3>5. CASE TtyHolds(p)
        <4>1. TtyOf[p] \in Tty
          BY TerminalAssumption
        <4> QED BY <3>5, <4>1 DEF TtyHolds, HasReader, TtyHas, Offers
      <3> QED BY <2>2, <3>1, <3>2, <3>3, <3>4, <3>5 DEF InOnePlace
    <2>3. Sending(TASK_FS) /\ sendto[TASK_FS] \in User => phase[sendto[TASK_FS]] # "idle"
      BY DEF TIInv, Offers
    <2> QED BY <2>1, <2>2, <2>3 DEF EveryCallIsInHand
  <1> QED BY <1>1, TerminalInvariant, PTL

\* The memory of a process is written only while it is in a read, so that the
\* pointer that the terminal keeps is never used after it (tty.cpp:190-198, 215).
THEOREM ReadersAreWritten == TSpec => OnlyReadersAreWritten
  <1>1. TIInv /\ [TNext]_tvars =>
           \A p \in User : text'[p] # text[p] => phase[p] # "idle" /\ asked[p] = "READ"
    <2> SUFFICES ASSUME TIInv, [TNext]_tvars, NEW p \in User, text'[p] # text[p]
                 PROVE  phase[p] # "idle" /\ asked[p] = "READ"
      OBVIOUS
    <2>1. TtyChar \/ \E q \in User : UserReturn(q)
      BY DEF TNext, TtyStep, FsStep, tvars, userVars, keyboard_handler, clock_handler,
             TtyIdle, console_select, IgnoresKey, TtyBackspace, TtyEnter, TtyResumed,
             TtyReceive, TtyHardInt, TtyAnswers, tty_do_read, Handles, FsReceive,
             FsCallsDriver, FsDriver, FsDriven, FsResumes, UserCall, UserReceive
    <2>2. CASE TtyChar
      <3>1. /\ Polls /\ tty[polled].bytes_left > 0
            /\ text' = [text EXCEPT ![reader][tty[polled].trans_count + 1] = pressed]
        BY <2>2 DEF TtyChar, TakesKey
      <3>2. Runs /\ TTypeOK /\ tty_pc = "poll" /\ at <= Len(ttys_table)
        BY <3>1 DEF TIInv, Polls, Runnable
      <3>3. polled \in Tty /\ HasReader(polled)
        BY <3>1, <3>2, Polled DEF HasReader
      <3>4. reader \in User /\ asked[reader] = "READ" /\ phase[reader] # "idle"
        BY <3>2, <3>3, ReaderIsHeld DEF reader
      <3>5. p = reader
        BY <3>1, <3>2, <3>4 DEF TTypeOK
      <3> QED BY <3>4, <3>5
    <2>3. ASSUME NEW q \in User, UserReturn(q)
          PROVE  phase[p] # "idle" /\ asked[p] = "READ"
      <3>1. /\ phase[q] = "receiving" /\ ~panicked
            /\ text' = [text EXCEPT ![q] = [i \in 1..MaxCount |-> NoChar]]
        BY <2>3 DEF UserReturn, Returns, Runnable
      <3>2. TTypeOK /\ LineFits(p)
        BY <3>1 DEF TIInv, Runs
      <3>3. p = q /\ text[p] # [i \in 1..MaxCount |-> NoChar]
        BY <3>1, <3>2 DEF TTypeOK
      <3> QED BY <3>1, <3>2, <3>3 DEF LineFits
    <2> QED BY <2>1, <2>2, <2>3
  <1> QED BY <1>1, TerminalInvariant, PTL DEF TSpec, OnlyReadersAreWritten
=============================================================================
