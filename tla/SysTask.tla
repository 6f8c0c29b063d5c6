------------------------------ MODULE SysTask ------------------------------
(***************************************************************************)
(* The system task and its callers: task_sys (sys/systask.c) answers       *)
(* get_ticks (lib/clock.c) with the number of clock interrupts.  Both run  *)
(* on the message passing of Ipc, whose operators are the system calls     *)
(* they make.  Module HardDisk puts a caller beside it and has the whole   *)
(* specification.                                                          *)
(***************************************************************************)
EXTENDS Ipc

CONSTANTS
    TASK_SYS,         \* the process that runs task_sys
    GetTicksRequest,  \* the body get_ticks sends: SR_MSGTYPE_GET_TICKS
    MaxTick           \* bound: the clock stops counting there

\* The answer carries the count in m_int32.
Answer(n) == [ticks |-> n]

ASSUME SysTaskAssumption ==
    /\ TASK_SYS \in Proc
    /\ MaxTick \in Nat
    /\ {GetTicksRequest} \cup {Answer(n) : n \in 0..MaxTick} \subseteq Body
    /\ GetTicksRequest \notin {Answer(n) : n \in 0..MaxTick}
    /\ {HardInt, Zeroed} \cap Body = {} /\ HardInt # Zeroed

Client == Proc \ {TASK_SYS}

VARIABLES
    sys_tick_count,
    sys_pc,        \* where task_sys is in its loop
    phase,         \* where a client is in get_ticks
    asked          \* the count when the client called get_ticks (history)

svars == <<vars, sys_tick_count, sys_pc, phase, asked>>

STypeOK ==
    /\ TypeOK
    /\ sys_tick_count \in 0..MaxTick
    /\ sys_pc \in {"receive", "received", "send"}
    /\ phase \in [Client -> {"idle", "called", "receiving"}]
    /\ asked \in [Client -> 0..MaxTick]

SInit ==
    /\ Init
    /\ sys_tick_count = 0
    /\ sys_pc = "receive"
    /\ phase = [c \in Client |-> "idle"]
    /\ asked = [c \in Client |-> 0]

-----------------------------------------------------------------------------
(* task_sys                                                                *)

SysReceive ==
    /\ sys_pc = "receive" /\ sys_pc' = "received"
    /\ Receive(TASK_SYS, SR_TARGET_ANY)
    /\ UNCHANGED <<sys_tick_count, phase, asked>>

\* The switch over msg.type with the answer to a request: the task runs on when
\* its receive is complete.
SysAnswers(answer) ==
    /\ sys_pc = "received" /\ Runnable(TASK_SYS)
    /\ IF buffer[TASK_SYS].body = GetTicksRequest
       THEN /\ buffer' = [buffer EXCEPT ![TASK_SYS].body = answer]
            /\ sys_pc' = "send"
            /\ UNCHANGED panicked
       ELSE /\ panicked' = TRUE
            /\ UNCHANGED <<buffer, sys_pc>>
    /\ UNCHANGED <<kernelVars, pending, sys_tick_count, phase, asked>>

\* Variant: m_int32 is left as the memset of the request made it.
SysHandleUnfilled == SysAnswers(Answer(0))

\* The count is read here, and more interrupts may come before it is sent.
SysHandle == SysAnswers(Answer(sys_tick_count))

SysSend ==
    /\ sys_pc = "send" /\ sys_pc' = "receive"
    /\ Send(TASK_SYS, buffer[TASK_SYS].source, buffer[TASK_SYS].body)
    /\ UNCHANGED <<sys_tick_count, phase, asked>>

-----------------------------------------------------------------------------
(* get_ticks                                                               *)

GetTicks(c) ==
    /\ phase[c] = "idle" /\ phase' = [phase EXCEPT ![c] = "called"]
    /\ SendBoth(c, TASK_SYS, GetTicksRequest)
    /\ asked' = [asked EXCEPT ![c] = sys_tick_count]
    /\ UNCHANGED <<sys_tick_count, sys_pc>>

GetTicksReceive(c) ==
    /\ phase[c] = "called" /\ phase' = [phase EXCEPT ![c] = "receiving"]
    /\ ReceiveReply(c)
    /\ UNCHANGED <<sys_tick_count, sys_pc, asked>>

Returns(c) == phase[c] = "receiving" /\ Runnable(c)

GetTicksReturn(c) ==
    /\ Returns(c)
    /\ phase' = [phase EXCEPT ![c] = "idle"]
    /\ asked' = [asked EXCEPT ![c] = 0]
    /\ UNCHANGED <<vars, sys_tick_count, sys_pc>>

-----------------------------------------------------------------------------
\* clock_handler counts before anything else.
Tick ==
    /\ ~panicked
    /\ sys_tick_count < MaxTick
    /\ sys_tick_count' = sys_tick_count + 1
    /\ UNCHANGED <<vars, sys_pc, phase, asked>>

SysStep == SysReceive \/ SysHandle \/ SysSend
-----------------------------------------------------------------------------
(* Properties.                                                             *)

\* What get_ticks returns is the answer of task_sys to this call and not an
\* older one: a count between the call and the return (systask.c:15-17,
\* lib/clock.c:7-13).
FreshTicks ==
    \A c \in Client : Returns(c) =>
        /\ buffer[c].source = TASK_SYS
        /\ \E n \in asked[c]..sys_tick_count : buffer[c].body = Answer(n)
=============================================================================
