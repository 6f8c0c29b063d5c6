--------------------------- MODULE SyscallParams ---------------------------
(***************************************************************************)
(* How a system call gets its parameters.  lib_sendrecv (lib/syscall.asm)  *)
(* runs in user mode and stores them in three global variables before      *)
(* int 0x90; sys_call (sys/kernel.asm) reads them back.  The clock may     *)
(* switch to another process between any two of these instructions.        *)
(* Every process runs its program, a cycle of send and receive calls.      *)
(***************************************************************************)
EXTENDS Ipc

\* The calls of each process, a sequence of mode and target.  No program names
\* the process that runs it.
CONSTANT Program

VARIABLES
    p_proc_ready,     \* the process that runs
    step,             \* the call of its program a process is in
    eip,              \* its next instruction in lib_sendrecv
    syscall_param0, syscall_param1, syscall_param2    \* mode, target, message

userVars == <<step, eip>>
paramVars == <<syscall_param0, syscall_param1, syscall_param2>>
pvars == <<vars, p_proc_ready, userVars, paramVars>>

PInit ==
    /\ Init
    /\ p_proc_ready \in Proc
    /\ step = [p \in Proc |-> 1]
    /\ eip = [p \in Proc |-> "param0"]
    /\ syscall_param0 = "SEND"
    /\ syscall_param1 \in Proc
    /\ syscall_param2 \in Proc

Runs(p) == p = p_proc_ready /\ Runnable(p)
CallOf(p) == Program[p][step[p]]

StoreParam0(p) ==
    /\ Runs(p) /\ eip[p] = "param0" /\ eip' = [eip EXCEPT ![p] = "param1"]
    /\ syscall_param0' = CallOf(p).mode
    /\ UNCHANGED <<vars, p_proc_ready, step, syscall_param1, syscall_param2>>

StoreParam1(p) ==
    /\ Runs(p) /\ eip[p] = "param1" /\ eip' = [eip EXCEPT ![p] = "param2"]
    /\ syscall_param1' = CallOf(p).target
    /\ UNCHANGED <<vars, p_proc_ready, step, syscall_param0, syscall_param2>>

\* The message is the caller's own.
StoreParam2(p) ==
    /\ Runs(p) /\ eip[p] = "param2" /\ eip' = [eip EXCEPT ![p] = "int 0x90"]
    /\ syscall_param2' = p
    /\ UNCHANGED <<vars, p_proc_ready, step, syscall_param0, syscall_param1>>

\* assert(msg_la->source != target), when source has just been set to p.
SourceIsNotTarget(p) == syscall_param1 # p

\* sys_call and sendrecv_impl for the parameters that are there now.  A call
\* on the message of another process is not followed any further.
Trap(p) ==
    /\ Runs(p) /\ eip[p] = "int 0x90"
    /\ eip' = [eip EXCEPT ![p] = "param0"]
    /\ step' = [step EXCEPT ![p] = (@ % Len(Program[p])) + 1]
    /\ LET m == [source |-> p, body |-> CHOOSE b \in Body : TRUE] IN
       IF SourceIsNotTarget(p) /\ syscall_param2 = p
       THEN \/ /\ syscall_param0 = "SEND"
               /\ syscall_param1 \in Proc
               /\ message_send(p, syscall_param1, m)
            \/ /\ syscall_param0 = "RECEIVE"
               /\ message_receive(p, syscall_param1, m)
       ELSE panicked' = TRUE /\ UNCHANGED <<kernelVars, buffer>>
    /\ p_proc_ready' \in {q \in Proc : process_flags'[q] = {}} \cup {p}
    /\ UNCHANGED <<pending, paramVars>>

\* clock_handler found no ticks left in user mode, or the running process is
\* blocked and another was woken: schedual.
Switch(q) ==
    /\ q # p_proc_ready /\ Runnable(q)
    /\ p_proc_ready' = q
    /\ UNCHANGED <<vars, userVars, paramVars>>

PNext ==
    \E p \in Proc :
        \/ StoreParam0(p) \/ StoreParam1(p) \/ StoreParam2(p)
        \/ Trap(p)
        \/ Switch(p)

PSpec == PInit /\ [][PNext]_pvars

\* assert(msg_la->source != target), sendrecv.c:20: the programs never name
\* themselves, so no call does.
NeverCallsItself == [][\A p \in Proc : Trap(p) => SourceIsNotTarget(p)]_pvars
=============================================================================
