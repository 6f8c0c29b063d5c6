---------------------------- MODULE KernelWindow ----------------------------
(***************************************************************************)
(* A system call seen from inside.  sys_call re-enables interrupts before  *)
(* it calls sendrecv_impl (kernel.asm:293), so an interrupt handler may    *)
(* run between any two instructions of message_send and message_receive    *)
(* and change the process the call is about.  Ipc takes a call as one      *)
(* step; here a call is the steps between which an interrupt makes a       *)
(* difference.  Calls still never overlap: the clock does not reschedule   *)
(* while k_reenter # 0 (clock.c:30-31).                                    *)
(***************************************************************************)
EXTENDS Ipc

VARIABLES
    call,        \* the call that is in the kernel and where it is
    disturbed    \* an interrupt was reported during that call

wvars == <<vars, call, disturbed>>

Pc == {"idle", "deadlock", "send", "deliver", "copy", "clear", "wake", "sent",
       "receive", "interrupt", "taken", "flag", "from", "block", "received"}

\* The call: its position, the caller, its target and the caller's message.
NoCall == [pc |-> "idle"]
Calls == {NoCall} \cup [pc : Pc \ {"idle"}, p : Proc,
                        target : Proc \cup Sentinel, m : Message]

WTypeOK == TypeOK /\ call \in Calls /\ disturbed \in BOOLEAN

WInit ==
    /\ Init
    /\ call = NoCall
    /\ disturbed = FALSE

At(pc) == ~panicked /\ call.pc = pc
GoTo(pc) == call' = IF pc = "idle" THEN NoCall ELSE [call EXCEPT !.pc = pc]

\* An assertion: the call goes on at pc, or assertion_failure stops it all.
Asserting(condition, pc) ==
    IF condition THEN GoTo(pc) /\ UNCHANGED panicked
                 ELSE panicked' = TRUE /\ UNCHANGED call

-----------------------------------------------------------------------------
(* Entering the kernel.                                                    *)

Enter(pc, p, target, m) ==
    /\ At("idle") /\ Runnable(p)
    /\ call' = [pc |-> pc, p |-> p, target |-> target, m |-> m]
    /\ buffer' = [buffer EXCEPT ![p] = m]
    /\ disturbed' = FALSE
    /\ UNCHANGED <<kernelVars, panicked>>

EnterSend(p, dest, b, both) ==
    /\ pending[p] = SR_TARGET_NONE
    /\ Enter("send", p, dest, [source |-> p, body |-> b])
    /\ pending' = [pending EXCEPT ![p] = IF both THEN dest ELSE @]

EnterReceive(p, source) ==
    /\ pending[p] = SR_TARGET_NONE
    /\ Enter("receive", p, source, [source |-> p, body |-> Zeroed])
    /\ UNCHANGED pending

EnterReply(p) ==
    /\ pending[p] # SR_TARGET_NONE
    /\ Enter("receive", p, pending[p], [buffer[p] EXCEPT !.source = p])
    /\ pending' = [pending EXCEPT ![p] = SR_TARGET_NONE]

-----------------------------------------------------------------------------
(* message_send                                                            *)

\* The deadlock check and the test whether dest waits.  Blocking the sender
\* touches no field that a handler looks at.
SendTest ==
    /\ At("send")
    /\ LET p == call.p  dest == call.target IN
          \/ /\ process_check_deadlock(p, dest)
             /\ GoTo("deadlock") /\ panicked' = TRUE
             /\ UNCHANGED <<kernelVars, buffer>>
          \/ /\ ~process_check_deadlock(p, dest) /\ WaitsFor(dest, p)
             /\ GoTo("deliver")
             /\ UNCHANGED <<kernelVars, buffer, panicked>>
          \/ SendBlocks(p, dest, call.m) /\ GoTo("idle")
    /\ UNCHANGED <<pending, disturbed>>

\* assert(dest->msg)
SendCheckDest ==
    /\ At("deliver")
    /\ Asserting(msg[call.target], "copy")
    /\ UNCHANGED <<kernelVars, buffer, pending, disturbed>>

\* memcpy, to address 0 if dest->msg has become null.
SendCopy ==
    /\ At("copy") /\ GoTo("clear")
    /\ buffer' = IF msg[call.target]
                 THEN [buffer EXCEPT ![call.target] = call.m] ELSE buffer
    /\ UNCHANGED <<kernelVars, pending, panicked, disturbed>>

SendClearMsg ==
    /\ At("clear") /\ GoTo("wake")
    /\ msg' = [msg EXCEPT ![call.target] = FALSE]
    /\ UNCHANGED <<process_flags, recvfrom, sendto, has_int_msg, sending,
                   buffer, pending, panicked, disturbed>>

\* Variant: dest keeps its recvfrom.
SendWakeNoReset ==
    /\ At("wake") /\ GoTo("sent")
    /\ process_flags' = [process_flags EXCEPT ![call.target] = @ \ {RECEIVING}]
    /\ UNCHANGED <<msg, recvfrom, sendto, has_int_msg, sending,
                   buffer, pending, panicked, disturbed>>

SendWake ==
    /\ At("wake") /\ GoTo("sent")
    /\ process_flags' = [process_flags EXCEPT ![call.target] = @ \ {RECEIVING}]
    /\ recvfrom' = [recvfrom EXCEPT ![call.target] = SR_TARGET_NONE]
    /\ UNCHANGED <<msg, sendto, has_int_msg, sending,
                   buffer, pending, panicked, disturbed>>

\* The assertions about dest and sender after the delivery.
SendAsserts ==
    /\ At("sent")
    /\ Asserting(
          \A x \in {call.p, call.target} :
              /\ process_flags[x] = {} /\ ~msg[x]
              /\ recvfrom[x] = SR_TARGET_NONE /\ sendto[x] = SR_TARGET_NONE,
          "idle")
    /\ UNCHANGED <<kernelVars, buffer, pending, disturbed>>

-----------------------------------------------------------------------------
(* message_receive                                                         *)

\* The test of has_int_msg, and the search for a sender.  Copying from a
\* blocked sender touches no field that a handler looks at.
ReceiveTest ==
    /\ At("receive")
    /\ LET p == call.p  source == call.target IN
          \/ /\ TakesInterrupt(p, source)
             /\ GoTo("interrupt")
             /\ UNCHANGED <<kernelVars, buffer, panicked>>
          \/ \E sender \in Proc : ReceivesQueued(p, source, sender) /\ GoTo("idle")
          \/ /\ ~TakesInterrupt(p, source)
             /\ ~\E sender \in Proc : CanCopy(p, source, sender)
             /\ GoTo("flag")
             /\ UNCHANGED <<kernelVars, buffer, panicked>>
    /\ UNCHANGED <<pending, disturbed>>

ReceiveTake ==
    /\ At("interrupt") /\ GoTo("taken")
    /\ buffer' = Overwritten(call.p)
    /\ has_int_msg' = [has_int_msg EXCEPT ![call.p] = FALSE]
    /\ UNCHANGED <<process_flags, msg, recvfrom, sendto, sending,
                   pending, panicked, disturbed>>

\* The assertions about the receiver after has_int_msg was cleared: a handler
\* may have set it again.
ReceiveTakeAsserts ==
    /\ At("taken")
    /\ LET p == call.p IN
          Asserting(/\ process_flags[p] = {} /\ ~msg[p]
                    /\ sendto[p] = SR_TARGET_NONE /\ ~has_int_msg[p], "idle")
    /\ UNCHANGED <<kernelVars, buffer, pending, disturbed>>

ReceiveFlag ==
    /\ At("flag") /\ GoTo("from")
    /\ process_flags' = [process_flags EXCEPT ![call.p] = @ \cup {RECEIVING}]
    /\ UNCHANGED <<msg, recvfrom, sendto, has_int_msg, sending,
                   buffer, pending, panicked, disturbed>>

ReceiveFrom ==
    /\ At("from") /\ GoTo("block")
    /\ msg' = [msg EXCEPT ![call.p] = TRUE]
    /\ recvfrom' = [recvfrom EXCEPT ![call.p] = call.target]
    /\ UNCHANGED <<process_flags, sendto, has_int_msg, sending,
                   buffer, pending, panicked, disturbed>>

\* process_block: assert(proc->process_flags), then schedual.
ReceiveBlock ==
    /\ At("block")
    /\ Asserting(process_flags[call.p] # {}, "received")
    /\ UNCHANGED <<kernelVars, buffer, pending, disturbed>>

\* Variant: has_int_msg is not asserted.
ReceiveAssertsNoInterrupt ==
    /\ At("received")
    /\ LET p == call.p IN
          Asserting(/\ process_flags[p] = {RECEIVING} /\ msg[p]
                    /\ recvfrom[p] # SR_TARGET_NONE /\ sendto[p] = SR_TARGET_NONE,
                    "idle")
    /\ UNCHANGED <<kernelVars, buffer, pending, disturbed>>

\* The assertions about the receiver after it was blocked.
ReceiveAsserts ==
    /\ At("received")
    /\ LET p == call.p IN
          Asserting(/\ process_flags[p] = {RECEIVING} /\ msg[p]
                    /\ recvfrom[p] # SR_TARGET_NONE /\ sendto[p] = SR_TARGET_NONE
                    /\ ~has_int_msg[p], "idle")
    /\ UNCHANGED <<kernelVars, buffer, pending, disturbed>>

-----------------------------------------------------------------------------
\* A handler reports to t, whatever the kernel is doing.
WInterrupt(t) ==
    /\ Interrupt(t)
    /\ disturbed' = (call.pc # "idle")
    /\ UNCHANGED call

WNext ==
    \/ \E p \in Proc :
          \/ \E dest \in Proc \ {p}, b \in Body, both \in BOOLEAN :
                EnterSend(p, dest, b, both)
          \/ \E source \in (Proc \ {p}) \cup {SR_TARGET_ANY, SR_TARGET_INTERRUPT} :
                EnterReceive(p, source)
          \/ EnterReply(p)
    \/ SendTest \/ SendCheckDest \/ SendCopy \/ SendClearMsg \/ SendWake
    \/ SendAsserts
    \/ ReceiveTest \/ ReceiveTake \/ ReceiveTakeAsserts
    \/ ReceiveFlag \/ ReceiveFrom \/ ReceiveBlock \/ ReceiveAsserts
    \/ \E t \in IntTarget : WInterrupt(t)

WSpec == WInit /\ [][WNext]_wvars

-----------------------------------------------------------------------------
(* Properties.                                                             *)

\* Interrupts never disturb a list, even in the middle of a call; and whatever
\* they do during a call, when it is over the process table is as consistent
\* as if the call had been one step: the assertions at the end of message_send
\* and message_receive stop the system in the other cases (sendrecv.c:80-87,
\* 139-142, 239-243; proc.c:250).
ConsistentBetweenCalls ==
    /\ WTypeOK /\ QueueExact
    /\ call.pc = "idle" /\ ~panicked =>
          /\ StatusConsistent /\ NoSendCycle
          /\ NoMissedRendezvous /\ NoMissedInterrupt

\* Only interrupts make an assertion fail: one in the middle of the call, which
\* the test of has_int_msg or its clearing comes too early for (sendrecv.c:128-243),
\* or one recorded before the call of a receiver that does not want it, which the
\* last of the assertions finds.  The calls alone keep every assertion.
OnlyInterruptsBreakAsserts ==
    panicked /\ call.pc # "deadlock" =>
        \/ disturbed
        \/ /\ call.pc = "received" /\ has_int_msg[call.p]
           /\ call.target \notin {SR_TARGET_ANY, SR_TARGET_INTERRUPT}
=============================================================================
