-------------------------------- MODULE Ipc --------------------------------
(***************************************************************************)
(* Synchronous message passing of the kernel: sys/sendrecv.c and the       *)
(* process-table helpers of sys/proc.c that it calls.                      *)
(*                                                                         *)
(* A call of sendrecv_impl is one step: sendrecv_impl asserts k_reenter=0, *)
(* so two calls never overlap.  What an interrupt may do in the middle of  *)
(* a call is the subject of module KernelWindow.  The programs are         *)
(* arbitrary: a process that is not blocked may issue any call.            *)
(***************************************************************************)
EXTENDS Integers, Sequences, FiniteSets

Lists == INSTANCE SequencesExt

CONSTANTS
    Proc,                 \* the entries of proc_table
    IntTarget,            \* the processes some interrupt handler informs
    Body,                 \* what a message carries besides its source
    HardInt,              \* the body of a SR_MSGTYPE_HARDINT message
    Zeroed,               \* the body memset leaves in a receive buffer
    SR_TARGET_ANY, SR_TARGET_INTERRUPT, SR_TARGET_NONE

Sentinel == {SR_TARGET_ANY, SR_TARGET_INTERRUPT, SR_TARGET_NONE}

ASSUME ProcAssumption == IntTarget \subseteq Proc

ASSUME TargetAssumption ==
    /\ Sentinel \cap Proc = {}
    /\ SR_TARGET_ANY # SR_TARGET_INTERRUPT
    /\ SR_TARGET_ANY # SR_TARGET_NONE
    /\ SR_TARGET_INTERRUPT # SR_TARGET_NONE

SENDING   == "SENDING"       \* SR_STATUS_SENDING
RECEIVING == "RECEIVING"     \* SR_STATUS_RECEIVING

VARIABLES
    process_flags,   \* the set of status bits of a process
    msg,             \* is proc->msg set (it then points to buffer[p])?
    recvfrom, sendto,
    has_int_msg,
    sending,         \* the list from proc->sending along next_sending
    buffer,          \* the message_t in the memory of the process
    pending,         \* target of the receive half of SR_MODE_BOTH
    panicked         \* panic() or a failed assertion: nothing runs any more

kernelVars == <<process_flags, msg, recvfrom, sendto, has_int_msg, sending>>
vars == <<kernelVars, buffer, pending, panicked>>

Message == [source : Proc \cup {SR_TARGET_INTERRUPT},
            body   : Body \cup {HardInt, Zeroed}]

KernelTypeOK ==
    /\ process_flags \in [Proc -> SUBSET {SENDING, RECEIVING}]
    /\ msg \in [Proc -> BOOLEAN]
    /\ recvfrom \in [Proc -> Proc \cup Sentinel]
    /\ sendto \in [Proc -> Proc \cup {SR_TARGET_NONE}]
    /\ has_int_msg \in [Proc -> BOOLEAN]
    /\ sending \in [Proc -> Seq(Proc)]
    /\ buffer \in [Proc -> Message]
    /\ panicked \in BOOLEAN

\* Every field of the process table, and every message in memory, has its type.
TypeOK ==
    /\ KernelTypeOK
    /\ pending \in [Proc -> Proc \cup {SR_TARGET_NONE}]

Init ==
    /\ process_flags = [p \in Proc |-> {}]
    /\ msg = [p \in Proc |-> FALSE]
    /\ recvfrom = [p \in Proc |-> SR_TARGET_NONE]
    /\ sendto = [p \in Proc |-> SR_TARGET_NONE]
    /\ has_int_msg = [p \in Proc |-> FALSE]
    /\ sending = [p \in Proc |-> <<>>]
    /\ buffer = [p \in Proc |-> [source |-> p, body |-> Zeroed]]
    /\ pending = [p \in Proc |-> SR_TARGET_NONE]
    /\ panicked = FALSE

-----------------------------------------------------------------------------
(* Reading the process table.                                              *)

Sending(p)   == SENDING \in process_flags[p]
Receiving(p) == RECEIVING \in process_flags[p]

\* schedual() gives the processor to processes without flags only, and
\* nothing runs after a panic.
Runnable(p) == ~panicked /\ process_flags[p] = {}

\* What q waits for is a message of p (or of an interrupt, for p =
\* SR_TARGET_INTERRUPT).
WaitsFor(q, p) == Receiving(q) /\ recvfrom[q] \in {p, SR_TARGET_ANY}

\* A set of processes that the loop of process_check_deadlock cannot leave.
FollowsSendto(C) == \A p \in C : Sending(p) => sendto[p] \in C

\* Variant: looks at the first link of the chain only.
CheckOneLink(src, dst) == Sending(dst) /\ sendto[dst] = src

\* The chain of sendto fields that starts at dst comes to src.
process_check_deadlock(src, dst) ==
    \A C \in SUBSET Proc : dst \in C /\ FollowsSendto(C) => src \in C

\* Variant: takes the first out whoever was asked for.
UnlinkFirst(list, q) == Tail(list)

\* The list without its element q, wherever q is.
Unlinked(list, q) ==
    LET i == CHOOSE j \in DOMAIN list : list[j] = q IN Lists!RemoveAt(list, i)

-----------------------------------------------------------------------------
(* message_send: p sends m, which it has in its own memory, to dest.       *)

SendPanics(p, dest, m) ==
    /\ process_check_deadlock(p, dest)
    /\ panicked' = TRUE
    /\ buffer' = [buffer EXCEPT ![p] = m]
    /\ UNCHANGED kernelVars

SendDelivers(p, dest, m) ==
    /\ ~process_check_deadlock(p, dest)
    /\ WaitsFor(dest, p)
    /\ buffer' = [buffer EXCEPT ![p] = m, ![dest] = m]
    /\ msg' = [msg EXCEPT ![dest] = FALSE]
    /\ process_flags' = [process_flags EXCEPT ![dest] = @ \ {RECEIVING}]
    /\ recvfrom' = [recvfrom EXCEPT ![dest] = SR_TARGET_NONE]
    /\ UNCHANGED <<sendto, has_int_msg, sending, panicked>>

SendBlocks(p, dest, m) ==
    /\ ~process_check_deadlock(p, dest)
    /\ ~WaitsFor(dest, p)
    /\ process_flags' = [process_flags EXCEPT ![p] = @ \cup {SENDING}]
    /\ sendto' = [sendto EXCEPT ![p] = dest]
    /\ msg' = [msg EXCEPT ![p] = TRUE]
    /\ sending' = [sending EXCEPT ![dest] = Append(@, p)]
    /\ buffer' = [buffer EXCEPT ![p] = m]
    /\ UNCHANGED <<recvfrom, has_int_msg, panicked>>

message_send(p, dest, m) ==
    \/ SendPanics(p, dest, m)
    \/ SendDelivers(p, dest, m)
    \/ SendBlocks(p, dest, m)

-----------------------------------------------------------------------------
(* message_receive: p wants a message of source; m is in its buffer.       *)

\* Variant: a recorded interrupt is served to SR_TARGET_INTERRUPT alone.
TakesInterruptByName(p, source) ==
    has_int_msg[p] /\ source = SR_TARGET_INTERRUPT

TakesInterrupt(p, source) ==
    has_int_msg[p] /\ source \in {SR_TARGET_ANY, SR_TARGET_INTERRUPT}

ReceivesInterrupt(p, source) ==
    /\ TakesInterrupt(p, source)
    /\ buffer' = [buffer EXCEPT ![p] = [source |-> SR_TARGET_INTERRUPT,
                                        body   |-> HardInt]]
    /\ has_int_msg' = [has_int_msg EXCEPT ![p] = FALSE]
    /\ UNCHANGED <<process_flags, msg, recvfrom, sendto, sending, panicked>>

\* Variant: the search for a sender by name is missing.
CanCopyFromAnyOnly(p, source, sender) ==
    source = SR_TARGET_ANY /\ sending[p] # <<>> /\ sender = Head(sending[p])

\* Variant: the last of the queue is taken.
CanCopyLast(p, source, sender) ==
    \/ /\ source = SR_TARGET_ANY
       /\ sending[p] # <<>>
       /\ sender = sending[p][Len(sending[p])]
    \/ /\ sender = source
       /\ Sending(sender)
       /\ sendto[sender] = p

\* The sender whose message is copied: the first of the queue, or the one
\* process that source names if it is blocked sending to p.
CanCopy(p, source, sender) ==
    \/ /\ source = SR_TARGET_ANY
       /\ sending[p] # <<>>
       /\ sender = Head(sending[p])
    \/ /\ sender = source
       /\ Sending(sender)
       /\ sendto[sender] = p

\* Variant: the released sender keeps its sendto.
ReceivesQueuedNoReset(p, source, sender) ==
    /\ ~TakesInterrupt(p, source)
    /\ CanCopy(p, source, sender)
    /\ sending' = [sending EXCEPT ![p] = Unlinked(@, sender)]
    /\ buffer' = [buffer EXCEPT ![p] = buffer[sender]]
    /\ msg' = [msg EXCEPT ![sender] = FALSE]
    /\ process_flags' = [process_flags EXCEPT ![sender] = @ \ {SENDING}]
    /\ UNCHANGED <<sendto, recvfrom, has_int_msg, panicked>>

ReceivesQueued(p, source, sender) ==
    /\ ~TakesInterrupt(p, source)
    /\ CanCopy(p, source, sender)
    /\ sending' = [sending EXCEPT ![p] = Unlinked(@, sender)]
    /\ buffer' = [buffer EXCEPT ![p] = buffer[sender]]
    /\ msg' = [msg EXCEPT ![sender] = FALSE]
    /\ sendto' = [sendto EXCEPT ![sender] = SR_TARGET_NONE]
    /\ process_flags' = [process_flags EXCEPT ![sender] = @ \ {SENDING}]
    /\ UNCHANGED <<recvfrom, has_int_msg, panicked>>

\* The last assertion, receiver->has_int_msg == false, stops the system when
\* an interrupt is recorded for a process that now waits for another by name.
ReceiveBlocks(p, source, m) ==
    /\ ~TakesInterrupt(p, source)
    /\ ~\E sender \in Proc : CanCopy(p, source, sender)
    /\ process_flags' = [process_flags EXCEPT ![p] = @ \cup {RECEIVING}]
    /\ msg' = [msg EXCEPT ![p] = TRUE]
    /\ recvfrom' = [recvfrom EXCEPT ![p] = source]
    /\ buffer' = [buffer EXCEPT ![p] = m]
    /\ panicked' = has_int_msg[p]
    /\ UNCHANGED <<sendto, has_int_msg, sending>>

message_receive(p, source, m) ==
    \/ ReceivesInterrupt(p, source)
    \/ \E sender \in Proc : ReceivesQueued(p, source, sender)
    \/ ReceiveBlocks(p, source, m)

-----------------------------------------------------------------------------
(* The system call as the library makes it: sendrecv.  sendrecv_impl       *)
(* stamps the caller on the message before anything else.                  *)

Send(p, dest, b) ==
    /\ Runnable(p) /\ pending[p] = SR_TARGET_NONE
    /\ message_send(p, dest, [source |-> p, body |-> b])
    /\ UNCHANGED pending

\* SR_MODE_BOTH: the send half; the receive half follows when it returns.
SendBoth(p, dest, b) ==
    /\ Runnable(p) /\ pending[p] = SR_TARGET_NONE
    /\ message_send(p, dest, [source |-> p, body |-> b])
    /\ pending' = [pending EXCEPT ![p] = dest]

ReceiveReply(p) ==
    /\ Runnable(p) /\ pending[p] # SR_TARGET_NONE
    /\ message_receive(p, pending[p], [buffer[p] EXCEPT !.source = p])
    /\ pending' = [pending EXCEPT ![p] = SR_TARGET_NONE]

Receive(p, source) ==
    /\ Runnable(p) /\ pending[p] = SR_TARGET_NONE
    /\ message_receive(p, source, [source |-> p, body |-> Zeroed])
    /\ UNCHANGED pending

\* The message of t with the source and type of a hardware interrupt.
Overwritten(t) == [buffer EXCEPT ![t] = [source |-> SR_TARGET_INTERRUPT,
                                         body   |-> HardInt]]

\* An interrupt handler reports to t.  It writes through proc->msg: were that
\* null, the two fields would go to address 0 and not to the message.
process_inform_interrupt(t) ==
    \/ /\ WaitsFor(t, SR_TARGET_INTERRUPT)
       /\ buffer' = IF msg[t] THEN Overwritten(t) ELSE buffer
       /\ msg' = [msg EXCEPT ![t] = FALSE]
       /\ has_int_msg' = [has_int_msg EXCEPT ![t] = FALSE]
       /\ process_flags' = [process_flags EXCEPT ![t] = @ \ {RECEIVING}]
       /\ recvfrom' = [recvfrom EXCEPT ![t] = SR_TARGET_NONE]
       /\ UNCHANGED <<sendto, sending>>
    \/ /\ ~WaitsFor(t, SR_TARGET_INTERRUPT)
       /\ has_int_msg' = [has_int_msg EXCEPT ![t] = TRUE]
       /\ UNCHANGED <<process_flags, msg, recvfrom, sendto, sending, buffer>>

Interrupt(t) ==
    /\ ~panicked
    /\ process_inform_interrupt(t)
    /\ UNCHANGED <<pending, panicked>>

Next ==
    \/ \E p \in Proc :
          \/ \E dest \in Proc \ {p}, b \in Body :
                Send(p, dest, b) \/ SendBoth(p, dest, b)
          \/ ReceiveReply(p)
          \/ \E source \in (Proc \ {p}) \cup {SR_TARGET_ANY, SR_TARGET_INTERRUPT} :
                Receive(p, source)
    \/ \E t \in IntTarget : Interrupt(t)

Spec == Init /\ [][Next]_vars

-----------------------------------------------------------------------------
(* Properties.                                                             *)

Occurs(p, list) == \E i \in DOMAIN list : list[i] = p
Distinct(list)  == \A i, j \in DOMAIN list : list[i] = list[j] => i = j

\* The list of a process holds exactly the processes that are blocked sending
\* to it, each of them once: no sender is lost or linked twice when it is
\* unlinked from the middle (sendrecv.c:172-216).
QueueExact ==
    \A q \in Proc :
        /\ Distinct(sending[q])
        /\ \A p \in Proc : Occurs(p, sending[q]) <=> (Sending(p) /\ sendto[p] = q)

\* The status bits, the message pointer and the two partners agree, as the
\* blocks of assertions after every transfer demand (sendrecv.c:80-87,
\* 110-113, 139-142, 155-163, 187-195, 239-242; proc.c:305-308): a process
\* waits for one thing, and only a waiting process has a message and a partner.
StatusConsistent ==
    \A p \in Proc :
        /\ ~(Sending(p) /\ Receiving(p))
        /\ Sending(p) <=> sendto[p] # SR_TARGET_NONE
        /\ Receiving(p) <=> recvfrom[p] # SR_TARGET_NONE
        /\ msg[p] <=> process_flags[p] # {}

\* Rendezvous is never missed: no process stays blocked sending to a process
\* that is blocked waiting for it.
NoMissedRendezvous ==
    \A p, q \in Proc : Sending(p) /\ sendto[p] = q => ~WaitsFor(q, p)

\* No wake-up is lost: an interrupt that was recorded is not pending for a
\* process that is blocked waiting for one (the assertion sendrecv.c:243).
NoMissedInterrupt ==
    \A p \in Proc : has_int_msg[p] => ~WaitsFor(p, SR_TARGET_INTERRUPT)

\* process_check_deadlock does its work: the blocked senders never form a
\* cycle (so its own loop over sendto always ends).
NoSendCycle ==
    ~\E S \in SUBSET Proc :
        S # {} /\ \A p \in S : Sending(p) /\ sendto[p] \in S

\* x comes before y in the list.
Ahead(list, x, y) ==
    \E i, j \in DOMAIN list : i < j /\ list[i] = x /\ list[j] = y

\* First come, first served: while x waits in a list nobody behind it gets
\* ahead of it.  A receive from anybody never serves y, which is behind x; only
\* a receive that names y does (sendrecv.c:96-106, 148-152, 199-216).
FirstComeFirstServed ==
    [][\A q, x, y \in Proc :
          Ahead(sending[q], x, y) =>
              /\ \/ Ahead(sending[q], x, y)'
                 \/ sendto'[x] = SR_TARGET_NONE
                 \/ /\ sendto'[y] = SR_TARGET_NONE
                    /\ Receive(q, y) \/ pending[q] = y
              /\ Receive(q, SR_TARGET_ANY) => sendto'[y] = q]_vars

\* Seen without lists, flags and pointers, the kernel is a plain rendezvous:
\* each message goes to the one receiver it was offered to, once, unchanged and
\* with the true source (sendrecv.c:11-247, proc.c:290-312).
R == INSTANCE Rendezvous WITH
        to <- sendto, want <- recvfrom, irq <- has_int_msg, mem <- buffer,
        halted <- panicked, Any <- SR_TARGET_ANY,
        Hardware <- SR_TARGET_INTERRUPT, Nobody <- SR_TARGET_NONE

ImplementsRendezvous == R!Spec
=============================================================================
