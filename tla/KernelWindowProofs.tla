-------------------------- MODULE KernelWindowProofs --------------------------
(* Proofs about KernelWindow for every table of processes, with the lemmas *)
(* of IpcProofs for the parts of a call that no interrupt can split.       *)
EXTENDS KernelWindow, IpcProofs

-----------------------------------------------------------------------------
(* The inductive invariant.  Between two steps of a call one process may   *)
(* be half blocked or half woken; everybody else is as between two calls.  *)

\* What StatusConsistent says of one process.
Status(x) ==
    /\ ~(Sending(x) /\ Receiving(x))
    /\ Sending(x) <=> sendto[x] # SR_TARGET_NONE
    /\ Receiving(x) <=> recvfrom[x] # SR_TARGET_NONE
    /\ msg[x] <=> process_flags[x] # {}

\* The process whose fields the call is in the middle of changing.
HalfWoken(x) == call.pc = "wake" /\ x = call.target
HalfBlocked(x) == call.pc = "from" /\ x = call.p

StatusDuring ==
    \A x \in Proc :
        /\ ~HalfWoken(x) /\ ~HalfBlocked(x) => Status(x)
        /\ HalfWoken(x) =>
              /\ ~Sending(x) /\ sendto[x] = SR_TARGET_NONE /\ ~msg[x]
              /\ Receiving(x) <=> recvfrom[x] # SR_TARGET_NONE
        /\ HalfBlocked(x) =>
              /\ process_flags[x] = {RECEIVING} /\ ~msg[x]
              /\ recvfrom[x] = SR_TARGET_NONE /\ sendto[x] = SR_TARGET_NONE

\* An interrupt is missed only by the receiver of the call, which it came
\* too early for, until the assertions find that.
InterruptMissed(x) == has_int_msg[x] /\ WaitsFor(x, SR_TARGET_INTERRUPT)

MissedDuring ==
    \A x \in Proc : InterruptMissed(x) =>
        disturbed /\ call.pc \in {"block", "received"} /\ x = call.p

\* Nobody is blocked sending p what it wants from source.
NobodySends(p, source) ==
    \A x \in Proc : Sending(x) /\ sendto[x] = p => source \notin {x, SR_TARGET_ANY}

\* Where a call is, and what it has found out.  An interrupt may have woken the
\* process that the sender has found waiting, or the receiver itself.
SenderPc == {"send", "deliver", "copy", "clear", "wake", "sent"}
ReceiverPc == {"receive", "interrupt", "taken", "flag", "from", "block", "received"}

CallDuring ==
    /\ call.pc \in SenderPc =>
          call.target \in Proc \ {call.p} /\ process_flags[call.p] = {}
    /\ call.pc \in {"deliver", "copy", "clear"} =>
          \/ WaitsFor(call.target, call.p)
          \/ process_flags[call.target] = {} /\ disturbed
    /\ call.pc = "sent" => process_flags[call.target] = {}
    /\ call.pc \in ReceiverPc =>
          call.target \in (Proc \ {call.p}) \cup {SR_TARGET_ANY, SR_TARGET_INTERRUPT}
    /\ call.pc \in {"receive", "interrupt", "taken", "flag"} => process_flags[call.p] = {}
    /\ call.pc = "taken" /\ has_int_msg[call.p] => disturbed
    /\ call.pc \in {"flag", "from"} =>
          /\ NobodySends(call.p, call.target)
          /\ TakesInterrupt(call.p, call.target) => disturbed
    /\ call.pc \in {"block", "received"} =>
          /\ \/ process_flags[call.p] = {RECEIVING} /\ recvfrom[call.p] = call.target
             \/ process_flags[call.p] = {} /\ disturbed
          /\ TakesInterrupt(call.p, call.target) => disturbed

WIInv ==
    /\ WTypeOK /\ \A p \in Proc : pending[p] # p
    /\ QueueExact /\ NoSendCycle /\ NoMissedRendezvous
    /\ StatusDuring /\ MissedDuring /\ CallDuring
    /\ OnlyInterruptsBreakAsserts

-----------------------------------------------------------------------------
(* Steps inside a call.                                                    *)

\* The parts of a call that is in the kernel.
LEMMA CallParts ==
    ASSUME WTypeOK, call.pc # "idle"
    PROVE  /\ call.pc \in Pc /\ call.p \in Proc
           /\ call.target \in Proc \cup Sentinel /\ call.m \in Message
           /\ call = [pc |-> call.pc, p |-> call.p, target |-> call.target, m |-> call.m]
  <1>1. call \in [pc : Pc \ {"idle"}, p : Proc, target : Proc \cup Sentinel, m : Message]
    BY DEF WTypeOK, Calls, NoCall
  <1> QED BY <1>1

\* Going on changes the position alone, and a call that is over is no call.
LEMMA GoToIs ==
    ASSUME WTypeOK, call.pc # "idle", NEW pc \in Pc, GoTo(pc)
    PROVE  /\ call' \in Calls /\ call'.pc = pc
           /\ pc # "idle" =>
                 call'.p = call.p /\ call'.target = call.target /\ call'.m = call.m
  <1>1. CASE pc = "idle"
    BY <1>1 DEF GoTo, Calls, NoCall
  <1>2. CASE pc # "idle"
    <2>1. call \in [pc : Pc \ {"idle"}, p : Proc, target : Proc \cup Sentinel, m : Message]
      BY DEF WTypeOK, Calls, NoCall
    <2>2. call' = [call EXCEPT !.pc = pc]
      BY <1>2 DEF GoTo
    <2>3. call' \in [pc : Pc \ {"idle"}, p : Proc, target : Proc \cup Sentinel, m : Message]
      BY <1>2, <2>1, <2>2
    <2> QED BY <1>2, <2>1, <2>2, <2>3 DEF Calls
  <1> QED BY <1>1, <1>2

\* What is said of the process table stays when it does.
LEMMA SameKernel ==
    ASSUME UNCHANGED kernelVars
    PROVE  /\ QueueExact => QueueExact'
           /\ NoSendCycle => NoSendCycle'
           /\ NoMissedRendezvous => NoMissedRendezvous'
           /\ \A x : Status(x)' <=> Status(x)
           /\ \A x : InterruptMissed(x)' <=> InterruptMissed(x)
           /\ \A x, y : WaitsFor(x, y)' <=> WaitsFor(x, y)
           /\ \A x, y : NobodySends(x, y)' <=> NobodySends(x, y)
           /\ \A x, y : TakesInterrupt(x, y)' <=> TakesInterrupt(x, y)
           /\ \A x : Sending(x)' <=> Sending(x)
           /\ \A x : Receiving(x)' <=> Receiving(x)
  <1>1. UNCHANGED <<process_flags, msg, recvfrom, sendto, has_int_msg, sending>>
    BY DEF kernelVars
  <1>2. /\ \A x : Sending(x)' <=> Sending(x)
        /\ \A x : Receiving(x)' <=> Receiving(x)
    BY <1>1 DEF Sending, Receiving
  <1>3. /\ \A x, y : WaitsFor(x, y)' <=> WaitsFor(x, y)
        /\ \A x, y : NobodySends(x, y)' <=> NobodySends(x, y)
        /\ \A x, y : TakesInterrupt(x, y)' <=> TakesInterrupt(x, y)
    BY <1>1, <1>2 DEF WaitsFor, NobodySends, TakesInterrupt
  <1>4. /\ \A x : Status(x)' <=> Status(x)
        /\ \A x : InterruptMissed(x)' <=> InterruptMissed(x)
    BY <1>1, <1>2, <1>3 DEF Status, InterruptMissed
  <1>5. QueueExact => QueueExact'
    BY <1>1, <1>2 DEF QueueExact
  <1>6. NoSendCycle => NoSendCycle'
    BY <1>1, <1>2 DEF NoSendCycle
  <1>7. NoMissedRendezvous => NoMissedRendezvous'
    BY <1>1, <1>2, <1>3 DEF NoMissedRendezvous
  <1> QED BY <1>2, <1>3, <1>4, <1>5, <1>6, <1>7

\* Lists and cycles are of the senders alone.
LEMMA SameSenders ==
    ASSUME UNCHANGED <<sendto, sending>>, \A x \in Proc : Sending(x)' <=> Sending(x)
    PROVE  /\ QueueExact => QueueExact'
           /\ NoSendCycle => NoSendCycle'
           /\ \A x, y : NobodySends(x, y)' <=> NobodySends(x, y)
  <1>1. QueueExact => QueueExact'
    BY DEF QueueExact
  <1>2. NoSendCycle => NoSendCycle'
    BY DEF NoSendCycle
  <1> QED BY <1>1, <1>2 DEF NobodySends

Split == {"wake", "from", "block", "received"}

\* Where nothing is half done the process table is as between two calls.
LEMMA WholeInside ==
    ASSUME WIInv, call.pc \notin Split
    PROVE  KernelInv
  <1>1. KernelTypeOK /\ QueueExact /\ NoSendCycle /\ NoMissedRendezvous
    BY DEF WIInv, WTypeOK, TypeOK
  <1>2. \A x \in Proc : Status(x)
    BY DEF WIInv, StatusDuring, HalfWoken, HalfBlocked, Split
  <1>3. StatusConsistent
    BY <1>2 DEF StatusConsistent, Status
  <1>4. NoMissedInterrupt
    BY DEF WIInv, MissedDuring, InterruptMissed, NoMissedInterrupt, Split
  <1> QED BY <1>1, <1>3, <1>4 DEF KernelInv

\* And the other way.
LEMMA WholeAfter ==
    ASSUME KernelInv', call'.pc \notin Split
    PROVE  /\ KernelTypeOK' /\ QueueExact' /\ NoSendCycle' /\ NoMissedRendezvous'
           /\ StatusDuring' /\ MissedDuring'
  <1>1. StatusDuring'
    BY DEF KernelInv, StatusConsistent, StatusDuring, Status, HalfWoken, HalfBlocked, Split
  <1>2. MissedDuring'
    BY DEF KernelInv, NoMissedInterrupt, MissedDuring, InterruptMissed
  <1> QED BY <1>1, <1>2 DEF KernelInv

\* At the start no call is under way.
LEMMA InitWIInv == WInit => WIInv
  <1> SUFFICES ASSUME WInit PROVE WIInv
    OBVIOUS
  <1>1. IInv
    BY InitIInv DEF WInit
  <1>2. call.pc = "idle" /\ call \in Calls /\ disturbed \in BOOLEAN /\ ~panicked
    BY DEF WInit, Init, NoCall, Calls
  <1>3. StatusDuring /\ MissedDuring
    BY <1>1, <1>2 DEF IInv, KernelInv, StatusConsistent, StatusDuring, Status, HalfWoken,
                      HalfBlocked, NoMissedInterrupt, MissedDuring, InterruptMissed
  <1>4. CallDuring
    BY <1>2 DEF CallDuring, SenderPc, ReceiverPc
  <1> QED BY <1>1, <1>2, <1>3, <1>4
          DEF IInv, KernelInv, WIInv, WTypeOK, OnlyInterruptsBreakAsserts

\* A call is entered when none is in the kernel, by a process without flags.
LEMMA EnterKeeps ==
    ASSUME WIInv, NEW p \in Proc, NEW m \in Message,
           NEW pc \in {"send", "receive"}, NEW target, Enter(pc, p, target, m),
           \/ pc = "send" /\ target \in Proc \ {p}
           \/ pc = "receive"
                 /\ target \in (Proc \ {p}) \cup {SR_TARGET_ANY, SR_TARGET_INTERRUPT},
           pending' \in [Proc -> Proc \cup {SR_TARGET_NONE}],
           \A x \in Proc : pending'[x] # x
    PROVE  WIInv'
  <1>1. /\ call.pc = "idle" /\ ~panicked /\ process_flags[p] = {}
        /\ call' = [pc |-> pc, p |-> p, target |-> target, m |-> m]
        /\ buffer' = [buffer EXCEPT ![p] = m]
        /\ disturbed' = FALSE
        /\ UNCHANGED <<kernelVars, panicked>>
    BY DEF Enter, At, Runnable
  <1>2. call'.pc = pc /\ call'.p = p /\ call'.target = target /\ call' \in Calls
    BY <1>1 DEF Calls, Pc, Sentinel
  <1>3. KernelTypeOK'
    BY <1>1 DEF WIInv, WTypeOK, TypeOK, KernelTypeOK, kernelVars
  <1>4. WTypeOK'
    BY <1>1, <1>2, <1>3 DEF WTypeOK, TypeOK
  <1>5. QueueExact' /\ NoSendCycle' /\ NoMissedRendezvous'
    BY <1>1, SameKernel DEF WIInv
  <1>6. StatusDuring'
    BY <1>1, <1>2, SameKernel DEF WIInv, StatusDuring, HalfWoken, HalfBlocked
  <1>7. MissedDuring'
    BY <1>1, SameKernel DEF WIInv, MissedDuring
  <1>8. CallDuring'
    BY <1>1, <1>2 DEF CallDuring, SenderPc, ReceiverPc, kernelVars
  <1>9. OnlyInterruptsBreakAsserts'
    BY <1>1 DEF OnlyInterruptsBreakAsserts
  <1> QED BY <1>4, <1>5, <1>6, <1>7, <1>8, <1>9 DEF WIInv

\* A step that changes no field of the process table.
LEMMA ProgressKeeps ==
    ASSUME WIInv, call.pc \in Pc \ {"idle", "wake", "from"},
           NEW pc \in Pc \ {"wake", "from"}, GoTo(pc),
           UNCHANGED <<kernelVars, panicked, disturbed, pending>>, ~panicked,
           buffer' \in [Proc -> Message],
           \A x \in Proc : InterruptMissed(x) => pc \in {"block", "received"},
           CallDuring'
    PROVE  WIInv'
  <1>1. /\ call' \in Calls /\ call'.pc = pc
        /\ pc # "idle" =>
              call'.p = call.p /\ call'.target = call.target /\ call'.m = call.m
    BY GoToIs DEF WIInv
  <1>2. WTypeOK'
    BY <1>1 DEF WIInv, WTypeOK, TypeOK, KernelTypeOK, kernelVars
  <1>3. QueueExact' /\ NoSendCycle' /\ NoMissedRendezvous'
    BY SameKernel DEF WIInv
  <1>4. StatusDuring'
    BY <1>1, SameKernel DEF WIInv, StatusDuring, HalfWoken, HalfBlocked
  <1>5. MissedDuring'
    BY <1>1, SameKernel DEF WIInv, MissedDuring
  <1>6. OnlyInterruptsBreakAsserts'
    BY DEF OnlyInterruptsBreakAsserts
  <1> QED BY <1>2, <1>3, <1>4, <1>5, <1>6 DEF WIInv

\* An assertion that fails where an interrupt is to blame.
LEMMA FailureKeeps ==
    ASSUME WIInv, call.pc # "idle",
           \/ disturbed
           \/ /\ call.pc = "received" /\ has_int_msg[call.p]
              /\ call.target \notin {SR_TARGET_ANY, SR_TARGET_INTERRUPT},
           UNCHANGED <<kernelVars, buffer, pending, disturbed, call>>, panicked' = TRUE
    PROVE  WIInv'
  <1>1. WTypeOK'
    BY DEF WIInv, WTypeOK, TypeOK, KernelTypeOK, kernelVars
  <1>2. QueueExact' /\ NoSendCycle' /\ NoMissedRendezvous'
    BY SameKernel DEF WIInv
  <1>3. StatusDuring'
    BY SameKernel DEF WIInv, StatusDuring, HalfWoken, HalfBlocked, kernelVars
  <1>4. MissedDuring'
    BY SameKernel DEF WIInv, MissedDuring
  <1>5. CallDuring'
    BY SameKernel DEF WIInv, CallDuring, kernelVars
  <1>6. OnlyInterruptsBreakAsserts'
    BY DEF OnlyInterruptsBreakAsserts, kernelVars
  <1> QED BY <1>1, <1>2, <1>3, <1>4, <1>5, <1>6 DEF WIInv

\* message_send finds a deadlock or a receiver that waits, or it blocks.
LEMMA SendTestKeeps ==
    ASSUME WIInv, SendTest
    PROVE  WIInv'
  <1> DEFINE p == call.p
             dest == call.target
  <1>1. /\ call.pc = "send" /\ ~panicked /\ UNCHANGED <<pending, disturbed>>
        /\ \/ GoTo("deadlock") /\ panicked' = TRUE /\ UNCHANGED <<kernelVars, buffer>>
           \/ /\ WaitsFor(dest, p) /\ GoTo("deliver")
              /\ UNCHANGED <<kernelVars, buffer, panicked>>
           \/ SendBlocks(p, dest, call.m) /\ GoTo("idle")
    BY DEF SendTest, At
  <1>2. /\ p \in Proc /\ call.m \in Message
        /\ dest \in Proc \ {p} /\ process_flags[p] = {}
    BY <1>1, CallParts DEF WIInv, CallDuring, SenderPc
  <1>3. KernelInv
    BY <1>1, WholeInside DEF Split
  <1>4. CASE GoTo("deadlock") /\ panicked' = TRUE /\ UNCHANGED <<kernelVars, buffer>>
    <2>1. call' \in Calls /\ call'.pc = "deadlock"
      BY <1>1, <1>4, GoToIs DEF WIInv, Pc
    <2>2. WTypeOK'
      BY <1>1, <1>4, <2>1 DEF WIInv, WTypeOK, TypeOK, KernelTypeOK, kernelVars
    <2>3. QueueExact' /\ NoSendCycle' /\ NoMissedRendezvous'
      BY <1>4, SameKernel DEF WIInv
    <2>4. StatusDuring'
      BY <1>1, <1>4, <2>1, SameKernel DEF WIInv, StatusDuring, HalfWoken, HalfBlocked
    <2>5. MissedDuring'
      BY <1>1, <1>4, SameKernel DEF WIInv, MissedDuring
    <2>6. CallDuring' /\ OnlyInterruptsBreakAsserts'
      BY <2>1 DEF CallDuring, SenderPc, ReceiverPc, OnlyInterruptsBreakAsserts
    <2>7. \A x \in Proc : pending'[x] # x
      BY <1>1 DEF WIInv
    <2> QED BY <2>2, <2>3, <2>4, <2>5, <2>6, <2>7 DEF WIInv
  <1>5. CASE WaitsFor(dest, p) /\ GoTo("deliver") /\ UNCHANGED <<kernelVars, buffer, panicked>>
    <2>1. /\ call'.pc = "deliver" /\ call'.p = p /\ call'.target = dest
      BY <1>1, <1>5, GoToIs DEF WIInv, Pc
    <2>2. CallDuring'
      BY <1>2, <1>5, <2>1, SameKernel DEF CallDuring, SenderPc, ReceiverPc, kernelVars
    <2>3. \A x \in Proc : ~InterruptMissed(x)
      BY <1>1 DEF WIInv, MissedDuring
    <2> QED BY <1>1, <1>5, <2>2, <2>3, ProgressKeeps
            DEF Pc, WIInv, WTypeOK, TypeOK, KernelTypeOK
  <1>6. CASE SendBlocks(p, dest, call.m) /\ GoTo("idle")
    <2>1. KernelInv'
      BY <1>2, <1>3, <1>6, SendBlocksKeeps
    <2>2. call' \in Calls /\ call'.pc = "idle"
      BY <1>1, <1>6, GoToIs DEF WIInv, Pc
    <2>3. /\ KernelTypeOK' /\ QueueExact' /\ NoSendCycle' /\ NoMissedRendezvous'
          /\ StatusDuring' /\ MissedDuring'
      BY <2>1, <2>2, WholeAfter DEF Split
    <2>4. CallDuring'
      BY <2>2 DEF CallDuring, SenderPc, ReceiverPc
    <2>5. panicked' = panicked
      BY <1>6 DEF SendBlocks
    <2>6. OnlyInterruptsBreakAsserts'
      BY <1>1, <2>5 DEF OnlyInterruptsBreakAsserts
    <2>7. WTypeOK' /\ \A x \in Proc : pending'[x] # x
      BY <1>1, <2>2, <2>3 DEF WIInv, WTypeOK, TypeOK
    <2> QED BY <2>3, <2>4, <2>6, <2>7 DEF WIInv
  <1> QED BY <1>1, <1>4, <1>5, <1>6

\* message_send asserts that the receiver still has its message pointer.
LEMMA SendCheckDestKeeps ==
    ASSUME WIInv, SendCheckDest
    PROVE  WIInv'
  <1>1. /\ call.pc = "deliver" /\ ~panicked
        /\ UNCHANGED <<kernelVars, buffer, pending, disturbed>>
        /\ \/ GoTo("copy") /\ UNCHANGED panicked
           \/ ~msg[call.target] /\ panicked' = TRUE /\ UNCHANGED call
    BY DEF SendCheckDest, At, Asserting
  <1>2. CASE GoTo("copy") /\ UNCHANGED panicked
    <2>1. call'.pc = "copy" /\ call'.p = call.p /\ call'.target = call.target
      BY <1>1, <1>2, GoToIs DEF WIInv, Pc
    <2>2. CallDuring'
      BY <1>1, <2>1, SameKernel DEF WIInv, CallDuring, SenderPc, ReceiverPc, kernelVars
    <2>3. \A x \in Proc : ~InterruptMissed(x)
      BY <1>1 DEF WIInv, MissedDuring
    <2> QED BY <1>1, <1>2, <2>2, <2>3, ProgressKeeps
            DEF Pc, WIInv, WTypeOK, TypeOK, KernelTypeOK
  <1>3. CASE ~msg[call.target] /\ panicked' = TRUE /\ UNCHANGED call
    <2>1. call.target \in Proc
      BY <1>1 DEF WIInv, CallDuring, SenderPc
    <2>2. Status(call.target)
      BY <1>1, <2>1 DEF WIInv, StatusDuring, HalfWoken, HalfBlocked
    <2>3. ~WaitsFor(call.target, call.p)
      BY <1>3, <2>2 DEF Status, WaitsFor, Receiving
    <2>4. disturbed
      BY <1>1, <2>3 DEF WIInv, CallDuring
    <2> QED BY <1>1, <1>3, <2>4, FailureKeeps
  <1> QED BY <1>1, <1>2, <1>3

\* message_send copies the message to the receiver.
LEMMA SendCopyKeeps ==
    ASSUME WIInv, SendCopy
    PROVE  WIInv'
  <1>1. /\ call.pc = "copy" /\ ~panicked /\ GoTo("clear")
        /\ buffer' = IF msg[call.target]
                     THEN [buffer EXCEPT ![call.target] = call.m] ELSE buffer
        /\ UNCHANGED <<kernelVars, pending, panicked, disturbed>>
    BY DEF SendCopy, At
  <1>2. call'.pc = "clear" /\ call'.p = call.p /\ call'.target = call.target
    BY <1>1, GoToIs DEF WIInv, Pc
  <1>3. CallDuring'
    BY <1>1, <1>2, SameKernel DEF WIInv, CallDuring, SenderPc, ReceiverPc, kernelVars
  <1>4. \A x \in Proc : ~InterruptMissed(x)
    BY <1>1 DEF WIInv, MissedDuring
  <1>5. buffer' \in [Proc -> Message]
    <2>1. call.m \in Message /\ buffer \in [Proc -> Message]
      BY <1>1, CallParts DEF WIInv, WTypeOK, TypeOK, KernelTypeOK
    <2> QED BY <1>1, <2>1
  <1> QED BY <1>1, <1>3, <1>4, <1>5, ProgressKeeps DEF Pc

\* From here dest is half woken: no message, but still receiving.
LEMMA SendClearMsgKeeps ==
    ASSUME WIInv, SendClearMsg
    PROVE  WIInv'
  <1>1. /\ call.pc = "clear" /\ ~panicked /\ GoTo("wake")
        /\ msg' = [msg EXCEPT ![call.target] = FALSE]
        /\ UNCHANGED <<process_flags, recvfrom, sendto, has_int_msg, sending,
                       buffer, pending, panicked, disturbed>>
    BY DEF SendClearMsg, At
  <1>2. call' \in Calls /\ call'.pc = "wake" /\ call'.p = call.p /\ call'.target = call.target
    BY <1>1, GoToIs DEF WIInv, Pc
  <1>3. call.p \in Proc /\ call.target \in Proc \ {call.p}
    BY <1>1, CallParts DEF WIInv, CallDuring, SenderPc
  <1>4. /\ msg' \in [Proc -> BOOLEAN] /\ ~msg'[call.target]
        /\ \A x \in Proc : x # call.target => msg'[x] = msg[x]
    BY <1>1, <1>3 DEF WIInv, WTypeOK, TypeOK, KernelTypeOK
  <1>5. /\ \A x \in Proc : (Sending(x)' <=> Sending(x)) /\ (Receiving(x)' <=> Receiving(x))
        /\ \A x, y : WaitsFor(x, y)' <=> WaitsFor(x, y)
    BY <1>1 DEF Sending, Receiving, WaitsFor
  <1>6. WTypeOK'
    BY <1>1, <1>2, <1>4 DEF WIInv, WTypeOK, TypeOK, KernelTypeOK
  <1>7. QueueExact' /\ NoSendCycle'
    BY <1>1, <1>5, SameSenders DEF WIInv
  <1>8. NoMissedRendezvous'
    BY <1>1, <1>5 DEF WIInv, NoMissedRendezvous
  <1>9. StatusDuring'
    <2>1. \A x \in Proc : Status(x)
      BY <1>1 DEF WIInv, StatusDuring, HalfWoken, HalfBlocked
    <2>2. ~Sending(call.target)
      <3>1. CASE WaitsFor(call.target, call.p)
        BY <1>3, <2>1, <3>1 DEF Status, WaitsFor
      <3>2. CASE process_flags[call.target] = {}
        BY <3>2 DEF Sending
      <3> QED BY <1>1, <3>1, <3>2 DEF WIInv, CallDuring
    <2>3. \A x \in Proc : x # call.target => Status(x)'
      BY <1>1, <1>4, <1>5, <2>1 DEF Status
    <2>4. \A d \in Proc : d = call.target =>
             /\ ~Sending(d)' /\ sendto'[d] = SR_TARGET_NONE /\ ~msg'[d]
             /\ Receiving(d)' <=> recvfrom'[d] # SR_TARGET_NONE
      <3>1. PICK d \in Proc : d = call.target
        BY <1>3
      <3>2. Status(d) /\ ~Sending(d)
        BY <2>1, <2>2, <3>1
      <3>3. sendto[d] = SR_TARGET_NONE /\ (Receiving(d) <=> recvfrom[d] # SR_TARGET_NONE)
        BY <3>2 DEF Status
      <3>4. sendto'[d] = sendto[d] /\ recvfrom'[d] = recvfrom[d] /\ ~msg'[d]
        BY <1>1, <1>4, <3>1
      <3>5. (Sending(d)' <=> Sending(d)) /\ (Receiving(d)' <=> Receiving(d))
        BY <1>5
      <3> QED BY <1>1, <1>2, <3>1, <3>2, <3>3, <3>4, <3>5
    <2> QED BY <1>2, <2>3, <2>4 DEF StatusDuring, HalfWoken, HalfBlocked
  <1>10. MissedDuring'
    BY <1>1, <1>5 DEF WIInv, MissedDuring, InterruptMissed
  <1>11. CallDuring'
    BY <1>1, <1>2 DEF WIInv, CallDuring, SenderPc, ReceiverPc
  <1>12. OnlyInterruptsBreakAsserts' /\ \A x \in Proc : pending'[x] # x
    BY <1>1 DEF WIInv, OnlyInterruptsBreakAsserts
  <1> QED BY <1>6, <1>7, <1>8, <1>9, <1>10, <1>11, <1>12 DEF WIInv

\* Here it is as it should be again, whoever has woken it.
LEMMA SendWakeKeeps ==
    ASSUME WIInv, SendWake
    PROVE  WIInv'
  <1>1. /\ call.pc = "wake" /\ ~panicked /\ GoTo("sent")
        /\ process_flags' = [process_flags EXCEPT ![call.target] = @ \ {RECEIVING}]
        /\ recvfrom' = [recvfrom EXCEPT ![call.target] = SR_TARGET_NONE]
        /\ UNCHANGED <<msg, sendto, has_int_msg, sending,
                       buffer, pending, panicked, disturbed>>
    BY DEF SendWake, At
  <1>2. call' \in Calls /\ call'.pc = "sent" /\ call'.p = call.p /\ call'.target = call.target
    BY <1>1, GoToIs DEF WIInv, Pc
  <1>3. PICK d \in Proc : d = call.target /\ d # call.p
    BY <1>1 DEF WIInv, CallDuring, SenderPc
  <1>4. KernelTypeOK
    BY DEF WIInv, WTypeOK, TypeOK
  <1>5. ~Sending(d) /\ sendto[d] = SR_TARGET_NONE /\ ~msg[d]
    BY <1>1, <1>3 DEF WIInv, StatusDuring, HalfWoken
  <1>6. /\ recvfrom'[d] = SR_TARGET_NONE
        /\ process_flags'[d] = {}
        /\ \A x \in Proc : x # d => process_flags'[x] = process_flags[x]
                                      /\ recvfrom'[x] = recvfrom[x]
    BY <1>1, <1>3, <1>4, <1>5 DEF KernelTypeOK, Sending
  <1>7. /\ \A x \in Proc : Sending(x)' <=> Sending(x)
        /\ \A x \in Proc : Receiving(x)' <=> (Receiving(x) /\ x # d)
    BY <1>5, <1>6 DEF Sending, Receiving
  <1>8. \A x \in Proc : \A y : WaitsFor(x, y)' => WaitsFor(x, y)
    BY <1>6, <1>7 DEF WaitsFor
  <1>9. WTypeOK'
    <2>1. KernelTypeOK'
      BY <1>1, <1>3, <1>4 DEF KernelTypeOK, Sentinel
    <2> QED BY <1>1, <1>2, <2>1 DEF WIInv, WTypeOK, TypeOK
  <1>10. QueueExact' /\ NoSendCycle'
    BY <1>1, <1>7, SameSenders DEF WIInv
  <1>11. NoMissedRendezvous'
    BY <1>1, <1>7, <1>8 DEF WIInv, NoMissedRendezvous
  <1>12. StatusDuring'
    <2>1. \A x \in Proc : x # d => Status(x)
      BY <1>1, <1>3 DEF WIInv, StatusDuring, HalfWoken, HalfBlocked
    <2>2. \A x \in Proc : x # d => Status(x)'
      BY <1>1, <1>6, <1>7, <2>1 DEF Status
    <2>3. Status(d)'
      BY <1>1, <1>5, <1>6, <1>7 DEF Status
    <2> QED BY <1>2, <2>2, <2>3 DEF StatusDuring, HalfWoken, HalfBlocked
  <1>13. MissedDuring'
    BY <1>1, <1>8 DEF WIInv, MissedDuring, InterruptMissed
  <1>14. CallDuring'
    <2>1. process_flags'[call.p] = {}
      BY <1>1, <1>3, <1>6, CallParts DEF WIInv, CallDuring, SenderPc
    <2> QED BY <1>1, <1>2, <1>3, <1>6, <2>1 DEF CallDuring, SenderPc, ReceiverPc
  <1>15. OnlyInterruptsBreakAsserts' /\ \A x \in Proc : pending'[x] # x
    BY <1>1 DEF WIInv, OnlyInterruptsBreakAsserts
  <1> QED BY <1>9, <1>10, <1>11, <1>12, <1>13, <1>14, <1>15 DEF WIInv

\* The assertions of a delivery hold, whatever interrupts did meanwhile.
LEMMA SendAssertsKeeps ==
    ASSUME WIInv, SendAsserts
    PROVE  WIInv'
  <1>1. call.pc = "sent" /\ ~panicked /\ UNCHANGED <<kernelVars, buffer, pending, disturbed>>
    BY DEF SendAsserts, At
  <1>2. \A x \in {call.p, call.target} : x \in Proc /\ process_flags[x] = {}
    BY <1>1, CallParts DEF WIInv, CallDuring, SenderPc
  <1>3. KernelInv
    BY <1>1, WholeInside DEF Split
  <1>4. \A x \in {call.p, call.target} :
           /\ process_flags[x] = {} /\ ~msg[x]
           /\ recvfrom[x] = SR_TARGET_NONE /\ sendto[x] = SR_TARGET_NONE
    BY <1>2, <1>3, FreeProcess
  <1>5. GoTo("idle") /\ UNCHANGED panicked
    BY <1>4 DEF SendAsserts, Asserting
  <1>6. call'.pc = "idle"
    BY <1>1, <1>5, GoToIs DEF WIInv, Pc
  <1>7. CallDuring'
    BY <1>6 DEF CallDuring, SenderPc, ReceiverPc
  <1>8. \A x \in Proc : ~InterruptMissed(x)
    BY <1>1 DEF WIInv, MissedDuring
  <1> QED BY <1>1, <1>5, <1>7, <1>8, ProgressKeeps
          DEF Pc, WIInv, WTypeOK, TypeOK, KernelTypeOK

\* message_receive finds an interrupt or a sender, or it is going to block.
LEMMA ReceiveTestKeeps ==
    ASSUME WIInv, ReceiveTest
    PROVE  WIInv'
  <1> DEFINE p == call.p
             source == call.target
  <1>1. /\ call.pc = "receive" /\ ~panicked /\ UNCHANGED <<pending, disturbed>>
        /\ \/ GoTo("interrupt") /\ UNCHANGED <<kernelVars, buffer, panicked>>
           \/ \E sender \in Proc : ReceivesQueued(p, source, sender) /\ GoTo("idle")
           \/ /\ ~TakesInterrupt(p, source)
              /\ ~\E sender \in Proc : CanCopy(p, source, sender)
              /\ GoTo("flag") /\ UNCHANGED <<kernelVars, buffer, panicked>>
    BY DEF ReceiveTest, At
  <1>2. /\ p \in Proc /\ process_flags[p] = {}
        /\ source \in (Proc \ {p}) \cup {SR_TARGET_ANY, SR_TARGET_INTERRUPT}
    BY <1>1, CallParts DEF WIInv, CallDuring, ReceiverPc
  <1>3. KernelInv
    BY <1>1, WholeInside DEF Split
  <1>4. \A x \in Proc : ~InterruptMissed(x)
    BY <1>1 DEF WIInv, MissedDuring
  <1>5. CASE GoTo("interrupt") /\ UNCHANGED <<kernelVars, buffer, panicked>>
    <2>1. call'.pc = "interrupt" /\ call'.p = p /\ call'.target = source
      BY <1>1, <1>5, GoToIs DEF WIInv, Pc
    <2>2. CallDuring'
      BY <1>2, <1>5, <2>1 DEF CallDuring, SenderPc, ReceiverPc, kernelVars
    <2> QED BY <1>1, <1>4, <1>5, <2>2, ProgressKeeps
            DEF Pc, WIInv, WTypeOK, TypeOK, KernelTypeOK
  <1>6. ASSUME NEW sender \in Proc, ReceivesQueued(p, source, sender), GoTo("idle")
        PROVE  WIInv'
    <2>1. KernelInv'
      BY <1>2, <1>3, <1>6, ReceivesQueuedKeeps
    <2>2. call' \in Calls /\ call'.pc = "idle"
      BY <1>1, <1>6, GoToIs DEF WIInv, Pc
    <2>3. /\ KernelTypeOK' /\ QueueExact' /\ NoSendCycle' /\ NoMissedRendezvous'
          /\ StatusDuring' /\ MissedDuring'
      BY <2>1, <2>2, WholeAfter DEF Split
    <2>4. CallDuring'
      BY <2>2 DEF CallDuring, SenderPc, ReceiverPc
    <2>5. panicked' = panicked
      BY <1>6 DEF ReceivesQueued
    <2>6. OnlyInterruptsBreakAsserts'
      BY <1>1, <2>5 DEF OnlyInterruptsBreakAsserts
    <2>7. WTypeOK' /\ \A x \in Proc : pending'[x] # x
      BY <1>1, <2>2, <2>3 DEF WIInv, WTypeOK, TypeOK
    <2> QED BY <2>3, <2>4, <2>6, <2>7 DEF WIInv
  <1>7. CASE /\ ~TakesInterrupt(p, source)
             /\ ~\E sender \in Proc : CanCopy(p, source, sender)
             /\ GoTo("flag") /\ UNCHANGED <<kernelVars, buffer, panicked>>
    <2>1. call'.pc = "flag" /\ call'.p = p /\ call'.target = source
      BY <1>1, <1>7, GoToIs DEF WIInv, Pc
    <2>2. NobodySends(p, source)
      <3> SUFFICES ASSUME NEW x \in Proc, Sending(x), sendto[x] = p
                   PROVE  source \notin {x, SR_TARGET_ANY}
        BY DEF NobodySends
      <3>1. sending[p] # <<>> /\ sending[p] \in Seq(Proc)
        BY <1>2, <1>3 DEF KernelInv, KernelTypeOK, QueueExact, Occurs
      <3>2. Head(sending[p]) \in Proc
        BY <3>1, HeadTailProperties
      <3>3. source # SR_TARGET_ANY
        BY <1>7, <3>1, <3>2 DEF CanCopy
      <3>4. source # x
        BY <1>7 DEF CanCopy
      <3> QED BY <3>3, <3>4
    <2>3. CallDuring'
      BY <1>2, <1>7, <2>1, <2>2, SameKernel DEF CallDuring, SenderPc, ReceiverPc, kernelVars
    <2> QED BY <1>1, <1>4, <1>7, <2>3, ProgressKeeps
            DEF Pc, WIInv, WTypeOK, TypeOK, KernelTypeOK
  <1> QED BY <1>1, <1>5, <1>6, <1>7

\* The recorded interrupt is consumed, whoever recorded it.
LEMMA ReceiveTakeKeeps ==
    ASSUME WIInv, ReceiveTake
    PROVE  WIInv'
  <1>1. /\ call.pc = "interrupt" /\ ~panicked /\ GoTo("taken")
        /\ buffer' = Overwritten(call.p)
        /\ has_int_msg' = [has_int_msg EXCEPT ![call.p] = FALSE]
        /\ UNCHANGED <<process_flags, msg, recvfrom, sendto, sending,
                       pending, panicked, disturbed>>
    BY DEF ReceiveTake, At
  <1>2. PICK p \in Proc : p = call.p
    BY <1>1, CallParts DEF WIInv
  <1>3. KernelInv
    BY <1>1, WholeInside DEF Split
  <1>4. /\ has_int_msg' \in [Proc -> BOOLEAN]
        /\ \A x \in Proc : has_int_msg'[x] => has_int_msg[x]
    BY <1>1, <1>2, <1>3 DEF KernelInv, KernelTypeOK
  <1>5. buffer' \in [Proc -> Message]
    BY <1>1, <1>2, <1>3 DEF KernelInv, KernelTypeOK, Overwritten, Message
  <1>6. KernelInv'
    <2>1. KernelTypeOK'
      BY <1>1, <1>3, <1>4, <1>5 DEF KernelInv, KernelTypeOK
    <2>2. QueueExact' /\ StatusConsistent' /\ NoMissedRendezvous' /\ NoSendCycle'
      BY <1>1, <1>3 DEF KernelInv, QueueExact, StatusConsistent, NoMissedRendezvous,
                        NoSendCycle, Sending, Receiving, WaitsFor
    <2>3. NoMissedInterrupt'
      BY <1>1, <1>3, <1>4 DEF KernelInv, NoMissedInterrupt, Receiving, WaitsFor
    <2> QED BY <2>1, <2>2, <2>3 DEF KernelInv
  <1>7. /\ call' \in Calls /\ call'.pc = "taken"
        /\ call'.p = call.p /\ call'.target = call.target
    BY <1>1, GoToIs DEF WIInv, Pc
  <1>8. /\ KernelTypeOK' /\ QueueExact' /\ NoSendCycle' /\ NoMissedRendezvous'
        /\ StatusDuring' /\ MissedDuring'
    BY <1>6, <1>7, WholeAfter DEF Split
  <1>9. CallDuring'
    <2>1. /\ process_flags'[p] = {} /\ ~has_int_msg'[p]
          /\ call.target \in (Proc \ {p}) \cup {SR_TARGET_ANY, SR_TARGET_INTERRUPT}
      BY <1>1, <1>2, <1>3 DEF WIInv, CallDuring, ReceiverPc, KernelInv, KernelTypeOK
    <2> QED BY <1>2, <1>7, <2>1 DEF CallDuring, SenderPc, ReceiverPc
  <1>10. OnlyInterruptsBreakAsserts'
    BY <1>1 DEF OnlyInterruptsBreakAsserts
  <1>11. WTypeOK' /\ \A x \in Proc : pending'[x] # x
    BY <1>1, <1>7, <1>8 DEF WIInv, WTypeOK, TypeOK
  <1> QED BY <1>8, <1>9, <1>10, <1>11 DEF WIInv

\* The flag is set again only if an interrupt came in between.
LEMMA ReceiveTakeAssertsKeeps ==
    ASSUME WIInv, ReceiveTakeAsserts
    PROVE  WIInv'
  <1>1. /\ call.pc = "taken" /\ ~panicked
        /\ UNCHANGED <<kernelVars, buffer, pending, disturbed>>
    BY DEF ReceiveTakeAsserts, At
  <1>2. PICK p \in Proc : p = call.p
    BY <1>1, CallParts DEF WIInv
  <1>3. KernelInv /\ KernelTypeOK /\ process_flags[p] = {}
    BY <1>1, <1>2, WholeInside DEF Split, WIInv, CallDuring, KernelInv
  <1>4. ~msg[p] /\ sendto[p] = SR_TARGET_NONE
    BY <1>3, FreeProcess
  <1>5. CASE ~has_int_msg[p]
    <2>1. GoTo("idle") /\ UNCHANGED panicked
      BY <1>2, <1>3, <1>4, <1>5 DEF ReceiveTakeAsserts, Asserting
    <2>2. call'.pc = "idle"
      BY <1>1, <2>1, GoToIs DEF WIInv, Pc
    <2>3. CallDuring'
      BY <2>2 DEF CallDuring, SenderPc, ReceiverPc
    <2>4. \A x \in Proc : ~InterruptMissed(x)
      BY <1>1 DEF WIInv, MissedDuring
    <2> QED BY <1>1, <2>1, <2>3, <2>4, ProgressKeeps
            DEF Pc, WIInv, WTypeOK, TypeOK, KernelTypeOK
  <1>6. CASE has_int_msg[p]
    <2>1. panicked' = TRUE /\ UNCHANGED call
      BY <1>2, <1>6 DEF ReceiveTakeAsserts, Asserting
    <2>2. disturbed
      BY <1>1, <1>2, <1>6 DEF WIInv, CallDuring
    <2> QED BY <1>1, <2>1, <2>2, FailureKeeps
  <1> QED BY <1>5, <1>6

\* From here p is half blocked: receiving, but from nobody yet, so that no
\* handler can find it waiting.
LEMMA ReceiveFlagKeeps ==
    ASSUME WIInv, ReceiveFlag
    PROVE  WIInv'
  <1>1. /\ call.pc = "flag" /\ ~panicked /\ GoTo("from")
        /\ process_flags' = [process_flags EXCEPT ![call.p] = @ \cup {RECEIVING}]
        /\ UNCHANGED <<msg, recvfrom, sendto, has_int_msg, sending,
                       buffer, pending, panicked, disturbed>>
    BY DEF ReceiveFlag, At
  <1>2. call' \in Calls /\ call'.pc = "from" /\ call'.p = call.p /\ call'.target = call.target
    BY <1>1, GoToIs DEF WIInv, Pc
  <1>3. PICK p \in Proc : p = call.p
    BY <1>1, CallParts DEF WIInv
  <1>4. KernelTypeOK /\ process_flags[p] = {}
    BY <1>1, <1>3 DEF WIInv, WTypeOK, TypeOK, CallDuring
  <1>5. KernelInv
    BY <1>1, WholeInside DEF Split
  <1>6. ~msg[p] /\ sendto[p] = SR_TARGET_NONE /\ recvfrom[p] = SR_TARGET_NONE
    BY <1>4, <1>5, FreeProcess
  <1>7. /\ process_flags'[p] = {RECEIVING}
        /\ \A x \in Proc : x # p => process_flags'[x] = process_flags[x]
    BY <1>1, <1>3, <1>4 DEF KernelTypeOK
  <1>8. /\ \A x \in Proc : Sending(x)' <=> Sending(x)
        /\ \A x \in Proc : x # p => (Receiving(x)' <=> Receiving(x))
    BY <1>4, <1>7 DEF Sending, Receiving, SENDING, RECEIVING
  <1>9. SR_TARGET_NONE \notin Proc \cup {SR_TARGET_ANY, SR_TARGET_INTERRUPT}
    BY TargetAssumption DEF Sentinel
  <1>10. \A x \in Proc, y \in Proc \cup {SR_TARGET_INTERRUPT} : WaitsFor(x, y)' => WaitsFor(x, y)
    BY <1>1, <1>6, <1>8, <1>9 DEF WaitsFor
  <1>11. WTypeOK'
    <2>1. KernelTypeOK'
      BY <1>1, <1>3, <1>4 DEF KernelTypeOK, SENDING, RECEIVING
    <2> QED BY <1>1, <1>2, <2>1 DEF WIInv, WTypeOK, TypeOK
  <1>12. QueueExact' /\ NoSendCycle'
    BY <1>1, <1>8, SameSenders DEF WIInv
  <1>13. NoMissedRendezvous'
    BY <1>1, <1>8, <1>10 DEF WIInv, NoMissedRendezvous
  <1>14. StatusDuring'
    <2>1. \A x \in Proc : Status(x)
      BY <1>1 DEF WIInv, StatusDuring, HalfWoken, HalfBlocked
    <2>2. \A x \in Proc : x # p => Status(x)'
      BY <1>1, <1>7, <1>8, <2>1 DEF Status
    <2>3. /\ process_flags'[p] = {RECEIVING} /\ ~msg'[p]
          /\ recvfrom'[p] = SR_TARGET_NONE /\ sendto'[p] = SR_TARGET_NONE
      BY <1>1, <1>6, <1>7
    <2> QED BY <1>2, <1>3, <2>2, <2>3 DEF StatusDuring, HalfWoken, HalfBlocked
  <1>15. MissedDuring'
    BY <1>1, <1>10 DEF WIInv, MissedDuring, InterruptMissed
  <1>16. CallDuring'
    <2>1. NobodySends(p, call.target) /\ (TakesInterrupt(p, call.target) => disturbed)
      BY <1>1, <1>3 DEF WIInv, CallDuring
    <2>2. NobodySends(p, call.target)'
      BY <1>1, <1>2, <1>8, <2>1 DEF NobodySends
    <2>3. TakesInterrupt(p, call.target)' => disturbed'
      BY <1>1, <1>2, <2>1 DEF TakesInterrupt
    <2>4. call'.target \in (Proc \ {call'.p}) \cup {SR_TARGET_ANY, SR_TARGET_INTERRUPT}
      BY <1>1, <1>2 DEF WIInv, CallDuring, ReceiverPc
    <2> QED BY <1>2, <1>3, <2>2, <2>3, <2>4 DEF CallDuring, SenderPc, ReceiverPc
  <1>17. OnlyInterruptsBreakAsserts' /\ \A x \in Proc : pending'[x] # x
    BY <1>1 DEF WIInv, OnlyInterruptsBreakAsserts
  <1> QED BY <1>11, <1>12, <1>13, <1>14, <1>15, <1>16, <1>17 DEF WIInv

\* Here it waits.  Nobody was sending, and nobody could start to meanwhile; an
\* interrupt that was recorded came during the call.
LEMMA ReceiveFromKeeps ==
    ASSUME WIInv, ReceiveFrom
    PROVE  WIInv'
  <1>1. /\ call.pc = "from" /\ ~panicked /\ GoTo("block")
        /\ msg' = [msg EXCEPT ![call.p] = TRUE]
        /\ recvfrom' = [recvfrom EXCEPT ![call.p] = call.target]
        /\ UNCHANGED <<process_flags, sendto, has_int_msg, sending,
                       buffer, pending, panicked, disturbed>>
    BY DEF ReceiveFrom, At
  <1>2. call' \in Calls /\ call'.pc = "block" /\ call'.p = call.p /\ call'.target = call.target
    BY <1>1, GoToIs DEF WIInv, Pc
  <1>3. PICK p \in Proc : p = call.p
    BY <1>1, CallParts DEF WIInv
  <1>4. PICK source \in (Proc \ {p}) \cup {SR_TARGET_ANY, SR_TARGET_INTERRUPT} :
           source = call.target
    BY <1>1, <1>3 DEF WIInv, CallDuring, ReceiverPc
  <1>5. KernelTypeOK
    BY DEF WIInv, WTypeOK, TypeOK
  <1>6. process_flags[p] = {RECEIVING} /\ sendto[p] = SR_TARGET_NONE
    BY <1>1, <1>3 DEF WIInv, StatusDuring, HalfBlocked
  <1>7. NobodySends(p, source) /\ (TakesInterrupt(p, source) => disturbed)
    BY <1>1, <1>3, <1>4 DEF WIInv, CallDuring
  <1>8. /\ recvfrom'[p] = source /\ msg'[p]
        /\ \A x \in Proc : x # p => recvfrom'[x] = recvfrom[x] /\ msg'[x] = msg[x]
    BY <1>1, <1>3, <1>4, <1>5 DEF KernelTypeOK
  <1>9. /\ \A x \in Proc : (Sending(x)' <=> Sending(x)) /\ (Receiving(x)' <=> Receiving(x))
        /\ ~Sending(p) /\ Receiving(p)
    BY <1>1, <1>6 DEF Sending, Receiving, SENDING, RECEIVING
  <1>10. \A x \in Proc : \A y : x # p => (WaitsFor(x, y)' <=> WaitsFor(x, y))
    BY <1>8, <1>9 DEF WaitsFor
  <1>11. WTypeOK'
    <2>1. KernelTypeOK'
      BY <1>1, <1>3, <1>4, <1>5 DEF KernelTypeOK, Sentinel
    <2> QED BY <1>1, <1>2, <2>1 DEF WIInv, WTypeOK, TypeOK
  <1>12. QueueExact' /\ NoSendCycle'
    BY <1>1, <1>9, SameSenders DEF WIInv
  <1>13. NoMissedRendezvous'
    <2> SUFFICES ASSUME NEW x \in Proc, NEW q \in Proc, Sending(x), sendto[x] = q
                 PROVE  ~WaitsFor(q, x)'
      BY <1>1, <1>9 DEF NoMissedRendezvous
    <2>1. CASE q = p
      <3>1. source \notin {x, SR_TARGET_ANY}
        BY <1>7, <2>1 DEF NobodySends
      <3> QED BY <1>8, <2>1, <3>1 DEF WaitsFor
    <2>2. CASE q # p
      BY <1>10, <2>2 DEF WIInv, NoMissedRendezvous
    <2> QED BY <2>1, <2>2
  <1>14. StatusDuring'
    <2>1. \A x \in Proc : x # p => Status(x)
      BY <1>1, <1>3 DEF WIInv, StatusDuring, HalfWoken, HalfBlocked
    <2>2. \A x \in Proc : x # p => Status(x)'
      BY <1>1, <1>8, <1>9, <2>1 DEF Status
    <2>3. source # SR_TARGET_NONE
      BY TargetAssumption DEF Sentinel
    <2>4. Status(p)'
      BY <1>1, <1>6, <1>8, <1>9, <2>3 DEF Status
    <2> QED BY <1>2, <2>2, <2>4 DEF StatusDuring, HalfWoken, HalfBlocked
  <1>15. MissedDuring'
    <2> SUFFICES ASSUME NEW x \in Proc, InterruptMissed(x)'
                 PROVE  disturbed' /\ x = p
      BY <1>2, <1>3 DEF MissedDuring
    <2>1. x = p
      BY <1>1, <1>10 DEF WIInv, MissedDuring, InterruptMissed
    <2>2. has_int_msg[p] /\ source \in {SR_TARGET_INTERRUPT, SR_TARGET_ANY}
      BY <1>1, <1>8, <2>1 DEF InterruptMissed, WaitsFor
    <2>3. TakesInterrupt(p, source)
      BY <2>2 DEF TakesInterrupt
    <2> QED BY <1>1, <1>7, <2>1, <2>3
  <1>16. CallDuring'
    <2>1. process_flags'[p] = {RECEIVING} /\ recvfrom'[p] = source
      BY <1>1, <1>6, <1>8
    <2>2. TakesInterrupt(p, source)' => disturbed'
      BY <1>1, <1>7 DEF TakesInterrupt
    <2> QED BY <1>2, <1>3, <1>4, <2>1, <2>2 DEF CallDuring, SenderPc, ReceiverPc
  <1>17. OnlyInterruptsBreakAsserts' /\ \A x \in Proc : pending'[x] # x
    BY <1>1 DEF WIInv, OnlyInterruptsBreakAsserts
  <1> QED BY <1>11, <1>12, <1>13, <1>14, <1>15, <1>16, <1>17 DEF WIInv

\* The receiver has no flags any more only if an interrupt has woken it.
LEMMA ReceiveBlockKeeps ==
    ASSUME WIInv, ReceiveBlock
    PROVE  WIInv'
  <1>1. /\ call.pc = "block" /\ ~panicked
        /\ UNCHANGED <<kernelVars, buffer, pending, disturbed>>
        /\ \/ GoTo("received") /\ UNCHANGED panicked
           \/ process_flags[call.p] = {} /\ panicked' = TRUE /\ UNCHANGED call
    BY DEF ReceiveBlock, At, Asserting
  <1>2. CASE GoTo("received") /\ UNCHANGED panicked
    <2>1. call'.pc = "received" /\ call'.p = call.p /\ call'.target = call.target
      BY <1>1, <1>2, GoToIs DEF WIInv, Pc
    <2>2. CallDuring'
      BY <1>1, <2>1, SameKernel DEF WIInv, CallDuring, SenderPc, ReceiverPc, kernelVars
    <2> QED BY <1>1, <1>2, <2>2, ProgressKeeps
            DEF Pc, WIInv, WTypeOK, TypeOK, KernelTypeOK
  <1>3. CASE process_flags[call.p] = {} /\ panicked' = TRUE /\ UNCHANGED call
    <2>1. disturbed
      BY <1>1, <1>3 DEF WIInv, CallDuring
    <2> QED BY <1>1, <1>3, <2>1, FailureKeeps
  <1> QED BY <1>1, <1>2, <1>3

\* The last assertions fail if an interrupt has woken the receiver, or if one is
\* recorded; if they hold none is missed.
LEMMA ReceiveAssertsKeeps ==
    ASSUME WIInv, ReceiveAsserts
    PROVE  WIInv'
  <1> DEFINE Agreed == /\ process_flags[call.p] = {RECEIVING} /\ msg[call.p]
                       /\ recvfrom[call.p] # SR_TARGET_NONE
                       /\ sendto[call.p] = SR_TARGET_NONE
  <1>1. /\ call.pc = "received" /\ ~panicked
        /\ UNCHANGED <<kernelVars, buffer, pending, disturbed>>
        /\ \/ ~has_int_msg[call.p] /\ GoTo("idle") /\ UNCHANGED panicked
           \/ ~(Agreed /\ ~has_int_msg[call.p]) /\ panicked' = TRUE /\ UNCHANGED call
    BY DEF ReceiveAsserts, At, Asserting
  <1>2. CASE ~has_int_msg[call.p] /\ GoTo("idle") /\ UNCHANGED panicked
    <2>1. call'.pc = "idle"
      BY <1>1, <1>2, GoToIs DEF WIInv, Pc
    <2>2. CallDuring'
      BY <2>1 DEF CallDuring, SenderPc, ReceiverPc
    <2>3. \A x \in Proc : ~InterruptMissed(x)
      BY <1>2 DEF WIInv, MissedDuring, InterruptMissed
    <2> QED BY <1>1, <1>2, <2>2, <2>3, ProgressKeeps
            DEF Pc, WIInv, WTypeOK, TypeOK, KernelTypeOK
  <1>3. CASE ~(Agreed /\ ~has_int_msg[call.p]) /\ panicked' = TRUE /\ UNCHANGED call
    <2>1. ASSUME process_flags[call.p] = {RECEIVING}
          PROVE  Agreed
      <3>1. PICK p \in Proc : p = call.p
        BY <1>1, CallParts DEF WIInv
      <3>2. Status(p)
        BY <1>1 DEF WIInv, StatusDuring, HalfWoken, HalfBlocked
      <3>3. ~Sending(p) /\ Receiving(p) /\ process_flags[p] # {}
        BY <2>1, <3>1 DEF Sending, Receiving, SENDING, RECEIVING
      <3>4. msg[p] /\ recvfrom[p] # SR_TARGET_NONE /\ sendto[p] = SR_TARGET_NONE
        BY <3>2, <3>3 DEF Status
      <3> QED BY <2>1, <3>1, <3>4
    <2> HIDE DEF Agreed
    <2>2. \/ disturbed
          \/ /\ has_int_msg[call.p]
             /\ call.target \notin {SR_TARGET_ANY, SR_TARGET_INTERRUPT}
      BY <1>1, <1>3, <2>1 DEF WIInv, CallDuring, TakesInterrupt
    <2> QED BY <1>1, <1>3, <2>2, FailureKeeps
  <1> QED BY <1>1, <1>2, <1>3

-----------------------------------------------------------------------------
(* Interrupts, wherever the call is.                                       *)

\* A handler wakes only a process that waits, with all its fields: never one
\* that is half blocked; and one that is half woken it makes whole.
LEMMA HandlerWakes ==
    ASSUME WIInv, NEW t \in Proc, Interrupt(t), UNCHANGED call,
           disturbed' = (call.pc # "idle"), WaitsFor(t, SR_TARGET_INTERRUPT)
    PROVE  WIInv'
  <1>1. /\ ~panicked
        /\ buffer' = IF msg[t] THEN Overwritten(t) ELSE buffer
        /\ msg' = [msg EXCEPT ![t] = FALSE]
        /\ has_int_msg' = [has_int_msg EXCEPT ![t] = FALSE]
        /\ process_flags' = [process_flags EXCEPT ![t] = @ \ {RECEIVING}]
        /\ recvfrom' = [recvfrom EXCEPT ![t] = SR_TARGET_NONE]
        /\ UNCHANGED <<sendto, sending, pending, panicked>>
    BY DEF Interrupt, process_inform_interrupt
  <1>2. KernelTypeOK
    BY DEF WIInv, WTypeOK, TypeOK
  <1>3. Receiving(t) /\ ~HalfBlocked(t)
    <2>1. Receiving(t) /\ recvfrom[t] # SR_TARGET_NONE
      BY TargetAssumption DEF WaitsFor, Sentinel
    <2> QED BY <2>1 DEF WIInv, StatusDuring
  <1>4. ~Sending(t) /\ sendto[t] = SR_TARGET_NONE
    <2>1. CASE HalfWoken(t)
      BY <2>1 DEF WIInv, StatusDuring
    <2>2. CASE ~HalfWoken(t)
      <3>1. Status(t)
        BY <1>3, <2>2 DEF WIInv, StatusDuring
      <3> QED BY <1>3, <3>1 DEF Status
    <2> QED BY <2>1, <2>2
  <1>5. /\ process_flags'[t] = {} /\ recvfrom'[t] = SR_TARGET_NONE
        /\ ~msg'[t] /\ ~has_int_msg'[t] /\ sendto'[t] = SR_TARGET_NONE
    BY <1>1, <1>2, <1>4 DEF KernelTypeOK, Sending
  <1>6. \A x \in Proc : x # t =>
           /\ process_flags'[x] = process_flags[x] /\ recvfrom'[x] = recvfrom[x]
           /\ msg'[x] = msg[x] /\ has_int_msg'[x] = has_int_msg[x]
    BY <1>1, <1>2 DEF KernelTypeOK
  <1>7. /\ \A x \in Proc : Sending(x)' <=> Sending(x)
        /\ \A x \in Proc : Receiving(x)' <=> (Receiving(x) /\ x # t)
    BY <1>4, <1>5, <1>6 DEF Sending, Receiving
  <1>8. /\ \A x \in Proc : \A y : x # t => (WaitsFor(x, y)' <=> WaitsFor(x, y))
        /\ \A y : ~WaitsFor(t, y)'
    BY <1>6, <1>7 DEF WaitsFor
  <1>9. WTypeOK'
    <2>1. buffer' \in [Proc -> Message]
      BY <1>1, <1>2 DEF KernelTypeOK, Overwritten, Message
    <2>2. KernelTypeOK'
      BY <1>1, <1>2, <2>1 DEF KernelTypeOK, Sentinel
    <2> QED BY <1>1, <2>2 DEF WIInv, WTypeOK, TypeOK
  <1>10. QueueExact' /\ NoSendCycle'
    BY <1>1, <1>7, SameSenders DEF WIInv
  <1>11. NoMissedRendezvous'
    BY <1>1, <1>7, <1>8 DEF WIInv, NoMissedRendezvous
  <1>12. StatusDuring'
    <2>1. \A x \in Proc : (HalfWoken(x)' <=> HalfWoken(x)) /\ (HalfBlocked(x)' <=> HalfBlocked(x))
      BY DEF HalfWoken, HalfBlocked
    <2>2. /\ Status(t)'
          /\ ~Sending(t)' /\ ~Receiving(t)'
      BY <1>5, <1>7, <1>4 DEF Status
    <2>3. \A x \in Proc : x # t => (Status(x)' <=> Status(x))
      BY <1>1, <1>6, <1>7 DEF Status
    <2> SUFFICES ASSUME NEW x \in Proc
                 PROVE  /\ ~HalfWoken(x)' /\ ~HalfBlocked(x)' => Status(x)'
                        /\ HalfWoken(x)' =>
                              /\ ~Sending(x)' /\ sendto'[x] = SR_TARGET_NONE /\ ~msg'[x]
                              /\ Receiving(x)' <=> recvfrom'[x] # SR_TARGET_NONE
                        /\ HalfBlocked(x)' =>
                              /\ process_flags'[x] = {RECEIVING} /\ ~msg'[x]
                              /\ recvfrom'[x] = SR_TARGET_NONE /\ sendto'[x] = SR_TARGET_NONE
      BY DEF StatusDuring
    <2>4. CASE x = t
      BY <1>3, <1>5, <2>1, <2>2, <2>4
    <2>5. CASE x # t
      BY <1>1, <1>6, <1>7, <2>1, <2>3, <2>5 DEF WIInv, StatusDuring
    <2> QED BY <2>4, <2>5
  <1>13. MissedDuring'
    BY <1>6, <1>8 DEF WIInv, MissedDuring, InterruptMissed
  <1>14. CallDuring'
    <2>1. \A x \in Proc : process_flags[x] = {} => process_flags'[x] = {}
      BY <1>5, <1>6
    <2>2. call.pc # "idle" => call.p \in Proc /\ disturbed'
      BY CallParts DEF WIInv
    <2>3. call.pc \in SenderPc =>
            call'.target \in Proc \ {call'.p} /\ process_flags'[call'.p] = {}
      BY <2>1, <2>2 DEF WIInv, CallDuring, SenderPc
    <2>4. call.pc \in {"deliver", "copy", "clear"} =>
            \/ WaitsFor(call.target, call.p)'
            \/ process_flags'[call'.target] = {} /\ disturbed'
      BY <1>5, <1>8, <2>1, <2>2, <2>3 DEF WIInv, CallDuring, SenderPc
    <2>5. call.pc = "sent" => process_flags'[call'.target] = {}
      BY <2>1, <2>3 DEF WIInv, CallDuring, SenderPc
    <2>6. call.pc \in ReceiverPc =>
            call'.target \in (Proc \ {call'.p}) \cup {SR_TARGET_ANY, SR_TARGET_INTERRUPT}
      BY DEF WIInv, CallDuring
    <2>7. call.pc \in {"receive", "interrupt", "taken", "flag"} => process_flags'[call'.p] = {}
      BY <2>1, <2>2 DEF WIInv, CallDuring
    <2>8. call.pc \in {"flag", "from"} => NobodySends(call.p, call.target)'
      BY <1>1, <1>7 DEF WIInv, CallDuring, NobodySends
    <2>9. call.pc \in {"block", "received"} =>
            \/ process_flags'[call'.p] = {RECEIVING} /\ recvfrom'[call'.p] = call'.target
            \/ process_flags'[call'.p] = {} /\ disturbed'
      BY <1>5, <1>6, <2>2 DEF WIInv, CallDuring
    <2>10. call.pc \in {"taken", "flag", "from", "block", "received"} => disturbed'
      BY <2>2
    <2> QED BY <2>3, <2>4, <2>5, <2>6, <2>7, <2>8, <2>9, <2>10 DEF CallDuring
  <1>15. OnlyInterruptsBreakAsserts' /\ \A x \in Proc : pending'[x] # x
    BY <1>1 DEF WIInv, OnlyInterruptsBreakAsserts
  <1> QED BY <1>9, <1>10, <1>11, <1>12, <1>13, <1>14, <1>15 DEF WIInv

\* For a process that does not wait it leaves a note, and the call is to blame
\* if it is too late to look at it.
LEMMA HandlerRecords ==
    ASSUME WIInv, NEW t \in Proc, Interrupt(t), UNCHANGED call,
           disturbed' = (call.pc # "idle"), ~WaitsFor(t, SR_TARGET_INTERRUPT)
    PROVE  WIInv'
  <1>1. /\ ~panicked
        /\ has_int_msg' = [has_int_msg EXCEPT ![t] = TRUE]
        /\ UNCHANGED <<process_flags, msg, recvfrom, sendto, sending, buffer,
                       pending, panicked>>
    BY DEF Interrupt, process_inform_interrupt
  <1>2. /\ \A x : Sending(x)' <=> Sending(x)
        /\ \A x : Receiving(x)' <=> Receiving(x)
        /\ \A x, y : WaitsFor(x, y)' <=> WaitsFor(x, y)
        /\ \A x : Status(x)' <=> Status(x)
        /\ \A x : (HalfWoken(x)' <=> HalfWoken(x)) /\ (HalfBlocked(x)' <=> HalfBlocked(x))
        /\ \A x, y : NobodySends(x, y)' <=> NobodySends(x, y)
    BY <1>1 DEF Sending, Receiving, WaitsFor, Status, HalfWoken, HalfBlocked, NobodySends
  <1>3. WTypeOK'
    BY <1>1 DEF WIInv, WTypeOK, TypeOK, KernelTypeOK
  <1>4. QueueExact' /\ NoSendCycle'
    BY <1>1, <1>2, SameSenders DEF WIInv
  <1>5. NoMissedRendezvous'
    BY <1>1, <1>2 DEF WIInv, NoMissedRendezvous
  <1>6. StatusDuring'
    BY <1>1, <1>2 DEF WIInv, StatusDuring
  <1>7. MissedDuring'
    <2>1. \A x \in Proc : x # t => has_int_msg'[x] = has_int_msg[x]
      BY <1>1 DEF WIInv, WTypeOK, TypeOK, KernelTypeOK
    <2> QED BY <1>2, <2>1 DEF WIInv, MissedDuring, InterruptMissed
  <1>8. CallDuring'
    BY <1>1, <1>2 DEF WIInv, CallDuring, SenderPc, ReceiverPc
  <1>9. OnlyInterruptsBreakAsserts' /\ \A x \in Proc : pending'[x] # x
    BY <1>1 DEF WIInv, OnlyInterruptsBreakAsserts
  <1> QED BY <1>3, <1>4, <1>5, <1>6, <1>7, <1>8, <1>9 DEF WIInv

-----------------------------------------------------------------------------
(* The theorems.                                                           *)

\* A system call begins, with the message stamped with its caller.
LEMMA EnteringKeeps ==
    ASSUME WIInv, NEW p \in Proc,
           \/ \E dest \in Proc \ {p}, b \in Body, both \in BOOLEAN :
                 EnterSend(p, dest, b, both)
           \/ \E source \in (Proc \ {p}) \cup {SR_TARGET_ANY, SR_TARGET_INTERRUPT} :
                 EnterReceive(p, source)
           \/ EnterReply(p)
    PROVE  WIInv'
  <1>1. /\ pending \in [Proc -> Proc \cup {SR_TARGET_NONE}] /\ buffer \in [Proc -> Message]
        /\ \A x \in Proc : pending[x] # x
    BY DEF WIInv, WTypeOK, TypeOK, KernelTypeOK
  <1>2. ASSUME NEW dest \in Proc \ {p}, NEW b \in Body, NEW both \in BOOLEAN,
               EnterSend(p, dest, b, both)
        PROVE  WIInv'
    <2>1. [source |-> p, body |-> b] \in Message
      BY DEF Message
    <2>2. /\ Enter("send", p, dest, [source |-> p, body |-> b])
          /\ pending' = [pending EXCEPT ![p] = IF both THEN dest ELSE pending[p]]
      BY <1>2 DEF EnterSend
    <2>3. pending' \in [Proc -> Proc \cup {SR_TARGET_NONE}] /\ \A x \in Proc : pending'[x] # x
      BY <1>1, <2>2
    <2> QED BY <2>1, <2>2, <2>3, EnterKeeps
  <1>3. ASSUME NEW source \in (Proc \ {p}) \cup {SR_TARGET_ANY, SR_TARGET_INTERRUPT},
               EnterReceive(p, source)
        PROVE  WIInv'
    <2>1. [source |-> p, body |-> Zeroed] \in Message
      BY DEF Message
    <2>2. /\ Enter("receive", p, source, [source |-> p, body |-> Zeroed])
          /\ UNCHANGED pending
      BY <1>3 DEF EnterReceive
    <2> QED BY <1>1, <2>1, <2>2, EnterKeeps
  <1>4. CASE EnterReply(p)
    <2>1. [buffer[p] EXCEPT !.source = p] \in Message
      BY <1>1 DEF Message
    <2>2. /\ Enter("receive", p, pending[p], [buffer[p] EXCEPT !.source = p])
          /\ pending' = [pending EXCEPT ![p] = SR_TARGET_NONE]
          /\ pending[p] # SR_TARGET_NONE
      BY <1>4 DEF EnterReply
    <2>3. pending[p] \in Proc \ {p}
      BY <1>1, <2>2
    <2>4. pending' \in [Proc -> Proc \cup {SR_TARGET_NONE}] /\ \A x \in Proc : pending'[x] # x
      BY <1>1, <2>2, TargetAssumption DEF Sentinel
    <2> QED BY <2>1, <2>2, <2>3, <2>4, EnterKeeps
  <1> QED BY <1>2, <1>3, <1>4

\* The induction step, action by action.
LEMMA NextWIInv == WIInv /\ [WNext]_wvars => WIInv'
  <1> SUFFICES ASSUME WIInv, [WNext]_wvars PROVE WIInv'
    OBVIOUS
  <1>1. ASSUME NEW p \in Proc,
               \/ \E dest \in Proc \ {p}, b \in Body, both \in BOOLEAN :
                     EnterSend(p, dest, b, both)
               \/ \E source \in (Proc \ {p}) \cup {SR_TARGET_ANY, SR_TARGET_INTERRUPT} :
                     EnterReceive(p, source)
               \/ EnterReply(p)
        PROVE  WIInv'
    BY <1>1, EnteringKeeps
  <1>2. CASE SendTest \/ SendCheckDest \/ SendCopy \/ SendClearMsg \/ SendWake \/ SendAsserts
    BY <1>2, SendTestKeeps, SendCheckDestKeeps, SendCopyKeeps, SendClearMsgKeeps,
       SendWakeKeeps, SendAssertsKeeps
  <1>3. CASE \/ ReceiveTest \/ ReceiveTake \/ ReceiveTakeAsserts \/ ReceiveFlag \/ ReceiveFrom \/ ReceiveBlock
             \/ ReceiveAsserts
    BY <1>3, ReceiveTestKeeps, ReceiveTakeKeeps, ReceiveTakeAssertsKeeps,
       ReceiveFlagKeeps, ReceiveFromKeeps, ReceiveBlockKeeps, ReceiveAssertsKeeps
  <1>4. ASSUME NEW t \in IntTarget, WInterrupt(t)
        PROVE  WIInv'
    <2>1. t \in Proc /\ Interrupt(t) /\ disturbed' = (call.pc # "idle") /\ UNCHANGED call
      BY <1>4, ProcAssumption DEF WInterrupt
    <2> QED BY <2>1, HandlerWakes, HandlerRecords
  <1>5. CASE UNCHANGED wvars
    <2>1. UNCHANGED <<kernelVars, buffer, pending, panicked, call, disturbed>>
      BY <1>5 DEF wvars, vars
    <2>2. WTypeOK' /\ \A x \in Proc : pending'[x] # x
      BY <2>1 DEF WIInv, WTypeOK, TypeOK, KernelTypeOK, kernelVars
    <2>3. QueueExact' /\ NoSendCycle' /\ NoMissedRendezvous'
      BY <2>1, SameKernel DEF WIInv
    <2>4. StatusDuring'
      BY <2>1, SameKernel DEF WIInv, StatusDuring, HalfWoken, HalfBlocked, kernelVars
    <2>5. MissedDuring'
      BY <2>1, SameKernel DEF WIInv, MissedDuring
    <2>6. CallDuring'
      BY <2>1, SameKernel DEF WIInv, CallDuring, kernelVars
    <2>7. OnlyInterruptsBreakAsserts'
      BY <2>1 DEF WIInv, OnlyInterruptsBreakAsserts, kernelVars
    <2> QED BY <2>2, <2>3, <2>4, <2>5, <2>6, <2>7 DEF WIInv
  <1> QED BY <1>1, <1>2, <1>3, <1>4, <1>5 DEF WNext

\* What is true between any two steps of a call.
LEMMA WInvariance == WSpec => []WIInv
  BY InitWIInv, NextWIInv, PTL DEF WSpec

\* Whatever interrupts do during a call, when it is over the process table is
\* as consistent as if the call had been one step (sendrecv.c:11-247).
THEOREM CallsAreWhole == WSpec => []ConsistentBetweenCalls
  <1>1. WIInv => ConsistentBetweenCalls
    <2> SUFFICES ASSUME WIInv PROVE ConsistentBetweenCalls
      OBVIOUS
    <2>1. CASE call.pc = "idle"
      BY <2>1, WholeInside DEF WIInv, KernelInv, ConsistentBetweenCalls, Split
    <2>2. CASE call.pc # "idle"
      BY <2>2 DEF WIInv, ConsistentBetweenCalls
    <2> QED BY <2>1, <2>2
  <1> QED BY <1>1, WInvariance, PTL

\* An assertion of message_send or message_receive fails only where an interrupt
\* came during the call, or, at the end of a receive that does not want one, was
\* recorded before it (sendrecv.c:80-87, 139-142, 239-243).
THEOREM AssertsHoldUndisturbed == WSpec => []OnlyInterruptsBreakAsserts
  BY WInvariance, PTL DEF WIInv
=============================================================================
