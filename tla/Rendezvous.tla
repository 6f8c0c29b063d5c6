----------------------------- MODULE Rendezvous -----------------------------
(***************************************************************************)
(* What sendrecv promises its callers, without lists, flags and pointers:  *)
(* a message goes from its sender to one receiver in one step, when both   *)
(* have asked for it; who asks first waits.  An interrupt is a message     *)
(* without a sender, remembered at most once, and served before senders.   *)
(***************************************************************************)
CONSTANTS Proc, IntTarget, Body, HardInt, Zeroed, Any, Hardware, Nobody

VARIABLES
    to,       \* whom a process is blocked sending to, or Nobody
    want,     \* whom a process is blocked receiving from, or Nobody
    irq,      \* an interrupt has been reported and not been received
    mem,      \* the message in the memory of a process
    halted

vars == <<to, want, irq, mem, halted>>

Init ==
    /\ to = [p \in Proc |-> Nobody]
    /\ want = [p \in Proc |-> Nobody]
    /\ irq = [p \in Proc |-> FALSE]
    /\ mem = [p \in Proc |-> [source |-> p, body |-> Zeroed]]
    /\ halted = FALSE

Idle(p) == ~halted /\ to[p] = Nobody /\ want[p] = Nobody

\* Following the blocked senders from q leads to p.
Reaches(q, p) ==
    \A C \in SUBSET Proc :
        q \in C /\ (\A x \in C : to[x] \in Proc => to[x] \in C) => p \in C

\* The message p makes before it asks to send; what p had received, with its
\* own name on it, or zeroes while it asks to receive.
Written(p) == {[source |-> p, body |-> b] : b \in Body}
Prepared(p) == {[source |-> p, body |-> Zeroed], [mem[p] EXCEPT !.source = p]}

Halt(p, q) ==
    /\ Idle(p) /\ Reaches(q, p)
    /\ halted' = TRUE
    /\ \E m \in Written(p) : mem' = [mem EXCEPT ![p] = m]
    /\ UNCHANGED <<to, want, irq>>

Hand(p, q) ==
    /\ Idle(p) /\ ~Reaches(q, p) /\ want[q] \in {p, Any}
    /\ \E m \in Written(p) : mem' = [mem EXCEPT ![p] = m, ![q] = m]
    /\ want' = [want EXCEPT ![q] = Nobody]
    /\ UNCHANGED <<to, irq, halted>>

Offer(p, q) ==
    /\ Idle(p) /\ ~Reaches(q, p) /\ want[q] \notin {p, Any}
    /\ \E m \in Written(p) : mem' = [mem EXCEPT ![p] = m]
    /\ to' = [to EXCEPT ![p] = q]
    /\ UNCHANGED <<want, irq, halted>>

Serves(p, w) == irq[p] /\ w \in {Any, Hardware}

TakeInterrupt(p, w) ==
    /\ Idle(p) /\ Serves(p, w)
    /\ mem' = [mem EXCEPT ![p] = [source |-> Hardware, body |-> HardInt]]
    /\ irq' = [irq EXCEPT ![p] = FALSE]
    /\ UNCHANGED <<to, want, halted>>

Take(p, w, q) ==
    /\ Idle(p) /\ ~Serves(p, w) /\ to[q] = p /\ w \in {q, Any}
    /\ mem' = [mem EXCEPT ![p] = mem[q]]
    /\ to' = [to EXCEPT ![q] = Nobody]
    /\ UNCHANGED <<want, irq, halted>>

\* Waiting for a process by name while an interrupt is reported is an error.
Wait(p, w) ==
    /\ Idle(p) /\ ~Serves(p, w)
    /\ ~\E q \in Proc : to[q] = p /\ w \in {q, Any}
    /\ \E m \in Prepared(p) : mem' = [mem EXCEPT ![p] = m]
    /\ want' = [want EXCEPT ![p] = w]
    /\ halted' = irq[p]
    /\ UNCHANGED <<to, irq>>

Interrupt(t) ==
    /\ ~halted
    /\ IF want[t] \in {Any, Hardware}
       THEN /\ mem' = [mem EXCEPT ![t] = [source |-> Hardware, body |-> HardInt]]
            /\ want' = [want EXCEPT ![t] = Nobody]
            /\ irq' = [irq EXCEPT ![t] = FALSE]
       ELSE /\ irq' = [irq EXCEPT ![t] = TRUE]
            /\ UNCHANGED <<mem, want>>
    /\ UNCHANGED <<to, halted>>

Next ==
    \/ \E p \in Proc :
          \/ \E q \in Proc \ {p} : Halt(p, q) \/ Hand(p, q) \/ Offer(p, q)
          \/ \E w \in (Proc \ {p}) \cup {Any, Hardware} :
                \/ TakeInterrupt(p, w)
                \/ \E q \in Proc : Take(p, w, q)
                \/ Wait(p, w)
    \/ \E t \in IntTarget : Interrupt(t)

Spec == Init /\ [][Next]_vars
=============================================================================
