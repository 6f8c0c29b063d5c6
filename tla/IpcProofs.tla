----------------------------- MODULE IpcProofs -----------------------------
(* Proofs about Ipc for every table of processes.                          *)
EXTENDS Ipc, SequenceTheorems, TLAPS

-----------------------------------------------------------------------------
(* The list operations of sendrecv.c.                                      *)

\* Linking a process at the tail adds it and nothing else, and keeps the
\* members of the list distinct when it was not there (sendrecv.c:96-106).
LEMMA AppendOccurs ==
    ASSUME NEW S, NEW list \in Seq(S), NEW p \in S,
           Distinct(list), ~Occurs(p, list)
    PROVE  /\ Append(list, p) \in Seq(S)
           /\ Distinct(Append(list, p))
           /\ \A x : Occurs(x, Append(list, p)) <=> (Occurs(x, list) \/ x = p)
           /\ \A x, y : Ahead(list, x, y) => Ahead(Append(list, p), x, y)
<1> DEFINE new == Append(list, p)
<1>1. /\ new \in Seq(S)
      /\ DOMAIN list = 1 .. Len(list)
      /\ DOMAIN new = 1 .. (Len(list) + 1)
      /\ Len(list) \in Nat
      /\ \A i \in 1 .. Len(list) : new[i] = list[i]
      /\ new[Len(list) + 1] = p
  BY AppendProperties, LenProperties
<1> HIDE DEF new
<1>2. \A i \in DOMAIN new : i \in DOMAIN list \/ i = Len(list) + 1
  BY <1>1
<1>3. Distinct(new)
  BY <1>1, <1>2 DEF Distinct, Occurs
<1>4. ASSUME NEW x PROVE Occurs(x, new) <=> (Occurs(x, list) \/ x = p)
  BY <1>1, <1>2 DEF Occurs
<1>5. ASSUME NEW x, NEW y, Ahead(list, x, y) PROVE Ahead(new, x, y)
  BY <1>1, <1>5 DEF Ahead
<1> QED BY <1>1, <1>3, <1>4, <1>5 DEF new

\* Unlinking a member takes it out, wherever it is, and nothing else
\* (sendrecv.c:172-185, 205-216).
LEMMA UnlinkedOccurs ==
    ASSUME NEW S, NEW list \in Seq(S), NEW q,
           Distinct(list), Occurs(q, list)
    PROVE  /\ Unlinked(list, q) \in Seq(S)
           /\ Distinct(Unlinked(list, q))
           /\ \A x : Occurs(x, Unlinked(list, q)) <=> (Occurs(x, list) /\ x # q)
           /\ \A x, y : Ahead(list, x, y) /\ x # q /\ y # q
                          => Ahead(Unlinked(list, q), x, y)
<1> DEFINE i == CHOOSE j \in DOMAIN list : list[j] = q
           n == Len(list)
           front == SubSeq(list, 1, i - 1)
           back == SubSeq(list, i + 1, n)
           new == front \o back
<1>1. n \in Nat /\ DOMAIN list = 1 .. n /\ \A k \in 1 .. n : list[k] \in S
  BY LenProperties, ElementOfSeq
<1>2. i \in 1 .. n /\ list[i] = q
  BY <1>1 DEF Occurs
<1> HIDE DEF i, n
<1>3. /\ front \in Seq(S)
      /\ Len(front) = i - 1
      /\ \A k \in 1 .. (i - 1) : front[k] = list[k]
  <2>1. \A k \in 1 .. (i - 1) : list[k] \in S
    BY <1>1, <1>2
  <2>2. i - 1 \in Int /\ 1 \in Int
    BY <1>1, <1>2
  <2>3. /\ front \in Seq(S)
        /\ Len(front) = IF 1 <= i - 1 THEN (i - 1) - 1 + 1 ELSE 0
        /\ \A k \in 1 .. ((i - 1) - 1 + 1) : front[k] = list[1 + k - 1]
    BY <2>1, <2>2, SubSeqProperties
  <2> HIDE DEF front
  <2> QED BY <1>1, <1>2, <2>3
<1>4. /\ back \in Seq(S)
      /\ Len(back) = n - i
      /\ \A k \in 1 .. (n - i) : back[k] = list[i + k]
  <2>1. \A k \in (i + 1) .. n : list[k] \in S
    BY <1>1, <1>2
  <2>2. i + 1 \in Int /\ n \in Int
    BY <1>1, <1>2
  <2>3. /\ back \in Seq(S)
        /\ Len(back) = IF i + 1 <= n THEN n - (i + 1) + 1 ELSE 0
        /\ \A k \in 1 .. (n - (i + 1) + 1) : back[k] = list[(i + 1) + k - 1]
    BY <2>1, <2>2, SubSeqProperties
  <2> HIDE DEF back
  <2> QED BY <1>1, <1>2, <2>3
<1> HIDE DEF front, back
<1>5. /\ new \in Seq(S)
      /\ Len(new) = n - 1
      /\ \A k \in 1 .. (n - 1) :
            new[k] = IF k < i THEN list[k] ELSE list[k + 1]
  <2>1. /\ new \in Seq(S)
        /\ Len(new) = Len(front) + Len(back)
        /\ \A k \in 1 .. (Len(front) + Len(back)) :
              new[k] = IF k <= Len(front) THEN front[k] ELSE back[k - Len(front)]
    BY <1>3, <1>4, ConcatProperties
  <2> HIDE DEF new
  <2>2. Len(front) + Len(back) = n - 1
    BY <1>1, <1>2, <1>3, <1>4
  <2>3. ASSUME NEW k \in 1 .. (n - 1)
        PROVE  new[k] = IF k < i THEN list[k] ELSE list[k + 1]
    <3>1. CASE k < i
      BY <3>1, <2>1, <2>2, <1>1, <1>2, <1>3
    <3>2. CASE ~(k < i)
      <4>1. k - (i - 1) \in 1 .. (n - i) /\ i + (k - (i - 1)) = k + 1
        BY <3>2, <1>1, <1>2
      <4>2. new[k] = back[k - (i - 1)]
        BY <3>2, <2>1, <2>2, <1>1, <1>2, <1>3
      <4> QED BY <3>2, <4>1, <4>2, <1>4
    <3> QED BY <3>1, <3>2
  <2> QED BY <2>1, <2>2, <2>3
<1> HIDE DEF new
<1>6. DOMAIN new = 1 .. (n - 1)
  BY <1>5, LenProperties
<1>7. Distinct(new)
  <2> SUFFICES ASSUME NEW a \in 1 .. (n - 1), NEW b \in 1 .. (n - 1), new[a] = new[b]
               PROVE  a = b
    BY <1>6 DEF Distinct
  <2> DEFINE at(k) == IF k < i THEN k ELSE k + 1
  <2>1. at(a) \in DOMAIN list /\ at(b) \in DOMAIN list
    BY <1>1, <1>2
  <2>2. list[at(a)] = list[at(b)]
    BY <1>5
  <2>3. at(a) = at(b)
    BY <2>1, <2>2 DEF Distinct
  <2> QED BY <2>3, <1>1, <1>2
<1>8. ASSUME NEW x PROVE Occurs(x, new) <=> (Occurs(x, list) /\ x # q)
  <2>1. ASSUME NEW k \in 1 .. (n - 1), new[k] = x
        PROVE  Occurs(x, list) /\ x # q
    <3> DEFINE at == IF k < i THEN k ELSE k + 1
    <3>1. at \in DOMAIN list /\ at # i /\ list[at] = x
      BY <2>1, <1>1, <1>2, <1>5
    <3> QED BY <3>1, <1>1, <1>2 DEF Occurs, Distinct
  <2>2. ASSUME NEW k \in 1 .. n, list[k] = x, x # q
        PROVE  Occurs(x, new)
    <3> DEFINE at == IF k < i THEN k ELSE k - 1
    <3>1. at \in 1 .. (n - 1) /\ new[at] = x
      BY <2>2, <1>1, <1>2, <1>5
    <3> QED BY <3>1, <1>6 DEF Occurs
  <2> QED BY <2>1, <2>2, <1>1, <1>6 DEF Occurs
<1>9. Unlinked(list, q) = new
  BY DEF Unlinked, Lists!RemoveAt, new, front, back, i, n
<1>10. ASSUME NEW x, NEW y, Ahead(list, x, y), x # q, y # q
       PROVE  Ahead(new, x, y)
  <2> DEFINE at(k) == IF k < i THEN k ELSE k - 1
  <2>1. PICK a \in 1 .. n, b \in 1 .. n : a < b /\ list[a] = x /\ list[b] = y
    BY <1>10, <1>1 DEF Ahead
  <2>2. a # i /\ b # i
    BY <2>1, <1>2, <1>10
  <2>3. /\ at(a) \in 1 .. (n - 1) /\ new[at(a)] = list[a]
        /\ at(b) \in 1 .. (n - 1) /\ new[at(b)] = list[b]
        /\ at(a) < at(b)
    BY <2>1, <2>2, <1>1, <1>2, <1>5
  <2> QED BY <2>1, <2>3, <1>6 DEF Ahead
<1> QED BY <1>5, <1>7, <1>8, <1>9, <1>10

-----------------------------------------------------------------------------
(* The inductive invariant.  The five safety properties need each other: a *)
(* receiver that finds its list empty knows only by QueueExact that nobody *)
(* is blocked sending to it, and so on.                                    *)

KernelInv ==
    /\ KernelTypeOK
    /\ QueueExact
    /\ StatusConsistent
    /\ NoMissedRendezvous
    /\ NoMissedInterrupt
    /\ NoSendCycle

\* The free processes of a call: no flag, so no partner and no message.
LEMMA FreeProcess ==
    ASSUME KernelInv, NEW p \in Proc, process_flags[p] = {}
    PROVE  /\ ~Sending(p) /\ ~Receiving(p) /\ ~msg[p]
           /\ sendto[p] = SR_TARGET_NONE /\ recvfrom[p] = SR_TARGET_NONE
BY DEF KernelInv, StatusConsistent, Sending, Receiving

\* A deadlock that is found stops the system and changes nothing else.
LEMMA SendPanicsKeeps ==
    ASSUME KernelInv, NEW p \in Proc, NEW dest \in Proc, NEW m \in Message,
           SendPanics(p, dest, m)
    PROVE  KernelInv'
<1> USE DEF SendPanics, kernelVars
<1>1. KernelTypeOK'
  BY DEF KernelInv, KernelTypeOK
<1>2. QueueExact' /\ StatusConsistent' /\ NoMissedRendezvous' /\ NoMissedInterrupt'
  BY DEF KernelInv, QueueExact, StatusConsistent, NoMissedRendezvous,
         NoMissedInterrupt, Sending, Receiving, WaitsFor
<1>3. NoSendCycle'
  BY DEF KernelInv, NoSendCycle, Sending
<1> QED BY <1>1, <1>2, <1>3 DEF KernelInv

\* The receiver was waiting for this sender; it leaves with no flag set.
LEMMA SendDeliversKeeps ==
    ASSUME KernelInv, NEW p \in Proc, NEW dest \in Proc, NEW m \in Message,
           process_flags[p] = {}, SendDelivers(p, dest, m)
    PROVE  KernelInv'
<1> USE DEF SendDelivers, SENDING, RECEIVING
<1>1. KernelTypeOK'
  BY DEF KernelInv, KernelTypeOK, Sentinel
<1>2. /\ ~Sending(dest) /\ Receiving(dest)
      /\ \A x \in Proc : Sending(x)' <=> Sending(x)
      /\ \A x \in Proc : Receiving(x)' <=> (Receiving(x) /\ x # dest)
      /\ process_flags'[dest] = {}
      /\ \A x \in Proc \ {dest} : process_flags'[x] = process_flags[x]
  BY DEF KernelInv, KernelTypeOK, StatusConsistent, Sending, Receiving, WaitsFor
<1>3. /\ recvfrom'[dest] = SR_TARGET_NONE
      /\ \A x \in Proc \ {dest} : recvfrom'[x] = recvfrom[x] /\ msg'[x] = msg[x]
      /\ ~msg'[dest]
  BY DEF KernelInv, KernelTypeOK
<1>4. QueueExact'
  BY <1>2 DEF KernelInv, QueueExact
<1>5. StatusConsistent'
  BY <1>2, <1>3 DEF KernelInv, StatusConsistent
<1>6. NoMissedRendezvous' /\ NoMissedInterrupt'
  BY <1>2, <1>3 DEF KernelInv, NoMissedRendezvous, NoMissedInterrupt, WaitsFor
<1>7. NoSendCycle'
  BY <1>2 DEF KernelInv, NoSendCycle
<1> QED BY <1>1, <1>4, <1>5, <1>6, <1>7 DEF KernelInv

\* The check found a set that the chain from dest cannot leave and that p is not
\* in.  A cycle through p would have a part in that set, which was a cycle before.
LEMMA SendBlocksKeeps ==
    ASSUME KernelInv, NEW p \in Proc, NEW dest \in Proc, NEW m \in Message,
           p # dest, process_flags[p] = {}, SendBlocks(p, dest, m)
    PROVE  KernelInv'
<1> USE DEF SendBlocks, SENDING, RECEIVING
<1>0. /\ ~Sending(p) /\ ~Receiving(p) /\ ~msg[p]
      /\ sendto[p] = SR_TARGET_NONE /\ recvfrom[p] = SR_TARGET_NONE
  BY FreeProcess
<1>1. /\ \A x \in Proc : Sending(x)' <=> (Sending(x) \/ x = p)
      /\ \A x \in Proc : Receiving(x)' <=> Receiving(x)
      /\ \A x \in Proc \ {p} : process_flags'[x] = process_flags[x]
                             /\ sendto'[x] = sendto[x] /\ msg'[x] = msg[x]
      /\ process_flags'[p] # {} /\ sendto'[p] = dest /\ msg'[p]
  BY DEF KernelInv, KernelTypeOK, Sending, Receiving
<1>2. ~Occurs(p, sending[dest]) /\ Distinct(sending[dest])
      /\ sending[dest] \in Seq(Proc)
  BY <1>0 DEF KernelInv, KernelTypeOK, QueueExact
<1>3. /\ sending'[dest] \in Seq(Proc)
      /\ Distinct(sending'[dest])
      /\ \A x : Occurs(x, sending'[dest]) <=> (Occurs(x, sending[dest]) \/ x = p)
  <2>1. sending'[dest] = Append(sending[dest], p)
    BY DEF KernelInv, KernelTypeOK
  <2> QED BY <1>2, <2>1, AppendOccurs
<1>4. \A q \in Proc \ {dest} : sending'[q] = sending[q]
  BY DEF KernelInv, KernelTypeOK
<1>5. KernelTypeOK'
  BY <1>3 DEF KernelInv, KernelTypeOK, Sentinel
<1>6. QueueExact'
  <2>1. ASSUME NEW q \in Proc, NEW x \in Proc
        PROVE  /\ Distinct(sending'[q])
               /\ Occurs(x, sending'[q]) <=> (Sending(x)' /\ sendto'[x] = q)
    <3>1. CASE q = dest
      BY <3>1, <1>0, <1>1, <1>3 DEF KernelInv, QueueExact
    <3>2. CASE q # dest
      BY <3>2, <1>0, <1>1, <1>4 DEF KernelInv, QueueExact
    <3> QED BY <3>1, <3>2
  <2> QED BY <2>1 DEF QueueExact
<1>7. StatusConsistent'
  <2>1. dest # SR_TARGET_NONE
    BY TargetAssumption DEF Sentinel
  <2> QED BY <1>0, <1>1, <2>1 DEF KernelInv, StatusConsistent
<1>8. NoMissedRendezvous' /\ NoMissedInterrupt'
  BY <1>0, <1>1 DEF KernelInv, NoMissedRendezvous, NoMissedInterrupt, WaitsFor
<1>9. NoSendCycle'
  <2> SUFFICES ASSUME NEW S \in SUBSET Proc, S # {},
                      \A x \in S : Sending(x)' /\ sendto'[x] \in S
               PROVE  FALSE
    BY DEF NoSendCycle
  <2>1. CASE p \notin S
    BY <2>1, <1>1 DEF KernelInv, NoSendCycle
  <2>2. CASE p \in S
    <3>1. dest \in S
      BY <2>2, <1>1
    <3>2. PICK C \in SUBSET Proc : dest \in C /\ FollowsSendto(C) /\ p \notin C
      BY DEF process_check_deadlock
    <3>3. \A x \in S \cap C : Sending(x) /\ sendto[x] \in S \cap C
      BY <3>2, <1>1 DEF FollowsSendto
    <3>4. S \cap C # {} /\ S \cap C \in SUBSET Proc
      BY <3>1, <3>2
    <3> QED BY <3>3, <3>4 DEF KernelInv, NoSendCycle
  <2> QED BY <2>1, <2>2
<1> QED BY <1>5, <1>6, <1>7, <1>8, <1>9 DEF KernelInv

\* A recorded interrupt is taken by the process it was recorded for.
LEMMA ReceivesInterruptKeeps ==
    ASSUME KernelInv, NEW p \in Proc, NEW source,
           process_flags[p] = {}, ReceivesInterrupt(p, source)
    PROVE  KernelInv'
<1> USE DEF ReceivesInterrupt
<1>1. KernelTypeOK'
  BY DEF KernelInv, KernelTypeOK, Message
<1>2. QueueExact' /\ StatusConsistent' /\ NoMissedRendezvous' /\ NoSendCycle'
  BY DEF KernelInv, QueueExact, StatusConsistent, NoMissedRendezvous,
         NoSendCycle, Sending, Receiving, WaitsFor
<1>3. NoMissedInterrupt'
  BY DEF KernelInv, KernelTypeOK, NoMissedInterrupt, Receiving, WaitsFor
<1> QED BY <1>1, <1>2, <1>3 DEF KernelInv

\* Whichever way the sender is found, it is blocked sending to p, and so it is
\* in the list of p.
LEMMA CopiedFromASender ==
    ASSUME KernelInv, NEW p \in Proc, NEW sender \in Proc, NEW source,
           CanCopy(p, source, sender)
    PROVE  /\ Sending(sender) /\ sendto[sender] = p
           /\ Occurs(sender, sending[p]) /\ Distinct(sending[p])
           /\ sending[p] \in Seq(Proc)
<1>1. sending[p] \in Seq(Proc) /\ Distinct(sending[p])
  BY DEF KernelInv, KernelTypeOK, QueueExact
<1>2. CASE sending[p] # <<>> /\ sender = Head(sending[p])
  <2>1. 1 \in DOMAIN sending[p] /\ sending[p][1] = sender
    BY <1>1, <1>2, EmptySeq, LenProperties
  <2> QED BY <1>1, <2>1 DEF KernelInv, QueueExact, Occurs
<1>3. CASE Sending(sender) /\ sendto[sender] = p
  BY <1>1, <1>3 DEF KernelInv, QueueExact
<1> QED BY <1>2, <1>3 DEF CanCopy

\* The sender that is taken leaves the list, and it alone is woken.
LEMMA ReceivesQueuedKeeps ==
    ASSUME KernelInv, NEW p \in Proc, NEW sender \in Proc, NEW source,
           process_flags[p] = {}, ReceivesQueued(p, source, sender)
    PROVE  KernelInv'
<1> USE DEF ReceivesQueued, SENDING, RECEIVING
<1>1. /\ Sending(sender) /\ sendto[sender] = p
      /\ Occurs(sender, sending[p]) /\ Distinct(sending[p])
      /\ sending[p] \in Seq(Proc)
  BY CopiedFromASender
<1>2. /\ sending'[p] \in Seq(Proc)
      /\ Distinct(sending'[p])
      /\ \A x : Occurs(x, sending'[p]) <=> (Occurs(x, sending[p]) /\ x # sender)
  <2>1. sending'[p] = Unlinked(sending[p], sender)
    BY DEF KernelInv, KernelTypeOK
  <2> QED BY <1>1, <2>1, UnlinkedOccurs
<1>3. \A q \in Proc \ {p} : sending'[q] = sending[q]
  BY DEF KernelInv, KernelTypeOK
<1>4. /\ \A x \in Proc : Sending(x)' <=> (Sending(x) /\ x # sender)
      /\ \A x \in Proc : Receiving(x)' <=> Receiving(x)
      /\ \A x \in Proc \ {sender} : process_flags'[x] = process_flags[x]
                                  /\ sendto'[x] = sendto[x] /\ msg'[x] = msg[x]
      /\ sendto'[sender] = SR_TARGET_NONE /\ ~msg'[sender]
  BY DEF KernelInv, KernelTypeOK, Sending, Receiving
<1>5. ~Receiving(sender) /\ process_flags'[sender] = {}
  BY <1>1 DEF KernelInv, KernelTypeOK, StatusConsistent, Sending, Receiving
<1>6. KernelTypeOK'
  BY <1>2 DEF KernelInv, KernelTypeOK
<1>7. QueueExact'
  <2>1. ASSUME NEW q \in Proc, NEW x \in Proc
        PROVE  /\ Distinct(sending'[q])
               /\ Occurs(x, sending'[q]) <=> (Sending(x)' /\ sendto'[x] = q)
    <3>1. CASE q = p
      BY <3>1, <1>1, <1>2, <1>4 DEF KernelInv, QueueExact
    <3>2. CASE q # p
      BY <3>2, <1>1, <1>3, <1>4 DEF KernelInv, QueueExact
    <3> QED BY <3>1, <3>2
  <2> QED BY <2>1 DEF QueueExact
<1>8. StatusConsistent'
  BY <1>1, <1>4, <1>5 DEF KernelInv, StatusConsistent
<1>9. NoMissedRendezvous' /\ NoMissedInterrupt'
  BY <1>4 DEF KernelInv, NoMissedRendezvous, NoMissedInterrupt, WaitsFor
<1>10. NoSendCycle'
  BY <1>4 DEF KernelInv, NoSendCycle
<1> QED BY <1>6, <1>7, <1>8, <1>9, <1>10 DEF KernelInv

\* Nobody in the list and no recorded interrupt is what the receiver waits for.
LEMMA ReceiveBlocksKeeps ==
    ASSUME KernelInv, NEW p \in Proc, NEW m \in Message,
           NEW source \in (Proc \ {p}) \cup {SR_TARGET_ANY, SR_TARGET_INTERRUPT},
           process_flags[p] = {}, ReceiveBlocks(p, source, m)
    PROVE  KernelInv'
<1> USE DEF ReceiveBlocks, SENDING, RECEIVING
<1>0. /\ ~Sending(p) /\ ~Receiving(p) /\ ~msg[p]
      /\ sendto[p] = SR_TARGET_NONE /\ recvfrom[p] = SR_TARGET_NONE
  BY FreeProcess
<1>1. /\ \A x \in Proc : Sending(x)' <=> Sending(x)
      /\ \A x \in Proc : Receiving(x)' <=> (Receiving(x) \/ x = p)
      /\ \A x \in Proc \ {p} : process_flags'[x] = process_flags[x]
                             /\ recvfrom'[x] = recvfrom[x] /\ msg'[x] = msg[x]
      /\ process_flags'[p] # {} /\ recvfrom'[p] = source /\ msg'[p]
  BY DEF KernelInv, KernelTypeOK, Sending, Receiving
<1>2. KernelTypeOK'
  BY DEF KernelInv, KernelTypeOK, Sentinel
<1>3. QueueExact' /\ NoSendCycle'
  BY <1>1 DEF KernelInv, QueueExact, NoSendCycle
<1>4. StatusConsistent'
  <2>1. source # SR_TARGET_NONE
    BY TargetAssumption DEF Sentinel
  <2> QED BY <1>0, <1>1, <2>1 DEF KernelInv, StatusConsistent
<1>5. NoMissedRendezvous'
  <2> SUFFICES ASSUME NEW x \in Proc, Sending(x), sendto[x] = p
               PROVE  source \notin {x, SR_TARGET_ANY}
    BY <1>0, <1>1 DEF KernelInv, NoMissedRendezvous, WaitsFor
  <2>1. sending[p] # <<>> /\ sending[p] \in Seq(Proc)
    BY DEF KernelInv, KernelTypeOK, QueueExact, Occurs
  <2>2. Head(sending[p]) \in Proc
    BY <2>1, HeadTailProperties
  <2>3. source # SR_TARGET_ANY
    BY <2>1, <2>2 DEF CanCopy
  <2>4. source # x
    BY DEF CanCopy
  <2> QED BY <2>3, <2>4
<1>6. NoMissedInterrupt'
  <2>1. has_int_msg[p] => source \notin {SR_TARGET_INTERRUPT, SR_TARGET_ANY}
    BY DEF TakesInterrupt
  <2> QED BY <1>1, <2>1 DEF KernelInv, NoMissedInterrupt, WaitsFor
<1> QED BY <1>2, <1>3, <1>4, <1>5, <1>6 DEF KernelInv

\* An interrupt handler wakes a process that waits, or records the interrupt.
LEMMA InformInterruptKeeps ==
    ASSUME KernelInv, NEW t \in Proc, process_inform_interrupt(t),
           UNCHANGED panicked
    PROVE  KernelInv'
<1> USE DEF process_inform_interrupt, SENDING, RECEIVING
<1>1. CASE WaitsFor(t, SR_TARGET_INTERRUPT)
  <2>1. ~Sending(t) /\ Receiving(t)
    BY <1>1 DEF KernelInv, StatusConsistent, WaitsFor
  <2>2. /\ msg' = [msg EXCEPT ![t] = FALSE]
        /\ has_int_msg' = [has_int_msg EXCEPT ![t] = FALSE]
        /\ process_flags' = [process_flags EXCEPT ![t] = @ \ {RECEIVING}]
        /\ recvfrom' = [recvfrom EXCEPT ![t] = SR_TARGET_NONE]
        /\ UNCHANGED <<sendto, sending>>
    BY <1>1
  <2>3. KernelTypeOK
    BY DEF KernelInv
  <2>4. /\ \A x \in Proc : Sending(x)' <=> Sending(x)
        /\ \A x \in Proc : Receiving(x)' <=> (Receiving(x) /\ x # t)
        /\ \A x \in Proc \ {t} : process_flags'[x] = process_flags[x]
                               /\ recvfrom'[x] = recvfrom[x] /\ msg'[x] = msg[x]
                               /\ has_int_msg'[x] = has_int_msg[x]
        /\ process_flags'[t] = {} /\ recvfrom'[t] = SR_TARGET_NONE /\ ~msg'[t]
        /\ UNCHANGED <<sendto, sending>>
    <3> HIDE DEF process_inform_interrupt
    <3> QED BY <2>1, <2>2, <2>3 DEF KernelTypeOK, Sending, Receiving
  <2>5. KernelTypeOK'
    <3>1. [source |-> SR_TARGET_INTERRUPT, body |-> HardInt] \in Message
      BY DEF Message
    <3>2. SR_TARGET_NONE \in Proc \cup Sentinel
      BY DEF Sentinel
    <3>3. buffer' \in [Proc -> Message]
      BY <1>1, <3>1 DEF KernelInv, KernelTypeOK, Overwritten
    <3> QED BY <1>1, <3>2, <3>3, ZenonT(40) DEF KernelInv, KernelTypeOK
  <2>6. QueueExact' /\ NoSendCycle'
    BY <2>4 DEF KernelInv, QueueExact, NoSendCycle
  <2>7. StatusConsistent'
    BY <2>1, <2>4 DEF KernelInv, StatusConsistent
  <2>8. NoMissedRendezvous' /\ NoMissedInterrupt'
    BY <2>4 DEF KernelInv, NoMissedRendezvous, NoMissedInterrupt, WaitsFor
  <2> QED BY <2>5, <2>6, <2>7, <2>8 DEF KernelInv
<1>2. CASE ~WaitsFor(t, SR_TARGET_INTERRUPT)
  <2>1. KernelTypeOK'
    BY <1>2 DEF KernelInv, KernelTypeOK
  <2>2. QueueExact' /\ StatusConsistent' /\ NoMissedRendezvous' /\ NoSendCycle'
    BY <1>2 DEF KernelInv, QueueExact, StatusConsistent, NoMissedRendezvous,
                NoSendCycle, Sending, Receiving, WaitsFor
  <2>3. NoMissedInterrupt'
    BY <1>2 DEF KernelInv, KernelTypeOK, NoMissedInterrupt, Receiving, WaitsFor
  <2> QED BY <2>1, <2>2, <2>3 DEF KernelInv
<1> QED BY <1>1, <1>2

-----------------------------------------------------------------------------
(* The system call and the specification.                                  *)

\* A process never calls itself, so it does not wait for its own reply either.
IInv == KernelInv /\ TypeOK /\ \A p \in Proc : pending[p] # p

\* All three outcomes of message_send.
LEMMA MessageSendKeeps ==
    ASSUME KernelInv, NEW p \in Proc, NEW dest \in Proc \ {p}, NEW m \in Message,
           process_flags[p] = {}, message_send(p, dest, m)
    PROVE  KernelInv'
BY SendPanicsKeeps, SendDeliversKeeps, SendBlocksKeeps DEF message_send

\* All three outcomes of message_receive.
LEMMA MessageReceiveKeeps ==
    ASSUME KernelInv, NEW p \in Proc, NEW m \in Message,
           NEW source \in (Proc \ {p}) \cup {SR_TARGET_ANY, SR_TARGET_INTERRUPT},
           process_flags[p] = {}, message_receive(p, source, m)
    PROVE  KernelInv'
BY ReceivesInterruptKeeps, ReceivesQueuedKeeps, ReceiveBlocksKeeps
   DEF message_receive

\* At the start no process is blocked and every list is empty.
LEMMA InitIInv == Init => IInv
<1> SUFFICES ASSUME Init PROVE IInv
  OBVIOUS
<1> USE DEF Init, SENDING, RECEIVING
<1>1. TypeOK
  BY EmptySeq DEF TypeOK, KernelTypeOK, Sentinel, Message
<1>2. QueueExact
  BY EmptySeq DEF QueueExact, Occurs, Distinct, Sending
<1>3. StatusConsistent /\ NoMissedRendezvous /\ NoMissedInterrupt /\ NoSendCycle
  BY DEF StatusConsistent, NoMissedRendezvous, NoMissedInterrupt, NoSendCycle,
         Sending, Receiving, WaitsFor
<1> QED BY <1>1, <1>2, <1>3, TargetAssumption
        DEF IInv, KernelInv, TypeOK, Sentinel

\* The invariant is inductive: every system call and interrupt keeps it.
LEMMA NextIInv == IInv /\ [Next]_vars => IInv'
<1> SUFFICES ASSUME IInv, [Next]_vars PROVE IInv'
  OBVIOUS
<1>1. ASSUME NEW p \in Proc, NEW dest \in Proc \ {p}, NEW b \in Body,
             Send(p, dest, b) \/ SendBoth(p, dest, b)
      PROVE  IInv'
  <2>1. [source |-> p, body |-> b] \in Message
    BY DEF Message
  <2>2. KernelInv'
    BY <1>1, <2>1, MessageSendKeeps DEF IInv, Send, SendBoth, Runnable
  <2> QED BY <1>1, <2>2 DEF IInv, KernelInv, TypeOK, Send, SendBoth
<1>2. ASSUME NEW p \in Proc, ReceiveReply(p)
      PROVE  IInv'
  <2>1. [buffer[p] EXCEPT !.source = p] \in Message
    BY DEF IInv, KernelInv, KernelTypeOK, Message
  <2>2. pending[p] \in Proc \ {p}
    BY <1>2 DEF IInv, TypeOK, ReceiveReply
  <2>3. KernelInv'
    BY <1>2, <2>1, <2>2, MessageReceiveKeeps DEF IInv, ReceiveReply, Runnable
  <2>4. \A x \in Proc : pending'[x] # x
    BY <1>2, TargetAssumption DEF IInv, TypeOK, ReceiveReply, Sentinel
  <2> QED BY <1>2, <2>3, <2>4 DEF IInv, KernelInv, TypeOK, ReceiveReply
<1>3. ASSUME NEW p \in Proc,
             NEW source \in (Proc \ {p}) \cup {SR_TARGET_ANY, SR_TARGET_INTERRUPT},
             Receive(p, source)
      PROVE  IInv'
  <2>1. [source |-> p, body |-> Zeroed] \in Message
    BY DEF Message
  <2>2. KernelInv'
    BY <1>3, <2>1, MessageReceiveKeeps DEF IInv, Receive, Runnable
  <2> QED BY <1>3, <2>2 DEF IInv, KernelInv, TypeOK, Receive
<1>4. ASSUME NEW t \in IntTarget, Interrupt(t)
      PROVE  IInv'
  <2>1. KernelInv'
    BY <1>4, ProcAssumption, InformInterruptKeeps DEF IInv, Interrupt
  <2> QED BY <1>4, <2>1 DEF IInv, KernelInv, TypeOK, Interrupt
<1>5. CASE UNCHANGED vars
  BY <1>5 DEF vars, kernelVars, IInv, KernelInv, TypeOK, KernelTypeOK, QueueExact,
              StatusConsistent, NoMissedRendezvous, NoMissedInterrupt, NoSendCycle,
              Sending, Receiving, WaitsFor
<1> QED BY <1>1, <1>2, <1>3, <1>4, <1>5 DEF Next

\* The invariant holds in every state.
LEMMA Invariance == Spec => []IInv
BY InitIInv, NextIInv, PTL DEF Spec

\* The process table and the messages keep their types.
THEOREM TypeCorrect == Spec => []TypeOK
BY Invariance, PTL DEF IInv

\* The list of a process is exactly the set of processes blocked sending to it.
THEOREM QueuesAreExact == Spec => []QueueExact
BY Invariance, PTL DEF IInv, KernelInv

\* Flags, message pointer and partners agree after every call.
THEOREM StatusIsConsistent == Spec => []StatusConsistent
BY Invariance, PTL DEF IInv, KernelInv

\* No sender and receiver that want each other are both blocked.
THEOREM RendezvousIsNeverMissed == Spec => []NoMissedRendezvous
BY Invariance, PTL DEF IInv, KernelInv

\* No process is blocked waiting for an interrupt that was recorded.
THEOREM InterruptIsNeverMissed == Spec => []NoMissedInterrupt
BY Invariance, PTL DEF IInv, KernelInv

\* process_check_deadlock keeps blocked senders from forming a cycle.
THEOREM SendersNeverCycle == Spec => []NoSendCycle
BY Invariance, PTL DEF IInv, KernelInv

-----------------------------------------------------------------------------
(* First come, first served.                                               *)

\* Receiving from anybody takes a process that nobody waits before.
LEMMA HeadIsNotBehind ==
    ASSUME NEW S, NEW list \in Seq(S), Distinct(list), list # <<>>,
           NEW x, NEW y, Ahead(list, x, y)
    PROVE  y # Head(list)
<1>1. DOMAIN list = 1 .. Len(list) /\ Len(list) \in Nat
  BY LenProperties
<1>2. PICK i \in 1 .. Len(list), j \in 1 .. Len(list) :
         i < j /\ list[i] = x /\ list[j] = y
  BY <1>1 DEF Ahead
<1>3. 1 \in DOMAIN list /\ j # 1 /\ Head(list) = list[1]
  BY <1>1, <1>2
<1> QED BY <1>1, <1>2, <1>3 DEF Distinct

\* While x waits, the one call that serves y behind it names y.
LEMMA ServedInOrder ==
    ASSUME KernelInv, NEW p \in Proc, NEW source, NEW m,
           message_receive(p, source, m),
           NEW q \in Proc, NEW x \in Proc, NEW y \in Proc, Ahead(sending[q], x, y)
    PROVE  \/ Ahead(sending[q], x, y)'
           \/ sendto'[x] = SR_TARGET_NONE
           \/ sendto'[y] = SR_TARGET_NONE /\ q = p /\ source = y
<1>1. CASE ReceivesInterrupt(p, source) \/ ReceiveBlocks(p, source, m)
  BY <1>1 DEF ReceivesInterrupt, ReceiveBlocks
<1>2. ASSUME NEW sender \in Proc, ReceivesQueued(p, source, sender)
      PROVE  \/ Ahead(sending[q], x, y)'
             \/ sendto'[x] = SR_TARGET_NONE
             \/ sendto'[y] = SR_TARGET_NONE /\ q = p /\ source = y
  <2>1. /\ CanCopy(p, source, sender)
        /\ sending' = [sending EXCEPT ![p] = Unlinked(sending[p], sender)]
        /\ sendto' = [sendto EXCEPT ![sender] = SR_TARGET_NONE]
    BY <1>2 DEF ReceivesQueued
  <2>2. KernelTypeOK
    BY DEF KernelInv
  <2>3. sendto'[sender] = SR_TARGET_NONE
    BY <2>1, <2>2 DEF KernelTypeOK
  <2>4. CASE q # p
    <3>1. sending'[q] = sending[q]
      BY <2>1, <2>2, <2>4 DEF KernelTypeOK
    <3> QED BY <3>1
  <2>5. CASE q = p /\ sender # x /\ sender # y
    <3>1. /\ Occurs(sender, sending[p]) /\ Distinct(sending[p])
          /\ sending[p] \in Seq(Proc)
      BY <2>1, CopiedFromASender
    <3>2. sending'[q] = Unlinked(sending[p], sender)
      BY <2>1, <2>2, <2>5 DEF KernelTypeOK
    <3>3. Ahead(sending'[q], x, y)
      BY <2>5, <3>1, <3>2, UnlinkedOccurs
    <3> QED BY <3>3
  <2>6. CASE sender = x
    BY <2>3, <2>6
  <2>7. CASE q = p /\ sender = y
    <3>1. CASE sending[p] # <<>> /\ sender = Head(sending[p])
      <4>1. Distinct(sending[p]) /\ sending[p] \in Seq(Proc)
        BY <2>1, CopiedFromASender
      <4> QED BY <2>7, <3>1, <4>1, HeadIsNotBehind
    <3>2. CASE source = sender
      BY <2>3, <2>7, <3>2
    <3> QED BY <2>1, <3>1, <3>2 DEF CanCopy
  <2> QED BY <2>4, <2>5, <2>6, <2>7
<1> QED BY <1>1, <1>2 DEF message_receive

\* Sending never changes the order of those that wait.
LEMMA SendKeepsOrder ==
    ASSUME KernelInv, NEW p \in Proc, NEW dest \in Proc, NEW m,
           process_flags[p] = {}, message_send(p, dest, m),
           NEW q \in Proc, NEW x \in Proc, NEW y \in Proc, Ahead(sending[q], x, y)
    PROVE  Ahead(sending[q], x, y)'
<1>1. CASE SendPanics(p, dest, m) \/ SendDelivers(p, dest, m)
  BY <1>1 DEF SendPanics, SendDelivers, kernelVars
<1>2. CASE SendBlocks(p, dest, m)
  <2>1. sending' = [sending EXCEPT ![dest] = Append(sending[dest], p)]
    BY <1>2 DEF SendBlocks
  <2>2. /\ ~Occurs(p, sending[dest]) /\ Distinct(sending[dest])
        /\ sending \in [Proc -> Seq(Proc)]
    BY FreeProcess DEF KernelInv, KernelTypeOK, QueueExact
  <2>3. CASE q = dest
    <3>1. sending'[q] = Append(sending[q], p)
      BY <2>1, <2>2, <2>3
    <3>2. Ahead(sending'[q], x, y)
      BY <2>2, <2>3, <3>1, AppendOccurs
    <3> QED BY <3>2
  <2>4. CASE q # dest
    <3>1. sending'[q] = sending[q]
      BY <2>1, <2>2, <2>4
    <3> QED BY <3>1
  <2> QED BY <2>3, <2>4
<1> QED BY <1>1, <1>2 DEF message_send

\* A receive from anybody leaves those alone that are not at the head.
LEMMA AnyServesTheHead ==
    ASSUME KernelInv, NEW q \in Proc, Receive(q, SR_TARGET_ANY),
           NEW x \in Proc, NEW y \in Proc, Ahead(sending[q], x, y)
    PROVE  sendto'[y] = q
<1>1. sendto[y] = q
  <2>1. Occurs(y, sending[q])
    BY DEF Ahead, Occurs
  <2> QED BY <2>1 DEF KernelInv, QueueExact
<1>2. message_receive(q, SR_TARGET_ANY, [source |-> q, body |-> Zeroed])
  BY DEF Receive
<1>3. ASSUME NEW sender \in Proc, ReceivesQueued(q, SR_TARGET_ANY, sender)
      PROVE  sendto'[y] = q
  <2>1. /\ CanCopy(q, SR_TARGET_ANY, sender)
        /\ sendto' = [sendto EXCEPT ![sender] = SR_TARGET_NONE]
    BY <1>3 DEF ReceivesQueued
  <2>2. sending[q] # <<>> /\ sender = Head(sending[q])
    BY <2>1, TargetAssumption DEF CanCopy, Sentinel
  <2>3. Distinct(sending[q]) /\ sending[q] \in Seq(Proc)
    BY <2>1, CopiedFromASender
  <2>4. y # sender
    BY <2>2, <2>3, HeadIsNotBehind
  <2> QED BY <1>1, <2>1, <2>4 DEF KernelInv, KernelTypeOK
<1> QED BY <1>1, <1>2, <1>3
       DEF message_receive, ReceivesInterrupt, ReceiveBlocks

\* A sender is passed only when the receiver asks for another one by name.
THEOREM ServesInOrder == Spec => FirstComeFirstServed
<1>1. IInv /\ [Next]_vars =>
        [\A q, x, y \in Proc :
          Ahead(sending[q], x, y) =>
              /\ \/ Ahead(sending[q], x, y)'
                 \/ sendto'[x] = SR_TARGET_NONE
                 \/ /\ sendto'[y] = SR_TARGET_NONE
                    /\ Receive(q, y) \/ pending[q] = y
              /\ Receive(q, SR_TARGET_ANY) => sendto'[y] = q]_vars
  <2> SUFFICES ASSUME IInv, Next,
                      NEW q \in Proc, NEW x \in Proc, NEW y \in Proc,
                      Ahead(sending[q], x, y)
               PROVE  /\ \/ Ahead(sending[q], x, y)'
                         \/ sendto'[x] = SR_TARGET_NONE
                         \/ /\ sendto'[y] = SR_TARGET_NONE
                            /\ Receive(q, y) \/ pending[q] = y
                      /\ Receive(q, SR_TARGET_ANY) => sendto'[y] = q
    OBVIOUS
  <2>1. ASSUME NEW p \in Proc, NEW dest \in Proc \ {p}, NEW b \in Body,
               Send(p, dest, b) \/ SendBoth(p, dest, b)
        PROVE  Ahead(sending[q], x, y)'
    BY <2>1, SendKeepsOrder DEF IInv, Send, SendBoth, Runnable
  <2>2. ASSUME NEW p \in Proc, ReceiveReply(p)
        PROVE  \/ Ahead(sending[q], x, y)'
               \/ sendto'[x] = SR_TARGET_NONE
               \/ sendto'[y] = SR_TARGET_NONE /\ pending[q] = y
    BY <2>2, ServedInOrder DEF IInv, ReceiveReply
  <2>3. ASSUME NEW p \in Proc, NEW source, Receive(p, source)
        PROVE  \/ Ahead(sending[q], x, y)'
               \/ sendto'[x] = SR_TARGET_NONE
               \/ sendto'[y] = SR_TARGET_NONE /\ Receive(q, y)
    <3>1. message_receive(p, source, [source |-> p, body |-> Zeroed])
      BY <2>3 DEF Receive
    <3>2. \/ Ahead(sending[q], x, y)'
          \/ sendto'[x] = SR_TARGET_NONE
          \/ sendto'[y] = SR_TARGET_NONE /\ q = p /\ source = y
      BY <3>1, ServedInOrder DEF IInv
    <3> QED BY <2>3, <3>2
  <2>4. ASSUME NEW t \in IntTarget, Interrupt(t)
        PROVE  Ahead(sending[q], x, y)'
    BY <2>4 DEF Interrupt, process_inform_interrupt
  <2>5. Receive(q, SR_TARGET_ANY) => sendto'[y] = q
    BY AnyServesTheHead DEF IInv
  <2> QED BY <2>1, <2>2, <2>3, <2>4, <2>5 DEF Next
<1> QED BY <1>1, Invariance, PTL DEF Spec, FirstComeFirstServed

-----------------------------------------------------------------------------
(* What the calls of Ipc do to who waits for whom.                         *)

\* p is blocked sending to q; q is blocked waiting for p, or for anybody.
Offers(p, q)   == Sending(p) /\ sendto[p] = q
Waiting(q, p)  == process_flags[q] = {RECEIVING} /\ recvfrom[q] = p
Free(p)        == process_flags[p] = {}

SameBut(p) ==
    \A x \in Proc \ {p} :
        /\ Free(x)' <=> Free(x)
        /\ \A y : Waiting(x, y)' <=> Waiting(x, y)

\* A process that is free, or waits, is not blocked sending.
LEMMA NotSending ==
    ASSUME KernelInv, NEW p \in Proc
    PROVE  /\ Free(p) => ~Sending(p) /\ ~Receiving(p)
           /\ \A y : Waiting(p, y) => ~Sending(p) /\ Receiving(p) /\ ~Free(p)
           /\ Sending(p) => ~Free(p) /\ \A y : ~Waiting(p, y)
           /\ Receiving(p) => Waiting(p, recvfrom[p])
  <1>1. process_flags[p] \in SUBSET {SENDING, RECEIVING} /\ ~(Sending(p) /\ Receiving(p))
    BY DEF KernelInv, KernelTypeOK, StatusConsistent
  <1>2. SENDING # RECEIVING
    BY DEF SENDING, RECEIVING
  <1> QED BY <1>1, <1>2 DEF Free, Waiting, Sending, Receiving

\* Nothing is different when the variables of Ipc are the same.
LEMMA SameIpc ==
    ASSUME UNCHANGED kernelVars
    PROVE  /\ \A x : Free(x)' <=> Free(x)
           /\ \A x, y : Waiting(x, y)' <=> Waiting(x, y)
           /\ \A x, y : Offers(x, y)' <=> Offers(x, y)
           /\ UNCHANGED has_int_msg
  BY DEF kernelVars, Free, Waiting, Offers, Sending

\* The kernel does not mind what the buffers hold.
LEMMA SameKernelInv ==
    ASSUME KernelInv, UNCHANGED kernelVars, buffer' \in [Proc -> Message],
           panicked' \in BOOLEAN
    PROVE  KernelInv'
  <1>1. UNCHANGED <<process_flags, msg, recvfrom, sendto, has_int_msg, sending>>
    BY DEF kernelVars
  <1>2. KernelTypeOK'
    BY <1>1 DEF KernelInv, KernelTypeOK
  <1>3. /\ QueueExact' /\ StatusConsistent' /\ NoMissedRendezvous'
        /\ NoMissedInterrupt' /\ NoSendCycle'
    BY <1>1 DEF KernelInv, QueueExact, StatusConsistent, NoMissedRendezvous,
                NoMissedInterrupt, NoSendCycle, Sending, Receiving, WaitsFor
  <1> QED BY <1>2, <1>3 DEF KernelInv

\* What becomes of a message: the system stops, or the message arrives, or the
\* sender blocks.
LEMMA SendResult ==
    ASSUME KernelInv, NEW p \in Proc, NEW dest \in Proc \ {p}, NEW m \in Message,
           Free(p), message_send(p, dest, m)
    PROVE  /\ KernelInv'
           /\ UNCHANGED has_int_msg
           /\ buffer'[p] = m
           /\ \A x \in Proc \ {p, dest} : buffer'[x] = buffer[x]
           /\ \/ SendPanics(p, dest, m) /\ buffer'[dest] = buffer[dest]
              \/ /\ UNCHANGED panicked
                 /\ Waiting(dest, p) \/ Waiting(dest, SR_TARGET_ANY)
                 /\ Free(p)' /\ Free(dest)' /\ buffer'[dest] = m
                 /\ SameBut(dest)
                 /\ \A x, y \in Proc : Offers(x, y)' <=> Offers(x, y)
              \/ /\ UNCHANGED panicked
                 /\ ~Waiting(dest, p) /\ ~Waiting(dest, SR_TARGET_ANY)
                 /\ buffer'[dest] = buffer[dest]
                 /\ SameBut(p)
                 /\ \A x, y \in Proc :
                       Offers(x, y)' <=> Offers(x, y) \/ (x = p /\ y = dest)
  <1>1. KernelInv'
    BY MessageSendKeeps DEF Free
  <1>2. KernelTypeOK
    BY DEF KernelInv
  <1>4. SENDING # RECEIVING
    BY DEF SENDING, RECEIVING
  <1>5. ~Sending(p) /\ ~Receiving(p)
    BY NotSending
  <1>6. CASE SendDelivers(p, dest, m)
    <2>1. /\ WaitsFor(dest, p)
          /\ buffer' = [buffer EXCEPT ![p] = m, ![dest] = m]
          /\ process_flags' = [process_flags EXCEPT ![dest] = @ \ {RECEIVING}]
          /\ recvfrom' = [recvfrom EXCEPT ![dest] = SR_TARGET_NONE]
          /\ UNCHANGED <<sendto, has_int_msg, sending, panicked>>
      BY <1>6 DEF SendDelivers
    <2>2. process_flags[dest] = {RECEIVING} /\ recvfrom[dest] \in {p, SR_TARGET_ANY}
      BY <2>1, NotSending DEF WaitsFor, Waiting
    <2>3. /\ process_flags'[dest] = {}
          /\ \A x \in Proc \ {dest} :
                process_flags'[x] = process_flags[x] /\ recvfrom'[x] = recvfrom[x]
          /\ buffer'[p] = m /\ buffer'[dest] = m
          /\ \A x \in Proc \ {p, dest} : buffer'[x] = buffer[x]
      BY <1>2, <2>1, <2>2 DEF KernelTypeOK
    <2>4. \A x \in Proc : Sending(x)' <=> Sending(x)
      BY <1>4, <2>2, <2>3 DEF Sending
    <2>5. Free(p)' /\ Free(dest)' /\ SameBut(dest)
      BY <2>3 DEF Free, Waiting, SameBut
    <2>6. \A x, y \in Proc : Offers(x, y)' <=> Offers(x, y)
      BY <2>1, <2>4 DEF Offers
    <2> QED BY <1>1, <2>1, <2>2, <2>3, <2>5, <2>6 DEF Waiting
  <1>7. CASE SendBlocks(p, dest, m)
    <2>1. /\ ~WaitsFor(dest, p)
          /\ process_flags' = [process_flags EXCEPT ![p] = @ \cup {SENDING}]
          /\ sendto' = [sendto EXCEPT ![p] = dest]
          /\ buffer' = [buffer EXCEPT ![p] = m]
          /\ UNCHANGED <<recvfrom, has_int_msg, panicked>>
      BY <1>7 DEF SendBlocks
    <2>2. ~Waiting(dest, p) /\ ~Waiting(dest, SR_TARGET_ANY)
      BY <2>1 DEF WaitsFor, Waiting, Receiving
    <2>3. /\ SENDING \in process_flags'[p] /\ sendto'[p] = dest
          /\ \A x \in Proc \ {p} :
                process_flags'[x] = process_flags[x] /\ sendto'[x] = sendto[x]
          /\ buffer'[p] = m
          /\ \A x \in Proc \ {p} : buffer'[x] = buffer[x]
      BY <1>2, <2>1 DEF KernelTypeOK
    <2>4. SameBut(p)
      BY <2>1, <2>3 DEF Free, Waiting, SameBut
    <2>5. \A x, y \in Proc : Offers(x, y)' <=> Offers(x, y) \/ (x = p /\ y = dest)
      BY <1>5, <2>3 DEF Offers, Sending
    <2> QED BY <1>1, <2>1, <2>2, <2>3, <2>4, <2>5
  <1>8. CASE SendPanics(p, dest, m)
    <2>1. /\ UNCHANGED has_int_msg
          /\ buffer'[p] = m
          /\ \A x \in Proc \ {p} : buffer'[x] = buffer[x]
      BY <1>2, <1>8 DEF SendPanics, kernelVars, KernelTypeOK
    <2> QED BY <1>1, <1>8, <2>1
  <1> QED BY <1>6, <1>7, <1>8 DEF message_send

\* A message is sent to a process that is not blocked sending itself: there is
\* no cycle to be found, and it arrives or the sender blocks.
LEMMA SendOutcome ==
    ASSUME KernelInv, NEW p \in Proc, NEW dest \in Proc \ {p}, NEW m \in Message,
           Free(p), ~Sending(dest), message_send(p, dest, m)
    PROVE  /\ KernelInv'
           /\ UNCHANGED <<has_int_msg, panicked>>
           /\ buffer'[p] = m
           /\ \A x \in Proc \ {p, dest} : buffer'[x] = buffer[x]
           /\ \/ /\ Waiting(dest, p) \/ Waiting(dest, SR_TARGET_ANY)
                 /\ Free(p)' /\ Free(dest)' /\ buffer'[dest] = m
                 /\ SameBut(dest)
                 /\ \A x, y \in Proc : Offers(x, y)' <=> Offers(x, y)
              \/ /\ ~Waiting(dest, p) /\ ~Waiting(dest, SR_TARGET_ANY)
                 /\ buffer'[dest] = buffer[dest]
                 /\ SameBut(p)
                 /\ \A x, y \in Proc :
                       Offers(x, y)' <=> Offers(x, y) \/ (x = p /\ y = dest)
  <1>1. ~process_check_deadlock(p, dest)
    <2>1. FollowsSendto({dest})
      BY DEF FollowsSendto
    <2> QED BY <2>1 DEF process_check_deadlock
  <1>2. ~SendPanics(p, dest, m)
    BY <1>1 DEF SendPanics
  <1> QED BY <1>2, SendResult

\* A message is received by a process for which no interrupt is recorded: from
\* one that was blocked sending it, or the receiver blocks.
LEMMA ReceiveOutcome ==
    ASSUME KernelInv, NEW p \in Proc, NEW m \in Message,
           NEW source \in (Proc \ {p}) \cup {SR_TARGET_ANY, SR_TARGET_INTERRUPT},
           Free(p), ~panicked, ~has_int_msg[p], message_receive(p, source, m)
    PROVE  /\ KernelInv'
           /\ UNCHANGED <<has_int_msg, panicked>>
           /\ \A x \in Proc \ {p} : buffer'[x] = buffer[x]
           /\ \/ \E sender \in Proc :
                    /\ Offers(sender, p) /\ source \in {sender, SR_TARGET_ANY}
                    /\ Free(p)' /\ Free(sender)' /\ buffer'[p] = buffer[sender]
                    /\ SameBut(sender)
                    /\ \A x, y \in Proc :
                          Offers(x, y)' <=> Offers(x, y) /\ x # sender
              \/ /\ \A x \in Proc : Offers(x, p) => source \notin {x, SR_TARGET_ANY}
                 /\ Waiting(p, source)' /\ buffer'[p] = m
                 /\ SameBut(p)
                 /\ \A x, y \in Proc : Offers(x, y)' <=> Offers(x, y)
  <1>1. KernelInv'
    BY MessageReceiveKeeps DEF Free
  <1>2. KernelTypeOK
    BY DEF KernelInv
  <1>3. SENDING # RECEIVING
    BY DEF SENDING, RECEIVING
  <1>4. ~Sending(p) /\ ~Receiving(p)
    BY NotSending
  <1>5. ASSUME NEW sender \in Proc, ReceivesQueued(p, source, sender)
        PROVE  /\ UNCHANGED <<has_int_msg, panicked>>
               /\ \A x \in Proc \ {p} : buffer'[x] = buffer[x]
               /\ Offers(sender, p) /\ source \in {sender, SR_TARGET_ANY}
               /\ Free(p)' /\ Free(sender)' /\ buffer'[p] = buffer[sender]
               /\ SameBut(sender)
               /\ \A x, y \in Proc : Offers(x, y)' <=> Offers(x, y) /\ x # sender
    <2>1. /\ CanCopy(p, source, sender)
          /\ buffer' = [buffer EXCEPT ![p] = buffer[sender]]
          /\ sendto' = [sendto EXCEPT ![sender] = SR_TARGET_NONE]
          /\ process_flags' = [process_flags EXCEPT ![sender] = @ \ {SENDING}]
          /\ UNCHANGED <<recvfrom, has_int_msg, panicked>>
      BY <1>5 DEF ReceivesQueued
    <2>2. Offers(sender, p) /\ source \in {sender, SR_TARGET_ANY}
      BY <2>1, CopiedFromASender DEF Offers, CanCopy
    <2>3. sender # p /\ ~Receiving(sender)
      BY <1>4, <2>2, NotSending DEF Offers, KernelInv, StatusConsistent
    <2>4. /\ process_flags'[sender] = {}
          /\ \A x \in Proc \ {sender} :
                process_flags'[x] = process_flags[x] /\ sendto'[x] = sendto[x]
          /\ buffer'[p] = buffer[sender]
          /\ \A x \in Proc \ {p} : buffer'[x] = buffer[x]
      BY <1>2, <2>1, <2>3 DEF KernelTypeOK, Receiving
    <2>5. Free(p)' /\ Free(sender)' /\ SameBut(sender)
      BY <2>1, <2>3, <2>4 DEF Free, Waiting, SameBut
    <2>6. \A x, y \in Proc : Offers(x, y)' <=> Offers(x, y) /\ x # sender
      BY <2>4 DEF Offers, Sending
    <2> QED BY <2>1, <2>2, <2>4, <2>5, <2>6
  <1>6. CASE ReceiveBlocks(p, source, m)
    <2>1. /\ ~\E sender \in Proc : CanCopy(p, source, sender)
          /\ process_flags' = [process_flags EXCEPT ![p] = @ \cup {RECEIVING}]
          /\ recvfrom' = [recvfrom EXCEPT ![p] = source]
          /\ buffer' = [buffer EXCEPT ![p] = m]
          /\ panicked' = has_int_msg[p]
          /\ UNCHANGED <<sendto, has_int_msg, sending>>
      BY <1>6 DEF ReceiveBlocks
    <2>2. \A x \in Proc : Offers(x, p) => source \notin {x, SR_TARGET_ANY}
      <3> SUFFICES ASSUME NEW x \in Proc, Sending(x), sendto[x] = p
                   PROVE  source \notin {x, SR_TARGET_ANY}
        BY DEF Offers
      <3>1. sending[p] # <<>> /\ sending[p] \in Seq(Proc)
        BY DEF KernelInv, KernelTypeOK, QueueExact, Occurs
      <3>2. Head(sending[p]) \in Proc
        BY <3>1, HeadTailProperties
      <3>3. source # SR_TARGET_ANY
        BY <2>1, <3>1, <3>2 DEF CanCopy
      <3>4. source # x
        BY <2>1 DEF CanCopy
      <3> QED BY <3>3, <3>4
    <2>3. /\ process_flags'[p] = {RECEIVING} /\ recvfrom'[p] = source
          /\ \A x \in Proc \ {p} :
                process_flags'[x] = process_flags[x] /\ recvfrom'[x] = recvfrom[x]
          /\ buffer'[p] = m
          /\ \A x \in Proc \ {p} : buffer'[x] = buffer[x]
      BY <1>2, <2>1 DEF KernelTypeOK, Free
    <2>4. Waiting(p, source)' /\ SameBut(p)
      BY <2>3 DEF Free, Waiting, SameBut
    <2>5. \A x \in Proc : Sending(x)' <=> Sending(x)
      BY <1>3, <1>4, <2>3 DEF Sending
    <2>6. \A x, y \in Proc : Offers(x, y)' <=> Offers(x, y)
      BY <2>1, <2>5 DEF Offers
    <2>7. UNCHANGED panicked
      <3>1. panicked \in BOOLEAN /\ has_int_msg[p] \in BOOLEAN
        BY <1>2 DEF KernelTypeOK
      <3> QED BY <2>1, <3>1
    <2> QED BY <1>1, <2>1, <2>2, <2>3, <2>4, <2>6, <2>7
  <1>7. ~ReceivesInterrupt(p, source)
    BY DEF ReceivesInterrupt, TakesInterrupt
  <1> QED BY <1>1, <1>5, <1>6, <1>7 DEF message_receive

\* A recorded interrupt is received at once.
LEMMA ReceivesInterruptOutcome ==
    ASSUME KernelInv, NEW p \in Proc, NEW source, Free(p), ReceivesInterrupt(p, source)
    PROVE  /\ KernelInv'
           /\ UNCHANGED panicked
           /\ \A x \in Proc \ {p} :
                 buffer'[x] = buffer[x] /\ has_int_msg'[x] = has_int_msg[x]
           /\ buffer'[p] = [source |-> SR_TARGET_INTERRUPT, body |-> HardInt]
           /\ \A x : Free(x)' <=> Free(x)
           /\ \A x, y : Waiting(x, y)' <=> Waiting(x, y)
           /\ \A x, y : Offers(x, y)' <=> Offers(x, y)
  <1>1. KernelInv'
    BY ReceivesInterruptKeeps DEF Free
  <1>2. /\ \A x \in Proc \ {p} :
              buffer'[x] = buffer[x] /\ has_int_msg'[x] = has_int_msg[x]
        /\ buffer'[p] = [source |-> SR_TARGET_INTERRUPT, body |-> HardInt]
    BY DEF KernelInv, KernelTypeOK, ReceivesInterrupt
  <1>3. UNCHANGED <<process_flags, recvfrom, sendto, panicked>>
    BY DEF ReceivesInterrupt
  <1> QED BY <1>1, <1>2, <1>3 DEF Free, Waiting, Offers, Sending

\* An interrupt finds its process waiting, and wakes it, or it is recorded.
LEMMA InformOutcome ==
    ASSUME KernelInv, NEW t \in Proc, process_inform_interrupt(t), UNCHANGED panicked
    PROVE  /\ KernelInv'
           /\ \A x \in Proc \ {t} :
                 buffer'[x] = buffer[x] /\ has_int_msg'[x] = has_int_msg[x]
           /\ \A x, y \in Proc : Offers(x, y)' <=> Offers(x, y)
           /\ \/ /\ Waiting(t, SR_TARGET_ANY) \/ Waiting(t, SR_TARGET_INTERRUPT)
                 /\ Free(t)' /\ SameBut(t)
                 /\ buffer'[t] = [source |-> SR_TARGET_INTERRUPT, body |-> HardInt]
              \/ /\ ~Waiting(t, SR_TARGET_ANY) /\ ~Waiting(t, SR_TARGET_INTERRUPT)
                 /\ UNCHANGED buffer
                 /\ \A x : Free(x)' <=> Free(x)
                 /\ \A x, y : Waiting(x, y)' <=> Waiting(x, y)
  <1>1. KernelInv'
    BY InformInterruptKeeps
  <1>2. KernelTypeOK
    BY DEF KernelInv
  <1>3. SENDING # RECEIVING
    BY DEF SENDING, RECEIVING
  <1>4. CASE WaitsFor(t, SR_TARGET_INTERRUPT)
    <2>1. /\ process_flags[t] = {RECEIVING}
          /\ recvfrom[t] \in {SR_TARGET_INTERRUPT, SR_TARGET_ANY}
      BY <1>4, NotSending DEF WaitsFor, Waiting
    <2>2. msg[t]
      BY <2>1 DEF KernelInv, StatusConsistent
    <2>3. /\ buffer' = Overwritten(t)
          /\ has_int_msg' = [has_int_msg EXCEPT ![t] = FALSE]
          /\ process_flags' = [process_flags EXCEPT ![t] = @ \ {RECEIVING}]
          /\ recvfrom' = [recvfrom EXCEPT ![t] = SR_TARGET_NONE]
          /\ UNCHANGED <<sendto, sending>>
      BY <1>4, <2>2 DEF process_inform_interrupt
    <2>4. /\ process_flags'[t] = {}
          /\ \A x \in Proc \ {t} :
                /\ process_flags'[x] = process_flags[x] /\ recvfrom'[x] = recvfrom[x]
                /\ buffer'[x] = buffer[x] /\ has_int_msg'[x] = has_int_msg[x]
          /\ buffer'[t] = [source |-> SR_TARGET_INTERRUPT, body |-> HardInt]
      BY <1>2, <2>1, <2>3 DEF KernelTypeOK, Overwritten
    <2>5. \A x \in Proc : Sending(x)' <=> Sending(x)
      BY <1>3, <2>1, <2>4 DEF Sending
    <2>6. Free(t)' /\ SameBut(t) /\ \A x, y \in Proc : Offers(x, y)' <=> Offers(x, y)
      BY <2>3, <2>4, <2>5 DEF Free, Waiting, SameBut, Offers
    <2> QED BY <1>1, <2>1, <2>4, <2>6 DEF Waiting
  <1>5. CASE ~WaitsFor(t, SR_TARGET_INTERRUPT)
    <2>1. ~Waiting(t, SR_TARGET_ANY) /\ ~Waiting(t, SR_TARGET_INTERRUPT)
      BY <1>5 DEF WaitsFor, Waiting, Receiving
    <2>2. /\ has_int_msg' = [has_int_msg EXCEPT ![t] = TRUE]
          /\ UNCHANGED <<process_flags, recvfrom, sendto, buffer>>
      BY <1>5 DEF process_inform_interrupt
    <2>3. \A x \in Proc \ {t} : has_int_msg'[x] = has_int_msg[x]
      BY <1>2, <2>2 DEF KernelTypeOK
    <2> QED BY <1>1, <2>1, <2>2, <2>3 DEF Free, Waiting, Offers, Sending
  <1> QED BY <1>4, <1>5

-----------------------------------------------------------------------------
(* Ipc implements Rendezvous: every step of the kernel is a step of the    *)
(* plain rendezvous, so lists, flags and pointers change nothing a caller  *)
(* could see.                                                              *)

\* The check of the kernel and the one of the rendezvous follow the same chain.
LEMMA SameReach ==
    ASSUME KernelInv, NEW p \in Proc, NEW q \in Proc
    PROVE  process_check_deadlock(p, q) <=> R!Reaches(q, p)
<1>1. \A x \in Proc : Sending(x) <=> sendto[x] \in Proc
  BY TargetAssumption DEF KernelInv, KernelTypeOK, StatusConsistent, Sentinel
<1>2. \A C \in SUBSET Proc :
        FollowsSendto(C) <=> \A x \in C : sendto[x] \in Proc => sendto[x] \in C
  BY <1>1 DEF FollowsSendto
<1> QED BY <1>2 DEF process_check_deadlock, R!Reaches

\* Having asked for p's message is the same in both; no sentinel is a process.
LEMMA SameWants ==
    ASSUME KernelInv, NEW q \in Proc, NEW p \in Proc \cup {SR_TARGET_INTERRUPT}
    PROVE  WaitsFor(q, p) <=> recvfrom[q] \in {p, SR_TARGET_ANY}
BY TargetAssumption DEF KernelInv, StatusConsistent, WaitsFor, Sentinel

\* A send stops the system, hands the message over or offers it.
LEMMA SendRefines ==
    ASSUME KernelInv, NEW p \in Proc, NEW dest \in Proc \ {p}, NEW b \in Body,
           Runnable(p), message_send(p, dest, [source |-> p, body |-> b])
    PROVE  R!Halt(p, dest) \/ R!Hand(p, dest) \/ R!Offer(p, dest)
<1> DEFINE m == [source |-> p, body |-> b]
<1>1. R!Idle(p)
  BY FreeProcess DEF Runnable, R!Idle
<1>2. m \in R!Written(p)
  BY DEF R!Written
<1>3. process_check_deadlock(p, dest) <=> R!Reaches(dest, p)
  BY SameReach
<1>4. WaitsFor(dest, p) <=> recvfrom[dest] \in {p, SR_TARGET_ANY}
  BY SameWants
<1> HIDE DEF m
<1>5. CASE SendPanics(p, dest, m)
  BY <1>1, <1>2, <1>3, <1>5 DEF SendPanics, kernelVars, R!Halt
<1>6. CASE SendDelivers(p, dest, m)
  BY <1>1, <1>2, <1>3, <1>4, <1>6 DEF SendDelivers, R!Hand
<1>7. CASE SendBlocks(p, dest, m)
  BY <1>1, <1>2, <1>3, <1>4, <1>7 DEF SendBlocks, R!Offer
<1> QED BY <1>5, <1>6, <1>7 DEF message_send, m

\* A receive takes an interrupt, takes a message that is offered, or waits.
LEMMA ReceiveRefines ==
    ASSUME KernelInv, NEW p \in Proc, NEW m \in R!Prepared(p),
           NEW source \in (Proc \ {p}) \cup {SR_TARGET_ANY, SR_TARGET_INTERRUPT},
           Runnable(p), message_receive(p, source, m)
    PROVE  \/ R!TakeInterrupt(p, source)
           \/ \E q \in Proc : R!Take(p, source, q)
           \/ R!Wait(p, source)
<1>1. R!Idle(p)
  BY FreeProcess DEF Runnable, R!Idle
<1>2. TakesInterrupt(p, source) <=> R!Serves(p, source)
  BY DEF TakesInterrupt, R!Serves
<1>3. \A q \in Proc : CanCopy(p, source, q) => sendto[q] = p /\ source \in {q, SR_TARGET_ANY}
  BY CopiedFromASender DEF CanCopy
<1>4. CASE ReceivesInterrupt(p, source)
  BY <1>1, <1>2, <1>4 DEF ReceivesInterrupt, R!TakeInterrupt
<1>5. ASSUME NEW q \in Proc, ReceivesQueued(p, source, q)
      PROVE  R!Take(p, source, q)
  BY <1>1, <1>2, <1>3, <1>5 DEF ReceivesQueued, R!Take
<1>6. CASE ReceiveBlocks(p, source, m)
  <2>1. ASSUME NEW q \in Proc, sendto[q] = p, source \in {q, SR_TARGET_ANY}
        PROVE  \E sender \in Proc : CanCopy(p, source, sender)
    <3>1. Sending(q) /\ Occurs(q, sending[p])
      BY <2>1, TargetAssumption DEF KernelInv, StatusConsistent, QueueExact, Sentinel
    <3>2. CASE source = q
      BY <2>1, <3>1, <3>2 DEF CanCopy
    <3>3. CASE source = SR_TARGET_ANY
      <4>1. sending[p] \in Seq(Proc) /\ sending[p] # <<>>
        BY <3>1 DEF KernelInv, KernelTypeOK, Occurs
      <4>2. Head(sending[p]) \in Proc
        BY <4>1, HeadTailProperties
      <4> QED BY <3>3, <4>1, <4>2 DEF CanCopy
    <3> QED BY <2>1, <3>2, <3>3
  <2>2. ~\E q \in Proc : sendto[q] = p /\ source \in {q, SR_TARGET_ANY}
    BY <1>6, <2>1 DEF ReceiveBlocks
  <2> QED BY <1>1, <1>2, <1>6, <2>2 DEF ReceiveBlocks, R!Wait
<1> QED BY <1>4, <1>5, <1>6 DEF message_receive

\* An interrupt handler does what the interrupt of Rendezvous does.
LEMMA InterruptRefines ==
    ASSUME KernelInv, NEW t \in Proc, Interrupt(t)
    PROVE  R!Interrupt(t)
<1>1. WaitsFor(t, SR_TARGET_INTERRUPT)
        <=> recvfrom[t] \in {SR_TARGET_ANY, SR_TARGET_INTERRUPT}
  BY SameWants
<1>2. WaitsFor(t, SR_TARGET_INTERRUPT) => msg[t]
  BY DEF KernelInv, StatusConsistent, WaitsFor, Receiving
<1> QED BY <1>1, <1>2
        DEF Interrupt, process_inform_interrupt, Overwritten, R!Interrupt

\* Every step of Ipc is a step of Rendezvous, or changes nothing there.
LEMMA StepRefines == IInv /\ [Next]_vars => [R!Next]_R!vars
<1> SUFFICES ASSUME IInv, [Next]_vars PROVE [R!Next]_R!vars
  OBVIOUS
<1>0. KernelInv
  BY DEF IInv
<1>1. ASSUME NEW p \in Proc, NEW dest \in Proc \ {p}, NEW b \in Body,
             Send(p, dest, b) \/ SendBoth(p, dest, b)
      PROVE  R!Next
  BY <1>0, <1>1, SendRefines DEF Send, SendBoth, R!Next
<1>2. ASSUME NEW p \in Proc, ReceiveReply(p)
      PROVE  R!Next
  <2>1. pending[p] \in Proc \ {p}
    BY <1>2 DEF IInv, TypeOK, ReceiveReply
  <2>2. [buffer[p] EXCEPT !.source = p] \in R!Prepared(p)
    BY DEF R!Prepared
  <2> QED BY <1>0, <1>2, <2>1, <2>2, ReceiveRefines DEF ReceiveReply, R!Next
<1>3. ASSUME NEW p \in Proc,
             NEW source \in (Proc \ {p}) \cup {SR_TARGET_ANY, SR_TARGET_INTERRUPT},
             Receive(p, source)
      PROVE  R!Next
  <2>1. [source |-> p, body |-> Zeroed] \in R!Prepared(p)
    BY DEF R!Prepared
  <2> QED BY <1>0, <1>3, <2>1, ReceiveRefines DEF Receive, R!Next
<1>4. ASSUME NEW t \in IntTarget, Interrupt(t)
      PROVE  R!Next
  BY <1>0, <1>4, ProcAssumption, InterruptRefines DEF R!Next
<1>5. CASE UNCHANGED vars
  BY <1>5 DEF vars, kernelVars, R!vars
<1> QED BY <1>1, <1>2, <1>3, <1>4, <1>5 DEF Next

\* The kernel's message passing is a rendezvous that loses, repeats and alters
\* nothing, for any number of processes and any messages.
THEOREM Refinement == Spec => ImplementsRendezvous
<1>1. Init => R!Init
  BY DEF Init, R!Init
<1> QED BY <1>1, Invariance, StepRefines, PTL DEF Spec, ImplementsRendezvous, R!Spec
=============================================================================
