----------------------------- MODULE MixedQueue -----------------------------
(***************************************************************************)
(* MixedQueue (elements/standard/mixedqueue.cc): a NotifierQueue with a    *)
(* FIFO input (port 0, a full queue drops the new packet) and a LIFO input *)
(* (port 1, the packet goes in front of _head; a full queue first drops   *)
(* the packet at the back).  Its pull is NotifierQueue::pull.              *)
(***************************************************************************)
EXTENDS NotifierQueue

Ports == {0, 1}

(* MixedQueue::push, port 0: "drop new packet if full".                  *)
FifoInsert ==
    LET pindex == NextI(tail) IN
    IF pindex = head
    THEN /\ drops' = drops + 1
         /\ dropped' = Append(dropped, np)
         /\ UNCHANGED <<q, head, tail, acc>>
    ELSE /\ q' = [q EXCEPT ![tail] = np]
         /\ tail' = pindex
         /\ acc' = Append(acc, np)
         /\ UNCHANGED <<head, drops, dropped>>

(* Variant: the overflow counted but "_tail = prev_i(_tail)" left out.   *)
LifoInsertNoEvict ==
    LET pindex == PrevI(head)
        full   == pindex = tail
    IN /\ drops' = IF full THEN drops + 1 ELSE drops
       /\ dropped' = IF full THEN Append(dropped, q[tail]) ELSE dropped
       /\ q' = [q EXCEPT ![pindex] = np]
       /\ head' = pindex
       /\ acc' = Append(acc, np)
       /\ UNCHANGED tail

(***************************************************************************)
(* MixedQueue::push, port 1: "drop old packet if full".  The packet goes  *)
(* in front of _head; on overflow _tail is pulled back first and the      *)
(* packet there pushed out of output 1.  The producer writes _head, which *)
(* the puller's deq also writes.                                           *)
(***************************************************************************)
LifoInsert ==
    LET pindex == PrevI(head)
        full   == pindex = tail
        t2     == IF full THEN PrevI(tail) ELSE tail
    IN /\ tail' = t2
       /\ drops' = IF full THEN drops + 1 ELSE drops
       /\ dropped' = IF full THEN Append(dropped, q[t2]) ELSE dropped
       /\ q' = [q EXCEPT ![pindex] = np]
       /\ head' = pindex
       /\ acc' = Append(acc, np)

(* MixedQueue::push(port, p) up to the size check.                       *)
MixedInsert ==
    /\ ppc = "idle" /\ np <= NPkts
    /\ MayRun(PullerIdle)
    /\ \E port \in Ports : IF port = 0 THEN FifoInsert ELSE LifoInsert
    /\ ppc' = "wake"
    /\ UNCHANGED <<highwater, sleepiness, active, scheduled, np, ph, cvars, out>>

(* "int s = size(); ... if (s == 1 && !_empty_note.active()) wake()".    *)
MixedWake ==
    /\ ppc = "wake"
    /\ LET s == Size(head, tail) IN
       /\ highwater' = IF s > highwater THEN s ELSE highwater
       /\ IF s = 1 /\ ~active THEN Wake(active, scheduled)
          ELSE UNCHANGED <<active, scheduled>>
    /\ np' = np + 1
    /\ ppc' = "idle"
    /\ UNCHANGED <<q, head, tail, drops, sleepiness, ph, cvars, hvars>>
=============================================================================
