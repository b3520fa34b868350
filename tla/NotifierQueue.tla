---------------------------- MODULE NotifierQueue ----------------------------
(***************************************************************************)
(* NotifierQueue (elements/standard/notifierqueue.cc): a SimpleQueue ring  *)
(* whose empty notifier tells the downstream puller when packets arrive.  *)
(*                                                                         *)
(* The ring is the one of SimpleQueue (click/simplequeue.hh, not part of  *)
(* this repository): _capacity + 1 slots, _head and _tail indices, one    *)
(* slot always free.  The notifier is an ActiveNotifier: wake() turns the *)
(* signal on and reschedules the listening task if it was off; sleep()    *)
(* turns it off.                                                           *)
(*                                                                         *)
(* push runs on the producer's thread, pull on the puller's.  With        *)
(* HAVE_MULTITHREAD the two are different threads and their steps         *)
(* interleave; without it one thread runs each handler to its end before  *)
(* the other starts.  Packets are the numbers 1..NPkts, pushed in order.  *)
(***************************************************************************)
EXTENDS Naturals, Sequences, SequencesExt

CONSTANTS
    Capacity,            \* _capacity
    NPkts,               \* packets the producer pushes
    SLEEPINESS_TRIGGER,  \* empty pulls before the notifier sleeps
    HAVE_MULTITHREAD     \* push and pull run on different threads

ASSUME Capacity \in Nat \ {0} /\ NPkts \in Nat /\ SLEEPINESS_TRIGGER \in Nat
ASSUME HAVE_MULTITHREAD \in BOOLEAN

VARIABLES
    q, head, tail,   \* _q, _head, _tail
    drops,           \* _drops
    highwater,       \* _highwater_length
    sleepiness,      \* _sleepiness
    active,          \* _empty_note's signal
    scheduled,       \* the listening task is scheduled
    ppc, np, ph,     \* producer: where in push, packet being pushed, h read by push
    cpc, ch, cp,     \* puller: where in run_task/pull, head read by deq, packet read
    acc,             \* packets the queue accepted, in acceptance order
    out,             \* packets pulled and pushed downstream, in order
    dropped          \* packets sent to output 1 (overflow)

qvars == <<q, head, tail, drops, highwater, sleepiness, active, scheduled>>
pvars == <<ppc, np, ph>>
cvars == <<cpc, ch, cp>>
hvars == <<acc, out, dropped>>
vars  == <<qvars, pvars, cvars, hvars>>

Slots == 0..Capacity

(* SimpleQueue::next_i, prev_i, size(h, t). *)
NextI(i) == IF i # Capacity THEN i + 1 ELSE 0
PrevI(i) == IF i # 0 THEN i - 1 ELSE Capacity
Size(h, t) == IF t >= h THEN t - h ELSE t + Capacity + 1 - h

(* The packets in the ring, head first. *)
RECURSIVE RingFrom(_, _)
RingFrom(h, t) == IF h = t THEN <<>> ELSE <<q[h]>> \o RingFrom(NextI(h), t)
Contents == RingFrom(head, tail)

(* ActiveNotifier::wake() and sleep(). *)
Wake(act, sch) == act' = TRUE /\ sch' = (sch \/ ~act)
Sleep(act)     == act' = FALSE

(* Without HAVE_MULTITHREAD a handler runs to its end on the one thread. *)
ProducerIdle == ppc = "idle"
PullerIdle   == cpc = "idle"
MayRun(otherIdle) == HAVE_MULTITHREAD \/ otherIdle

TypeOK ==
    /\ q \in [Slots -> 0..NPkts]
    /\ head \in Slots /\ tail \in Slots
    /\ drops \in Nat /\ highwater \in 0..Capacity
    /\ sleepiness \in 0..SLEEPINESS_TRIGGER
    /\ active \in BOOLEAN /\ scheduled \in BOOLEAN
    /\ ppc \in {"idle", "enq", "wake"} /\ np \in 1..NPkts + 1 /\ ph \in Slots
    /\ cpc \in {"idle", "deq", "deqw", "sleep", "recheck", "ret"}
    /\ ch \in Slots /\ cp \in 0..NPkts

QueueInit ==
    /\ q = [i \in Slots |-> 0]
    /\ head = 0 /\ tail = 0
    /\ drops = 0 /\ highwater = 0
    /\ sleepiness = 0
    /\ active = TRUE          \* ActiveNotifier starts active
    /\ scheduled = TRUE       \* ScheduleInfo::initialize_task
    /\ ppc = "idle" /\ np = 1 /\ ph = 0
    /\ acc = <<>> /\ out = <<>> /\ dropped = <<>>

-----------------------------------------------------------------------------
(* NotifierQueue::push, first line: "int h = _head, t = _tail".          *)
PushRead ==
    /\ ppc = "idle" /\ np <= NPkts
    /\ MayRun(PullerIdle)
    /\ ph' = head
    /\ ppc' = "enq"
    /\ UNCHANGED <<qvars, np, cvars, hvars>>

(* Variant: the "nt != h" overflow test left out.                       *)
PushEnqNoFullCheck ==
    /\ ppc = "enq"
    /\ LET nt == NextI(tail) IN
       /\ q' = [q EXCEPT ![tail] = np]
       /\ tail' = nt
       /\ highwater' = IF Size(ph, nt) > highwater THEN Size(ph, nt) ELSE highwater
       /\ acc' = Append(acc, np)
       /\ ppc' = "wake"
       /\ UNCHANGED <<drops, np, dropped>>
    /\ UNCHANGED <<head, sleepiness, active, scheduled, ph, cvars, out>>

(***************************************************************************)
(* "if (nt != h)": store the packet and publish the new tail (the compiler *)
(* barrier orders the two), raise the high-water mark from the h read     *)
(* before; or count an overflow and push the packet out of output 1.      *)
(***************************************************************************)
PushEnq ==
    /\ ppc = "enq"
    /\ LET nt == NextI(tail) IN
       IF nt # ph
       THEN /\ q' = [q EXCEPT ![tail] = np]
            /\ tail' = nt
            /\ highwater' = IF Size(ph, nt) > highwater THEN Size(ph, nt) ELSE highwater
            /\ acc' = Append(acc, np)
            /\ ppc' = "wake"
            /\ UNCHANGED <<drops, np, dropped>>
       ELSE /\ drops' = drops + 1
            /\ dropped' = Append(dropped, np)
            /\ np' = np + 1
            /\ ppc' = "idle"
            /\ UNCHANGED <<q, tail, highwater, acc>>
    /\ UNCHANGED <<head, sleepiness, active, scheduled, ph, cvars, out>>

(* "_empty_note.wake()" after the store. *)
PushWake ==
    /\ ppc = "wake"
    /\ Wake(active, scheduled)
    /\ np' = np + 1
    /\ ppc' = "idle"
    /\ UNCHANGED <<q, head, tail, drops, highwater, sleepiness, ph, cvars, hvars>>

-----------------------------------------------------------------------------
(***************************************************************************)
(* NotifierQueue::pull, called by the puller's task (cpc = "deq").  deq() *)
(* reads _head, _tail and _q[_head]; a packet resets the sleepiness, an   *)
(* empty queue either counts one more empty pull or, once the trigger is  *)
(* reached, puts the notifier to sleep.  pull returns with cpc = "ret".    *)
(***************************************************************************)
(* Variant: the sleepiness compared with ">" instead of ">=".            *)
PullDeqLateSleep ==
    /\ cpc = "deq"
    /\ MayRun(ProducerIdle)
    /\ IF head # tail
       THEN /\ ch' = head /\ cp' = q[head]
            /\ cpc' = "deqw"
            /\ UNCHANGED sleepiness
       ELSE /\ cp' = 0 /\ UNCHANGED ch
            /\ IF sleepiness > SLEEPINESS_TRIGGER
               THEN cpc' = "sleep" /\ UNCHANGED sleepiness
               ELSE cpc' = "ret" /\ sleepiness' = sleepiness + 1
    /\ UNCHANGED <<q, head, tail, drops, highwater, active, scheduled, pvars, hvars>>

PullDeq ==
    /\ cpc = "deq"
    /\ MayRun(ProducerIdle)
    /\ IF head # tail
       THEN /\ ch' = head /\ cp' = q[head]
            /\ cpc' = "deqw"
            /\ UNCHANGED sleepiness
       ELSE /\ cp' = 0 /\ UNCHANGED ch
            /\ IF sleepiness >= SLEEPINESS_TRIGGER
               THEN cpc' = "sleep" /\ UNCHANGED sleepiness
               ELSE cpc' = "ret" /\ sleepiness' = sleepiness + 1
    /\ UNCHANGED <<q, head, tail, drops, highwater, active, scheduled, pvars, hvars>>

(* The rest of deq(): "_head = next_i(_head)"; then "_sleepiness = 0".   *)
PullDeqWrite ==
    /\ cpc = "deqw"
    /\ head' = NextI(ch)
    /\ sleepiness' = 0
    /\ cpc' = "ret"
    /\ UNCHANGED <<q, tail, drops, highwater, active, scheduled, pvars, ch, cp, hvars>>

(* "_empty_note.sleep()"; with HAVE_MULTITHREAD, then the size check.     *)
PullSleep ==
    /\ cpc = "sleep"
    /\ Sleep(active)
    /\ cpc' = IF HAVE_MULTITHREAD THEN "recheck" ELSE "ret"
    /\ UNCHANGED <<q, head, tail, drops, highwater, sleepiness, scheduled, pvars, ch, cp, hvars>>

(* Variant: the size check without the wake.                            *)
PullRecheckNoWake ==
    /\ cpc = "recheck"
    /\ UNCHANGED <<active, scheduled>>
    /\ cpc' = "ret"
    /\ UNCHANGED <<q, head, tail, drops, highwater, sleepiness, pvars, ch, cp, hvars>>

(* "if (size()) _empty_note.wake()": undo a wake() push made meanwhile.   *)
PullRecheck ==
    /\ cpc = "recheck"
    /\ IF Size(head, tail) # 0 THEN Wake(active, scheduled) ELSE UNCHANGED <<active, scheduled>>
    /\ cpc' = "ret"
    /\ UNCHANGED <<q, head, tail, drops, highwater, sleepiness, pvars, ch, cp, hvars>>
====
