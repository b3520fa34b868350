---------------------------- MODULE QueuePipeline ----------------------------
(***************************************************************************)
(* A RatedSource pushing into a NotifierQueue or a MixedQueue, and a       *)
(* RatedUnqueue pulling from it on its own task:                           *)
(*     RatedSource -> Queue -> RatedUnqueue -> downstream                  *)
(* RatedUnqueue listens to the queue's empty notifier, so it stops being  *)
(* scheduled when the queue has been empty long enough and relies on the  *)
(* queue's wake() to be scheduled again.  The source's output(0).push is  *)
(* the queue's push, run on the source task's thread.                      *)
(***************************************************************************)
EXTENDS MixedQueue, RatedUnqueue, RatedSource

CONSTANT Kind    \* "NotifierQueue" or "MixedQueue"

ASSUME Kind \in {"NotifierQueue", "MixedQueue"}

pipevars == <<vars, srcvars>>

Init == QueueInit /\ PullerInit /\ SrcInit

(* The queue's push: its first step, and the steps after it.              *)
PushStart == IF Kind = "NotifierQueue" THEN PushRead ELSE MixedInsert
PushRest ==
    /\ IF Kind = "NotifierQueue" THEN PushEnq \/ PushWake ELSE MixedWake
    /\ UNCHANGED srcvars

(***************************************************************************)
(* The source task: run_task returning at once, or starting the push, the *)
(* push, and the rest of run_task once it returns.  Without               *)
(* HAVE_MULTITHREAD it shares the thread with the puller.                  *)
(***************************************************************************)
Producer ==
    \/ /\ SrcRunIdle /\ MayRun(PullerIdle)
       /\ UNCHANGED <<qvars, pvars, cvars, hvars>>
    \/ SrcRunPush /\ PushStart
    \/ PushRest
    \/ /\ SrcPushed /\ ppc = "idle" /\ MayRun(PullerIdle)
       /\ UNCHANGED <<qvars, pvars, cvars, hvars>>

(* A write handler of the source, with no thread inside an element.      *)
Handler ==
    /\ SrcWrite /\ ppc = "idle" /\ cpc = "idle"
    /\ UNCHANGED <<qvars, pvars, cvars, hvars>>

Puller ==
    /\ RunTask \/ PullDeq \/ PullDeqWrite \/ PullSleep \/ PullRecheck \/ RunTaskAfterPull
    /\ UNCHANGED srcvars

Next == Producer \/ Handler \/ Puller

(***************************************************************************)
(* Each thread keeps running the handler it is in, and a scheduled task   *)
(* is eventually run by its thread.  Handler writes may stop at any time. *)
(***************************************************************************)
Spec == Init /\ [][Next]_pipevars /\ WF_pipevars(Producer) /\ WF_pipevars(Puller)

-----------------------------------------------------------------------------
(* The packet the puller holds between deq() and the push downstream.    *)
InFlight == IF cpc = "ret" /\ cp # 0 THEN <<cp>> ELSE <<>>

(***************************************************************************)
(* NotifierQueue is FIFO and loses nothing: the packets pushed downstream, *)
(* the one in the puller's hands and the ring, head to tail, are exactly  *)
(* the accepted packets in acceptance order, under any interleaving of    *)
(* push and pull.                                                          *)
(***************************************************************************)
FifoConserved == out \o InFlight \o Contents = acc

(***************************************************************************)
(* MixedQueue loses and duplicates nothing: every accepted packet is, once *)
(* and only once, downstream, in the puller's hands, in the ring, or was  *)
(* pushed out of output 1 by a LIFO overflow.                              *)
(***************************************************************************)
Evicted == SelectSeq(dropped, LAMBDA x : x \in ToSet(acc))

Conserved ==
    LET held == out \o InFlight \o Contents \o Evicted
    IN /\ Len(held) = Len(acc)
       /\ ToSet(held) = ToSet(acc)

(***************************************************************************)
(* No lost wakeup: when the task has left the run list and is not running, *)
(* the queue is empty, or the producer is about to call wake() for what   *)
(* it just stored.  NotifierQueue::pull's sleep() may undo a concurrent   *)
(* push's wake(); this is what its HAVE_MULTITHREAD size check restores.  *)
(***************************************************************************)
SleepingOnlyWhenEmpty ==
    (cpc = "idle" /\ ~scheduled) => (head = tail \/ ppc = "wake")

(* Every packet the queue accepts is eventually pushed downstream or out  *)
(* of the overflow output.                                                 *)
AcceptedLeave ==
    \A p \in 1..NPkts :
        [](p \in ToSet(acc) => <>(p \in ToSet(out) \/ p \in ToSet(dropped)))
(* The source pushes while it may: whenever it is active, below its      *)
(* limit and not stopped, it eventually pushes again or stops being so.   *)
(* run_task at the limit returns without rescheduling, and the limit      *)
(* handler never reschedules it, so raising the limit there leaves the    *)
(* source stopped for good.                                                *)
Producing == src_active /\ ~SrcAtLimit /\ ~stopped /\ np <= NPkts

SourceResumes == Producing ~> (src_pc = "push" \/ ~Producing)

(* The same, except after a limit write the task has not run since: the  *)
(* active and reset handlers reschedule a task run_task left off its run *)
(* list, and the source's fast_reschedule keeps it on while it pushes.    *)
ResumesUnlessLimitWritten ==
    (Producing /\ ~limit_written) ~> (src_pc = "push" \/ ~Producing)
=============================================================================
