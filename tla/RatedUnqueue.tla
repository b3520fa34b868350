---------------------------- MODULE RatedUnqueue ----------------------------
(***************************************************************************)
(* RatedUnqueue::run_task (elements/standard/ratedunqueue.cc), the task   *)
(* that pulls from the queue and pushes downstream, listening to the      *)
(* queue's empty notifier (_signal).  The token rate is abstracted: a run *)
(* in which _rate.need_update is false changes nothing and is a stutter,  *)
(* so each modelled run is one in which the rate allows a packet.          *)
(* BandwidthRatedUnqueue::run_task has the same control.                  *)
(***************************************************************************)
EXTENDS NotifierQueue

PullerInit ==
    /\ cpc = "idle" /\ ch = 0 /\ cp = 0

(* The scheduler runs the task: it is taken off the run list and pulls.  *)
RunTask ==
    /\ cpc = "idle" /\ scheduled
    /\ MayRun(ProducerIdle)
    /\ scheduled' = FALSE
    /\ cpc' = "deq"
    /\ UNCHANGED <<q, head, tail, drops, highwater, sleepiness, active, pvars, ch, cp, hvars>>

(* Variant: an empty pull always returns without rescheduling.          *)
RunTaskAfterPullIgnoresSignal ==
    /\ cpc = "ret"
    /\ IF cp # 0
       THEN out' = Append(out, cp) /\ scheduled' = TRUE
       ELSE UNCHANGED <<out, scheduled>>
    /\ cpc' = "idle"
    /\ UNCHANGED <<q, head, tail, drops, highwater, sleepiness, active, pvars, ch, cp, acc, dropped>>

(***************************************************************************)
(* After input(0).pull(): a packet is pushed out and the task             *)
(* rescheduled; no packet and the signal off returns "without             *)
(* rescheduling"; otherwise fast_reschedule.                               *)
(***************************************************************************)
RunTaskAfterPull ==
    /\ cpc = "ret"
    /\ IF cp # 0
       THEN out' = Append(out, cp) /\ scheduled' = TRUE
       ELSE /\ UNCHANGED out
            /\ IF ~active THEN UNCHANGED scheduled ELSE scheduled' = TRUE
    /\ cpc' = "idle"
    /\ UNCHANGED <<q, head, tail, drops, highwater, sleepiness, active, pvars, ch, cp, acc, dropped>>
=============================================================================
