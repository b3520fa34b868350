----------------------------- MODULE RatedSource -----------------------------
(***************************************************************************)
(* RatedSource (elements/standard/ratedsource.cc) with a push output: a    *)
(* task that, while _active and below _limit, pushes a clone of its       *)
(* packet whenever the rate allows, and the active, limit and reset write *)
(* handlers.  A run_task in which _rate.need_update is false only calls   *)
(* fast_reschedule and changes nothing: it is a stutter.  The push itself *)
(* is the downstream element's: SrcRunPush starts it, SrcPushed is the     *)
(* rest of run_task after output(0).push returns.  The rate, data and     *)
(* length handlers change only the rate and the packet's bytes, which     *)
(* nothing here tells apart.                                               *)
(***************************************************************************)
EXTENDS Integers

CONSTANTS
    ACTIVE,     \* the ACTIVE argument
    STOP,       \* the STOP argument
    Limited,    \* LIMIT >= 0 (otherwise _limit is NO_LIMIT)
    LIMIT,      \* the LIMIT argument, when Limited
    Limits,     \* values >= 0 written to the limit handler (besides -1)
    MaxWrites   \* handler writes explored

ASSUME /\ {ACTIVE, STOP, Limited} \subseteq BOOLEAN
       /\ LIMIT \in Nat /\ Limits \subseteq Nat /\ MaxWrites \in Nat

NO_LIMIT == -1

VARIABLES
    src_active,     \* _active
    src_limit,      \* _limit
    src_count,      \* _count
    src_sched,      \* _task is on its thread's run list
    src_pc,         \* "idle", or "push" while output(0).push runs
    stopped,        \* please_stop_driver was called
    writes,         \* handler writes so far
    limit_written   \* the limit handler was written since the task last pushed

srcvars == <<src_active, src_limit, src_count, src_sched, src_pc, stopped,
             writes, limit_written>>

(* configure and initialize: initialize_task schedules the task.          *)
SrcInit ==
    /\ src_active = ACTIVE
    /\ src_limit = IF Limited THEN LIMIT ELSE NO_LIMIT
    /\ src_count = 0 /\ src_sched = TRUE /\ src_pc = "idle"
    /\ stopped = FALSE /\ writes = 0 /\ limit_written = FALSE

SrcAtLimit == src_limit # NO_LIMIT /\ src_count >= src_limit

(* run_task returning false: inactive, or at the limit (stopping the      *)
(* driver with STOP).  The task is off the run list and stays off.         *)
SrcRunIdle ==
    /\ src_pc = "idle" /\ src_sched /\ ~stopped
    /\ ~src_active \/ SrcAtLimit
    /\ src_sched' = FALSE
    /\ stopped' = (src_active /\ STOP)
    /\ UNCHANGED <<src_active, src_limit, src_count, src_pc, writes, limit_written>>

(* run_task when the rate allows: _rate.update(), clone, push.            *)
SrcRunPush ==
    /\ src_pc = "idle" /\ src_sched /\ ~stopped
    /\ src_active /\ ~SrcAtLimit
    /\ src_sched' = FALSE /\ src_pc' = "push"
    /\ limit_written' = FALSE
    /\ UNCHANGED <<src_active, src_limit, src_count, stopped, writes>>

(* After the push: "_count++; _task.fast_reschedule(); return true".      *)
SrcPushed ==
    /\ src_pc = "push"
    /\ src_count' = src_count + 1 /\ src_sched' = TRUE /\ src_pc' = "idle"
    /\ UNCHANGED <<src_active, src_limit, stopped, writes, limit_written>>

-----------------------------------------------------------------------------
(* change_param.  Write handlers run exclusive of the router's threads:   *)
(* the including module guards them with every thread idle.               *)
Written == src_pc = "idle" /\ ~stopped /\ writes < MaxWrites /\ writes' = writes + 1

(* case 3: "_active = active; if (... !_task.scheduled() && active)        *)
(* { _rate.reset(); _task.reschedule(); }".                                *)
WriteActive(b) ==
    /\ Written
    /\ src_active' = b
    /\ src_sched' = (src_sched \/ b)
    /\ limit_written' = (limit_written /\ ~b)
    /\ UNCHANGED <<src_limit, src_count, src_pc, stopped>>

(* case 2: "_limit = (limit < 0 ? NO_LIMIT : limit)", and nothing else.   *)
WriteLimit(l) ==
    /\ Written
    /\ src_limit' = l /\ limit_written' = TRUE
    /\ UNCHANGED <<src_active, src_count, src_sched, src_pc, stopped>>

(* Variant: reset without the reschedule.                                  *)
WriteResetNoResched ==
    /\ Written
    /\ src_count' = 0
    /\ UNCHANGED <<src_active, src_limit, src_sched, src_pc, stopped, limit_written>>

(* case 5: "_count = 0; _rate.reset(); if (... !_task.scheduled() &&       *)
(* _active) _task.reschedule()".                                           *)
WriteReset ==
    /\ Written
    /\ src_count' = 0
    /\ src_sched' = (src_sched \/ src_active)
    /\ limit_written' = (limit_written /\ ~src_active)
    /\ UNCHANGED <<src_active, src_limit, src_pc, stopped>>

SrcWrite ==
    \/ \E b \in BOOLEAN : WriteActive(b)
    \/ \E l \in Limits \cup {NO_LIMIT} : WriteLimit(l)
    \/ WriteReset

SrcTypeOK ==
    /\ {src_active, src_sched, stopped, limit_written} \subseteq BOOLEAN
    /\ src_limit \in Limits \cup {LIMIT, NO_LIMIT} /\ src_count \in Nat
    /\ src_pc \in {"idle", "push"} /\ writes \in 0 .. MaxWrites
=============================================================================
