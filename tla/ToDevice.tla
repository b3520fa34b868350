------------------------------ MODULE ToDevice ------------------------------
(* ToDevice in the Linux kernel module (todevice.cc), built without        *)
(* device polling.  Its task pulls packets from an upstream queue and      *)
(* hands them to the driver's hard_start_xmit; a packet the driver refuses *)
(* is held in _q until its expiry.  The task is woken by the upstream      *)
(* queue's empty notifier, by the kernel's tx notifier (when built with    *)
(* HAVE_CLICK_KERNEL_TX_NOTIFY) and by the netdevice notifier.  Each       *)
(* handler runs atomically: run_task holds the device's xmit lock, and a   *)
(* wake that arrives while it runs has the same effect as one after it.    *)
EXTENDS Naturals, Sequences, SequencesExt, FiniteSets

CONSTANTS
    Pkts,           \* the packets pushed upstream, each once
    Short,          \* packets under 60 bytes whose skb lacks the tailroom
    Burst,          \* _burst
    NoPad,          \* _no_pad
    TxNotify,       \* HAVE_CLICK_KERNEL_TX_NOTIFY
    BusyStops,      \* the driver stops its queue whenever it refuses a packet
    AllocFails,     \* skb_copy_expand may return null
    QueueTimeout,   \* queue_timeout, in jiffies
    MaxJiffies,     \* the last jiffy of a behaviour
    MaxBusy,        \* packets the driver may refuse in one behaviour
    MaxDown         \* NETDEV_DOWN events in one behaviour

ASSUME /\ Short \subseteq Pkts
       /\ Burst \in Nat \ {0}
       /\ {NoPad, TxNotify, BusyStops, AllocFails} \subseteq BOOLEAN
       /\ {QueueTimeout, MaxJiffies, MaxBusy, MaxDown} \subseteq Nat

NoPkt == CHOOSE x : x \notin Pkts

VARIABLES
    up,          \* the upstream NotifierQueue's packets
    signal,      \* _signal.active(): the upstream queue's empty notifier
    pushed,      \* every packet pushed upstream, in order
    scheduled,   \* _task is on its thread's run list
    strongOff,   \* _task sits on the quiescent thread, where reschedule() is void
    q,           \* _q, or NoPkt
    qExpiry,     \* _q_expiry_j
    jiffies,     \* click_jiffies()
    dev,         \* _dev != 0
    carrierOk,   \* _carrier_ok, as set_device last recorded it
    carrier,     \* netif_carrier_ok(dev)
    stopped,     \* netif_queue_stopped(dev)
    sent,        \* the packets hard_start_xmit accepted, in order
    dropped,     \* held packets killed on expiry
    lost,        \* packets whose padded copy could not be allocated
    freed,       \* packets whose own skb queue_packet freed after copying it
    rejects,     \* packets hard_start_xmit refused so far
    downs        \* NETDEV_DOWN events so far

vars == <<up, signal, pushed, scheduled, strongOff, q, qExpiry, jiffies, dev,
          carrierOk, carrier, stopped, sent, dropped, lost, freed, rejects,
          downs>>

(* The part of the state run_task changes, as a record the burst loop      *)
(* threads through its iterations.                                         *)
Loop0 == [up |-> up, signal |-> signal, q |-> q, qExpiry |-> qExpiry,
          stopped |-> stopped, sent |-> sent, dropped |-> dropped,
          lost |-> lost, freed |-> freed, rejects |-> rejects]

(* click_jiffies_less(a, b): a is before b. *)
JiffiesLess(a, b) == a < b

(* Task::reschedule(): void on the quiescent thread. *)
Rescheduled == scheduled \/ ~strongOff

-----------------------------------------------------------------------------
(* initialize: the task is scheduled only if the device exists; otherwise  *)
(* it starts on the quiescent thread.  The driver starts awake.            *)
Init ==
    /\ up = <<>> /\ signal = FALSE /\ pushed = <<>>
    /\ dev \in BOOLEAN
    /\ scheduled = dev /\ strongOff = ~dev
    /\ q = NoPkt /\ qExpiry = 0 /\ jiffies = 0
    /\ carrier \in BOOLEAN /\ carrierOk = (dev /\ carrier)
    /\ stopped = FALSE
    /\ sent = <<>> /\ dropped = {} /\ lost = {} /\ freed = {}
    /\ rejects = 0 /\ downs = 0

(* A hold whose expiry is one jiffy later than queue_timeout. *)
XmitExpiryLate(s, p) ==
    {[st |-> [s EXCEPT !.sent = Append(@, p), !.stopped = full],
      busy |-> FALSE] : full \in BOOLEAN}
    \cup
    {[st |-> [s EXCEPT !.q = p, !.qExpiry = jiffies + QueueTimeout + 1,
                       !.rejects = @ + 1, !.stopped = stop],
      busy |-> TRUE] :
        stop \in IF s.rejects < MaxBusy
                 THEN (IF BusyStops THEN {TRUE} ELSE BOOLEAN) ELSE {}}

(* A refused packet put back at the tail of the upstream queue. *)
XmitRequeue(s, p) ==
    {[st |-> [s EXCEPT !.sent = Append(@, p), !.stopped = full],
      busy |-> FALSE] : full \in BOOLEAN}
    \cup
    {[st |-> [s EXCEPT !.up = Append(@, p), !.rejects = @ + 1,
                       !.stopped = stop],
      busy |-> TRUE] :
        stop \in IF s.rejects < MaxBusy
                 THEN (IF BusyStops THEN {TRUE} ELSE BOOLEAN) ELSE {}}

(* Outcomes of hard_start_xmit on skb1 made from p: the driver takes it    *)
(* (and may stop its queue because its ring is full), or, within the      *)
(* budget, refuses it, and queue_packet holds p in _q until               *)
(* now + queue_timeout.  busy is queue_packet's nonzero return.            *)
Xmit(s, p) ==
    {[st |-> [s EXCEPT !.sent = Append(@, p), !.stopped = full],
      busy |-> FALSE] : full \in BOOLEAN}
    \cup
    {[st |-> [s EXCEPT !.q = p, !.qExpiry = jiffies + QueueTimeout,
                       !.rejects = @ + 1, !.stopped = stop],
      busy |-> TRUE] :
        stop \in IF s.rejects < MaxBusy
                 THEN (IF BusyStops THEN {TRUE} ELSE BOOLEAN) ELSE {}}

(* queue_packet(p).  A short packet whose skb lacks tailroom is copied by  *)
(* skb_copy_expand and its own skb freed with kfree_skb; if the copy      *)
(* failed it returns -1 and the packet is gone.                            *)
QueuePacketCopied(s, p) ==
    {[st |-> [s EXCEPT !.lost = @ \cup {p}], busy |-> TRUE] :
        f \in IF AllocFails THEN {TRUE} ELSE {}}
    \cup Xmit(s, p)

queue_packet(s, p) ==
    IF ~NoPad /\ p \in Short
    THEN QueuePacketCopied([s EXCEPT !.freed = @ \cup {p}], p)
    ELSE Xmit(s, p)

(* The burst loop from state s with n packets sent: every [st, n, busy]    *)
(* it can leave with.  An iteration first takes _q, killing it if it has   *)
(* expired, then pulls upstream only if it has no packet; a failed pull    *)
(* may put the upstream notifier to sleep (SLEEPINESS_TRIGGER).            *)
RECURSIVE Transmit(_, _), Pulled(_, _, _), Continue(_, _)

Continue(rs, n) ==
    UNION {IF r.busy THEN {[st |-> r.st, n |-> n, busy |-> TRUE]}
                     ELSE Transmit(r.st, n + 1) : r \in rs}

Pulled(s, p, n) ==
    IF p # NoPkt THEN Continue(queue_packet(s, p), n)
    ELSE IF s.up = <<>>
    THEN {[st |-> [s EXCEPT !.signal = sig], n |-> n, busy |-> FALSE] :
            sig \in {s.signal, FALSE}}
    ELSE Continue(queue_packet([s EXCEPT !.up = Tail(@)], Head(s.up)), n)

(* An expired packet that is killed but not forgotten (p = 0 missing). *)
TakeHeldNoNull(s, n) ==
    IF s.q = NoPkt THEN Pulled(s, NoPkt, n)
    ELSE IF JiffiesLess(s.qExpiry, jiffies)
    THEN Pulled([s EXCEPT !.q = NoPkt, !.dropped = @ \cup {s.q}], s.q, n)
    ELSE Pulled([s EXCEPT !.q = NoPkt], s.q, n)

TakeHeld(s, n) ==
    IF s.q = NoPkt THEN Pulled(s, NoPkt, n)
    ELSE IF JiffiesLess(s.qExpiry, jiffies)
    THEN Pulled([s EXCEPT !.q = NoPkt, !.dropped = @ \cup {s.q}], NoPkt, n)
    ELSE Pulled([s EXCEPT !.q = NoPkt], s.q, n)

Transmit(s, n) ==
    IF n >= Burst THEN {[st |-> s, n |-> n, busy |-> FALSE]}
    ELSE IF s.stopped THEN {[st |-> s, n |-> n, busy |-> TRUE]}
    ELSE TakeHeld(s, n)

(* A reschedule decision that ignores the upstream signal. *)
RescheduleSentOnly(busy, n, sig) ==
    /\ IF TxNotify THEN ~busy /\ n > 0 ELSE busy \/ n > 0
    /\ ~(busy /\ n = 0 /\ ~carrier)

(* run_task's closing decision whether to fast_reschedule. *)
Reschedule(busy, n, sig) ==
    /\ IF TxNotify THEN ~busy /\ (n > 0 \/ sig) ELSE busy \/ n > 0 \/ sig
    /\ ~(busy /\ n = 0 /\ ~carrier)

RunTaskEnd(r) ==
    /\ up' = r.st.up /\ signal' = r.st.signal
    /\ q' = r.st.q /\ qExpiry' = r.st.qExpiry /\ stopped' = r.st.stopped
    /\ sent' = r.st.sent /\ dropped' = r.st.dropped /\ lost' = r.st.lost
    /\ freed' = r.st.freed /\ rejects' = r.st.rejects
    /\ scheduled' = Reschedule(r.busy, r.n, r.st.signal)

(* run_task: the task is taken off the run list and runs the burst loop.  *)
(* A failed trylock of the xmit lock only reschedules, a stutter here.     *)
RunTask ==
    /\ scheduled
    /\ \E r \in Transmit(Loop0, 0) : RunTaskEnd(r)
    /\ UNCHANGED <<pushed, strongOff, jiffies, dev, carrierOk, carrier, downs>>

(* An upstream NotifierQueue::push: the packet is stored and the empty     *)
(* notifier's wake() reschedules the task if the notifier was asleep.     *)
Push(p) ==
    /\ p \notin ToSet(pushed)
    /\ up' = Append(up, p) /\ pushed' = Append(pushed, p)
    /\ signal' = TRUE
    /\ scheduled' = IF signal THEN scheduled ELSE Rescheduled
    /\ UNCHANGED <<strongOff, q, qExpiry, jiffies, dev, carrierOk, carrier,
                   stopped, sent, dropped, lost, freed, rejects, downs>>

(* The driver wakes its stopped queue (netif_wake_queue).  With the tx     *)
(* notifier, tx_notifier_hook finds the ToDevice of a present device and   *)
(* tx_wake_queue reschedules its task.                                     *)
TxWakeQueue ==
    /\ stopped
    /\ stopped' = FALSE
    /\ scheduled' = IF TxNotify /\ dev THEN Rescheduled ELSE scheduled
    /\ UNCHANGED <<up, signal, pushed, strongOff, q, qExpiry, jiffies, dev,
                   carrierOk, carrier, sent, dropped, lost, freed, rejects,
                   downs>>

(* The carrier changes and the netdevice notifier delivers NETDEV_CHANGE:  *)
(* change_device(dev) with the same device records the carrier through    *)
(* set_device and reschedules the task if it is up.                        *)
CarrierChange ==
    /\ carrier' = ~carrier
    /\ carrierOk' = IF dev THEN carrier' ELSE carrierOk
    /\ scheduled' = IF dev /\ carrier' THEN Rescheduled ELSE scheduled
    /\ UNCHANGED <<up, signal, pushed, strongOff, q, qExpiry, jiffies, dev,
                   stopped, sent, dropped, lost, freed, rejects, downs>>

(* NETDEV_DOWN (or NETDEV_GOING_DOWN): change_device(0) strong-unschedules *)
(* the task and set_device forgets the device.                             *)
DeviceDown ==
    /\ dev /\ downs < MaxDown
    /\ dev' = FALSE /\ carrierOk' = FALSE
    /\ scheduled' = FALSE /\ strongOff' = TRUE
    /\ downs' = downs + 1
    /\ UNCHANGED <<up, signal, pushed, q, qExpiry, jiffies, carrier, stopped,
                   sent, dropped, lost, freed, rejects>>

(* NETDEV_UP: change_device(dev) for a ToDevice waiting for its device     *)
(* strong-unschedules, sets the device and strong-reschedules the task.    *)
DeviceUp ==
    /\ ~dev
    /\ dev' = TRUE /\ carrierOk' = carrier
    /\ scheduled' = TRUE /\ strongOff' = FALSE
    /\ UNCHANGED <<up, signal, pushed, q, qExpiry, jiffies, carrier, stopped,
                   sent, dropped, lost, freed, rejects, downs>>

(* A jiffy passes. *)
Tick ==
    /\ jiffies < MaxJiffies
    /\ jiffies' = jiffies + 1
    /\ UNCHANGED <<up, signal, pushed, scheduled, strongOff, q, qExpiry, dev,
                   carrierOk, carrier, stopped, sent, dropped, lost, freed,
                   rejects, downs>>

Next ==
    \/ RunTask
    \/ \E p \in Pkts : Push(p)
    \/ TxWakeQueue
    \/ CarrierChange
    \/ DeviceDown
    \/ DeviceUp
    \/ Tick

(* Click's scheduler runs every task on its run list; a driver with a      *)
(* stopped queue drains its ring and wakes it; a device that went down is  *)
(* brought up again.                                                       *)
Spec == Init /\ [][Next]_vars
        /\ WF_vars(RunTask) /\ WF_vars(TxWakeQueue) /\ WF_vars(DeviceUp)

-----------------------------------------------------------------------------
Held == IF q = NoPkt THEN {} ELSE {q}

TypeOK ==
    /\ up \in Seq(Pkts) /\ pushed \in Seq(Pkts) /\ sent \in Seq(Pkts)
    /\ {signal, scheduled, strongOff, dev, carrierOk, carrier, stopped}
         \subseteq BOOLEAN
    /\ q \in Pkts \cup {NoPkt}
    /\ qExpiry \in 0 .. MaxJiffies + QueueTimeout
    /\ jiffies \in 0 .. MaxJiffies
    /\ {dropped, lost, freed} \subseteq SUBSET Pkts
    /\ rejects \in 0 .. MaxBusy /\ downs \in 0 .. MaxDown

(* Every packet pushed upstream is in exactly one place: still upstream,   *)
(* held in _q, accepted by the driver, killed on expiry, or lost when its *)
(* padded copy failed.  run_task's take of _q, the expiry kill and the    *)
(* hold after a refusal must neither duplicate a packet nor forget one.    *)
PacketsAccounted ==
    /\ ToSet(pushed) = ToSet(up) \cup Held \cup ToSet(sent) \cup dropped \cup lost
    /\ Len(pushed) = Len(up) + Cardinality(Held) + Len(sent)
                     + Cardinality(dropped) + Cardinality(lost)

(* The driver receives packets in the order they were pushed upstream: a   *)
(* refused packet held in _q is retried before the next one is pulled.    *)
SentInOrder == sent = SelectSeq(pushed, LAMBDA x : x \in ToSet(sent))

(* Every packet pushed upstream eventually leaves: the driver accepts it,  *)
(* or it expires in _q, or its copy fails.  This needs run_task's          *)
(* reschedule decision and the notifiers to leave no state in which work   *)
(* remains and nothing will run the task again.                            *)
PushedLeaves ==
    \A p \in Pkts :
        p \in ToSet(pushed) ~> p \in ToSet(sent) \cup dropped \cup lost

(* The packet held in _q still owns its skb: queue_packet never holds a    *)
(* packet whose skb it has freed, so the retry never hands freed memory to *)
(* the driver.                                                             *)
HeldSkbLive == q # NoPkt => q \notin freed
=============================================================================
