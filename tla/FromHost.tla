------------------------------ MODULE FromHost ------------------------------
(* FromHost in the Linux kernel module (fromhost.cc): a fake network       *)
(* device whose hard_start_xmit, fl_tx, stores the kernel's packets in a   *)
(* ring of Capacity + 1 slots, and a Click task that takes them off the    *)
(* ring and pushes them into a downstream queue with a full notifier.      *)
(* fl_tx runs at bottom-half time under fromlinux_map's lock, which the    *)
(* task does not take.  On one CPU the bottom half runs to completion      *)
(* whenever it interrupts the task; with SMP it runs beside the task and   *)
(* each of its shared accesses is a step of its own.                       *)
EXTENDS Naturals, Sequences, SequencesExt

CONSTANTS
    Pkts,       \* the packets the kernel transmits on the device, each once
    Bad,        \* packets TYPE IP finds no valid IPv4 or IPv6 header in
    Capacity,   \* _capacity
    DownCap,    \* capacity of the downstream queue
    SMP         \* the bottom half may run on another CPU than the task

ASSUME /\ Bad \subseteq Pkts
       /\ Capacity \in Nat \ {0} /\ DownCap \in Nat \ {0} /\ SMP \in BOOLEAN

NoPkt == CHOOSE x : x \notin Pkts

Slots == 0 .. Capacity

(* next_i: the ring index after i. *)
next_i(i) == IF i = Capacity THEN 0 ELSE i + 1

VARIABLES
    slot,       \* _q: the ring's slots
    head,       \* _head
    tail,       \* _tail
    scheduled,  \* _task is on its thread's run list
    nonfull,    \* _nonfull_signal: the downstream queue is not full
    down,       \* the downstream queue
    out,        \* packets pulled from the downstream queue
    invalid,    \* packets run_task pushed out of output 1
    taken,      \* packets run_task took off the ring, in order
    killed,     \* packets cleanup() killed on the ring, in order
    live,       \* the element is in fromlinux_map (before cleanup)
    devUp,      \* the kernel's transmit queue is started (fl_open)
    acc,        \* packets fl_tx accepted (NETDEV_TX_OK), in order
    refused,    \* packets fl_tx refused (NETDEV_TX_BUSY)
    txpc,       \* where fl_tx is: "idle", "resched", "store" or "publish"
    txp,        \* the packet fl_tx is storing
    txnext,     \* fl_tx's next = next_i(_tail)
    tpc         \* where run_task is: "idle" or "done" (before its last test)

vars == <<slot, head, tail, scheduled, nonfull, down, out, invalid, taken,
          killed, live, devUp, acc, refused, txpc, txp, txnext, tpc>>

Sent == ToSet(acc) \cup refused \cup (IF txpc = "idle" THEN {} ELSE {txp})

(* The kernel transmits only on a started queue; a packet it hands over   *)
(* while the element is gone is refused (-1) and freed like NETDEV_TX_BUSY. *)
Transmittable(p) == devUp /\ txpc = "idle" /\ p \notin Sent

(* The packets between _head and _tail, oldest first. *)
RECURSIVE RingFrom(_)
RingFrom(i) == IF i = tail THEN <<>> ELSE <<slot[i]>> \o RingFrom(next_i(i))

Init ==
    /\ slot = [i \in Slots |-> NoPkt] /\ head = 0 /\ tail = 0
    /\ scheduled = TRUE /\ nonfull = TRUE
    /\ down = <<>> /\ out = <<>> /\ invalid = <<>> /\ taken = <<>>
    /\ killed = <<>> /\ live = TRUE /\ devUp = TRUE
    /\ acc = <<>> /\ refused = {}
    /\ txpc = "idle" /\ txp = NoPkt /\ txnext = 0 /\ tpc = "idle"

-----------------------------------------------------------------------------
(* fl_tx, split at its shared accesses.  TxCheck looks the device up and  *)
(* reads _head against the next tail: it refuses the packet when the ring *)
(* is full or the element is gone.  TxResched calls _task.reschedule();    *)
(* TxStore writes the slot; TxPublish writes _tail and returns OK.         *)
TxCheck(p) ==
    /\ Transmittable(p)
    /\ txp' = p /\ txnext' = next_i(tail)
    /\ IF live /\ next_i(tail) # head
       THEN txpc' = "resched" /\ UNCHANGED refused
       ELSE txpc' = "idle" /\ refused' = refused \cup {p}
    /\ UNCHANGED <<slot, head, tail, scheduled, nonfull, down, out, invalid,
                   taken, killed, live, devUp, acc, tpc>>

TxResched ==
    /\ txpc = "resched" /\ txpc' = "store"
    /\ scheduled' = TRUE
    /\ UNCHANGED <<slot, head, tail, nonfull, down, out, invalid, taken,
                   killed, live, devUp, acc, refused, txp, txnext, tpc>>

TxStore ==
    /\ txpc = "store" /\ txpc' = "publish"
    /\ slot' = [slot EXCEPT ![tail] = txp]
    /\ UNCHANGED <<head, tail, scheduled, nonfull, down, out, invalid, taken,
                   killed, live, devUp, acc, refused, txp, txnext, tpc>>

TxPublish ==
    /\ txpc = "publish" /\ txpc' = "idle"
    /\ tail' = txnext /\ acc' = Append(acc, txp)
    /\ UNCHANGED <<slot, head, scheduled, nonfull, down, out, invalid, taken,
                   killed, live, devUp, refused, txp, txnext, tpc>>

(* fl_tx as one step: the bottom half on the task's own CPU, which the    *)
(* task cannot run beside.                                                 *)
FlTx(p) ==
    /\ Transmittable(p)
    /\ IF live /\ next_i(tail) # head
       THEN /\ scheduled' = TRUE
            /\ slot' = [slot EXCEPT ![tail] = p]
            /\ tail' = next_i(tail) /\ acc' = Append(acc, p)
            /\ UNCHANGED refused
       ELSE /\ refused' = refused \cup {p}
            /\ UNCHANGED <<slot, tail, scheduled, acc>>
    /\ UNCHANGED <<head, nonfull, down, out, invalid, taken, killed, live,
                   devUp, txpc, txp, txnext, tpc>>

(* fl_close and fl_open: the kernel stops and starts the device's queue   *)
(* (ifconfig, or fl_wakeup's down and up).                                 *)
DevClose ==
    /\ devUp /\ devUp' = FALSE
    /\ UNCHANGED <<slot, head, tail, scheduled, nonfull, down, out, invalid,
                   taken, killed, live, acc, refused, txpc, txp, txnext, tpc>>

DevOpen ==
    /\ ~devUp /\ devUp' = TRUE
    /\ UNCHANGED <<slot, head, tail, scheduled, nonfull, down, out, invalid,
                   taken, killed, live, acc, refused, txpc, txp, txnext, tpc>>

(* run_task: the thread takes the task off its run list and calls it.      *)
(* With the downstream full it returns at once; with the ring empty too.   *)
(* Otherwise it takes the head packet and pushes it out of output 1 if    *)
(* TYPE IP finds no valid header in it, else downstream, whose full        *)
(* notifier turns off when the push fills the queue.                       *)
RunTask ==
    /\ live /\ tpc = "idle" /\ scheduled
    /\ scheduled' = FALSE
    /\ IF nonfull /\ head # tail
       THEN LET p == slot[head] IN
            /\ head' = next_i(head) /\ taken' = Append(taken, p)
            /\ tpc' = "done"
            /\ IF p \in Bad
               THEN invalid' = Append(invalid, p) /\ UNCHANGED <<down, nonfull>>
               ELSE /\ down' = Append(down, p)
                    /\ nonfull' = (Len(down) + 1 < DownCap)
                    /\ UNCHANGED invalid
       ELSE UNCHANGED <<head, taken, tpc, invalid, down, nonfull>>
    /\ UNCHANGED <<slot, tail, out, killed, live, devUp, acc, refused, txpc,
                   txp, txnext>>

(* run_task's last test: fast_reschedule if the ring is not empty. *)
RunTaskDone ==
    /\ tpc = "done" /\ tpc' = "idle"
    /\ scheduled' = (scheduled \/ head # tail)
    /\ UNCHANGED <<slot, head, tail, nonfull, down, out, invalid, taken,
                   killed, live, devUp, acc, refused, txpc, txp, txnext>>

(* The downstream queue's puller takes a packet; a queue that was full    *)
(* wakes its full notifier, which reschedules the listening task.          *)
Drain ==
    /\ live /\ down # <<>>
    /\ down' = Tail(down) /\ out' = Append(out, Head(down))
    /\ nonfull' = TRUE
    /\ scheduled' = IF nonfull THEN scheduled ELSE TRUE
    /\ UNCHANGED <<slot, head, tail, invalid, taken, killed, live, devUp, acc,
                   refused, txpc, txp, txnext, tpc>>

(* cleanup(), once the router has stopped its threads: remove the element *)
(* from fromlinux_map (which waits for a bottom half holding its lock),    *)
(* then kill the packets left on the ring and empty it.                    *)
Cleanup ==
    /\ live /\ tpc = "idle" /\ txpc = "idle"
    /\ live' = FALSE /\ scheduled' = FALSE
    /\ killed' = RingFrom(head)
    /\ head' = 0 /\ tail' = 0
    /\ UNCHANGED <<slot, nonfull, down, out, invalid, taken, devUp, acc,
                   refused, txpc, txp, txnext, tpc>>

Next ==
    \/ \E p \in Pkts : FlTx(p) \/ (SMP /\ TxCheck(p))
    \/ SMP /\ (TxResched \/ TxStore \/ TxPublish)
    \/ DevClose \/ DevOpen
    \/ RunTask \/ RunTaskDone \/ Drain \/ Cleanup

(* A bottom half that started finishes; Click runs every scheduled task;  *)
(* the downstream puller keeps pulling.                                    *)
Spec == Init /\ [][Next]_vars
        /\ WF_vars(TxResched) /\ WF_vars(TxStore) /\ WF_vars(TxPublish)
        /\ WF_vars(RunTask) /\ WF_vars(RunTaskDone) /\ WF_vars(Drain)

-----------------------------------------------------------------------------
TypeOK ==
    /\ slot \in [Slots -> Pkts \cup {NoPkt}]
    /\ head \in Slots /\ tail \in Slots /\ txnext \in Slots
    /\ {scheduled, nonfull} \subseteq BOOLEAN
    /\ down \in Seq(Pkts) /\ Len(down) <= DownCap
    /\ \A q \in {out, invalid, taken, killed, acc} : q \in Seq(Pkts)
    /\ refused \subseteq Pkts /\ {live, devUp} \subseteq BOOLEAN
    /\ txpc \in {"idle", "resched", "store", "publish"}
    /\ txp \in Pkts \cup {NoPkt} /\ tpc \in {"idle", "done"}

(* The packets fl_tx accepted leave in the order it accepted them, none    *)
(* lost or repeated: taken off the ring by run_task, killed by cleanup(),  *)
(* or still on the ring between _head and _tail; and of those taken, the   *)
(* valid ones went downstream in order and the others out of output 1.     *)
FifoConserved ==
    /\ acc = taken \o killed \o RingFrom(head)
    /\ SelectSeq(taken, LAMBDA x : x \notin Bad) = out \o down
    /\ SelectSeq(taken, LAMBDA x : x \in Bad) = invalid

(* While the element lives, every packet fl_tx accepted is eventually      *)
(* pulled downstream or pushed out of output 1: the reschedule in fl_tx    *)
(* and the downstream queue's wake leave no packet on the ring with the    *)
(* task asleep.                                                            *)
AcceptedLeave ==
    \A p \in Pkts :
        p \in ToSet(acc) ~> (p \in ToSet(out) \cup ToSet(invalid) \/ ~live)
=============================================================================
