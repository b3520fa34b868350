---------------------------- MODULE TCPSeqDelta ----------------------------
(***************************************************************************)
(* The sequence-number deltas of TCPRewriter::TCPMapping                  *)
(* (elements/tcpudp/tcprewriter.cc, tcprewriter.hh).  A proxy upstream of *)
(* the rewriter (FTPPortMapper in Click, not in this repository) resizes  *)
(* a segment's payload by d and calls update_seqno_delta(trigger, d) with *)
(* trigger the original sequence number just past that payload.  apply() *)
(* then rewrites th_seq of every segment of the flow with new_seq, and    *)
(* th_ack of every segment of the reverse flow with new_ack of this       *)
(* mapping (reverse()->new_ack).                                           *)
(*                                                                         *)
(* The sender's stream is K segments of fixed lengths starting at ISN;    *)
(* it sends them in order within a window of Win unacknowledged segments *)
(* and retransmits any unacknowledged one.  The receiver's cumulative     *)
(* ACKs reach the rewriter in any order and any number of times.          *)
(* Sequence numbers are SeqBits wide (32 in the code) and compared by     *)
(* SEQ_LEQ / SEQ_GEQ, a signed difference.                                *)
(***************************************************************************)
EXTENDS Integers, Sequences, SequencesExt

CONSTANTS
    SeqBits,      \* width of tcp_seq_t
    ISN,          \* the sender's first sequence number
    NSegs,        \* segments the sender sends
    SegLen,       \* payload length of each segment
    Win,          \* segments sent beyond the last acknowledged one
    Resizable,    \* segments the proxy may resize
    GrowBy,       \* the bytes the proxy may add to a segment
    ShrinkBy      \* the bytes the proxy may remove from a segment

VARIABLES
    tm,           \* the TCPMapping: [trigger, delta, old_delta]
    resized,      \* the change the proxy made to each segment (0: none)
    nxt,          \* segments sent so far
    una,          \* segments acknowledged so far
    last          \* the last translation: kind, segment, value got, value wanted

vars == <<tm, resized, nxt, una, last>>

(* Payload length of each segment, in order. *)
Lens == [k \in 1..NSegs |-> SegLen]
K == NSegs
(* The size changes the proxy may make. *)
Deltas == GrowBy \cup {-d : d \in ShrinkBy}
Mod == 2^SeqBits
Wrap(x) == x % Mod

(* SEQ_LT and friends: the signed difference of two sequence numbers. *)
SeqDiff(a, b) == LET d == Wrap(a - b) IN IF d >= Mod \div 2 THEN d - Mod ELSE d
SeqLeq(a, b) == SeqDiff(a, b) <= 0
SeqGeq(a, b) == SeqDiff(a, b) >= 0

(* The original sequence number at the end of segment k (k = 0: ISN). *)
End(k) == Wrap(ISN + FoldLeft(+, 0, SubSeq(Lens, 1, k)))
(* Where the rewritten stream has it: shifted by every resize up to k. *)
NewEnd(k) == Wrap(End(k) + FoldLeft(+, 0, SubSeq(resized, 1, k)))

(* Variant: a trigger at or before the last one accepted again. *)
UpdateSeqnoDeltaAlways(m, trig, d) ==
    [trigger |-> trig, delta |-> m.delta + d, old_delta |-> m.delta]

(***************************************************************************)
(* update_seqno_delta: refuse a trigger at or before the current one once *)
(* any delta is set; otherwise the current delta becomes the old one.     *)
(***************************************************************************)
UpdateSeqnoDelta(m, trig, d) ==
    IF SeqLeq(trig, m.trigger) /\ (m.trigger # 0 \/ m.delta # 0 \/ m.old_delta # 0)
    THEN m
    ELSE [trigger |-> trig, delta |-> m.delta + d, old_delta |-> m.delta]

(* new_seq and new_ack (tcprewriter.hh). *)
NewSeq(m, s) == Wrap(s + IF SeqGeq(s, m.trigger) THEN m.delta ELSE m.old_delta)

(* Variant: the ACK compared with the trigger before the delta is removed. *)
NewAckUnshifted(m, a) ==
    IF SeqGeq(a, m.trigger) THEN Wrap(a - m.delta) ELSE Wrap(a - m.old_delta)

NewAck(m, a) ==
    LET mod == Wrap(a - m.delta)
    IN IF SeqGeq(mod, m.trigger) THEN mod ELSE Wrap(a - m.old_delta)

Init ==
    /\ tm = [trigger |-> 0, delta |-> 0, old_delta |-> 0]
    /\ resized = [k \in 1..K |-> 0]
    /\ nxt = 0 /\ una = 0
    /\ last = [kind |-> "none"]

(***************************************************************************)
(* The proxy and the rewriter on segment k: a resize d (chosen on the     *)
(* first transmission, repeated on a retransmission) calls                *)
(* update_seqno_delta(End(k), d); apply() then rewrites th_seq.           *)
(***************************************************************************)
Transmit(k, d) ==
    LET m == IF d # 0 THEN UpdateSeqnoDelta(tm, End(k), d) ELSE tm
    IN /\ tm' = m
       /\ last' = [kind |-> "seq", seg |-> k, got |-> NewSeq(m, End(k - 1)),
                   want |-> NewEnd(k - 1)]

SendNew ==
    /\ nxt < K /\ nxt < una + Win
    /\ \E d \in IF nxt + 1 \in Resizable THEN Deltas ELSE {0} :
          /\ resized' = [resized EXCEPT ![nxt + 1] = d]
          /\ Transmit(nxt + 1, d)
    /\ nxt' = nxt + 1
    /\ UNCHANGED una

Retransmit ==
    /\ \E k \in una + 1..nxt : Transmit(k, resized[k])
    /\ UNCHANGED <<resized, nxt, una>>

(* A cumulative ACK for the end of segment k, as the receiver sent it, is *)
(* rewritten by new_ack on its way back to the sender.                    *)
Ack ==
    /\ \E k \in 1..nxt :
          /\ last' = [kind |-> "ack", seg |-> k, got |-> NewAck(tm, NewEnd(k)), want |-> End(k)]
          /\ una' = IF k > una THEN k ELSE una
    /\ UNCHANGED <<tm, resized, nxt>>

Next == SendNew \/ Retransmit \/ Ack

Spec == Init /\ [][Next]_vars
-----------------------------------------------------------------------------
TypeOK ==
    /\ tm \in [trigger : 0..Mod - 1, delta : Int, old_delta : Int]
    /\ resized \in [1..K -> Deltas \cup {0}]
    /\ nxt \in 0..K /\ una \in 0..nxt

(***************************************************************************)
(* Every segment the rewriter sends, first transmission or                *)
(* retransmission, starts where the resized stream has it, and every ACK *)
(* it passes back names the original sequence number the receiver's ACK  *)
(* stands for: the receiver sees one consistent stream and the sender is *)
(* never told that data the receiver has not got was received.           *)
(***************************************************************************)
SeqTranslated == last.kind = "seq" => last.got = last.want
AckTranslated == last.kind = "ack" => last.got = last.want
====
