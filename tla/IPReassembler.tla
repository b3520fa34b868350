---------------------------- MODULE IPReassembler ----------------------------
(***************************************************************************)
(* IPReassembler (elements/ip/ipreassembler.cc): fragments of a datagram  *)
(* are collected in one packet q per segment, kept in a singly linked     *)
(* list per hash bucket of _map.  q's transport area holds the bytes      *)
(* received so far; the byte ranges received ("chunks") are a linked list *)
(* whose first link sits in a packet annotation and whose next links are  *)
(* stored in q's own memory, at the start of each hole ("next_chunk":     *)
(* transport_header() + chunk->lastoff).  A ChunkLink is two uint16,      *)
(* off then lastoff, 4 bytes.                                             *)
(*                                                                         *)
(* simple_action runs on one thread, so each call is one atomic action.   *)
(* A byte of q is Data(i) (byte i of the datagram, as every fragment      *)
(* carries it), a byte of a stored ChunkLink, or Junk.  IP header copying, *)
(* checksums and annotations other than the timestamp are left out.      *)
(***************************************************************************)
EXTENDS Integers, Sequences, FiniteSets, SequencesExt, FiniteSetsExt

CONSTANTS
    Segs,            \* datagrams (same_segment classes)
    NMAP,            \* number of buckets of _map
    Bucket(_),       \* bucketno: the bucket of a segment
    Frags,           \* fragments that arrive: [off, lastoff, mf] (bytes)
    NPkts,           \* fragments that arrive in a behaviour
    IPH_MEM_USED,    \* memory charged per queue besides its data
    HIMEM,           \* _mem_high_thresh
    REAP_TIMEOUT,    \* age in seconds after which reap() drops a queue
    REAP_INTERVAL,   \* seconds between two reaps
    OverfullAges,    \* the deltas of reap_overfull's outer loop, in order
    MakeTs,          \* the timestamp annotation of a new Packet::make
    Start, MaxTime,  \* first and last value of the clock (seconds)
    MemTop           \* last byte index of q's buffer the model tracks

VARIABLES
    qs,         \* qs[s]: the queue packet of segment s, or None
    map,        \* map[b]: the segments queued in bucket b, list order
    mem_used,   \* _mem_used
    reap_time,  \* _reap_time
    now,        \* the clock, in seconds
    np,         \* fragments arrived so far
    emitted,    \* datagrams emitted on output 0
    reaped      \* queues reap() sent to output 1: [seg, born, at]

vars == <<qs, map, mem_used, reap_time, now, np, emitted, reaped>>

None == [len |-> -1]
Buckets == 0..NMAP - 1

(* Bytes of q's buffer. *)
Data(i) == <<"d", i, 0>>
Junk == <<"u", 0, 0>>
LinkBytes(o, l) == <<<<"f", o, 0>>, <<"f", o, 1>>, <<"f", l, 2>>, <<"f", l, 3>>>>

WriteBytes(m, x, bs) ==
    [k \in DOMAIN m |-> IF x <= k /\ k < x + Len(bs) THEN bs[k - x + 1] ELSE m[k]]
DataBytes(off, lastoff) == [k \in 1..lastoff - off |-> Data(off + k - 1)]

(* A ChunkLink read from q's memory at x, or Corrupt if its bytes are not *)
(* the two fields some link store wrote there.                           *)
Corrupt == <<-1, -1>>
ReadLink(m, x) ==
    IF /\ x + 3 \in DOMAIN m /\ x \in DOMAIN m
       /\ m[x][1] = "f" /\ m[x][3] = 0 /\ m[x + 1] = <<"f", m[x][2], 1>>
       /\ m[x + 2][1] = "f" /\ m[x + 2][3] = 2 /\ m[x + 3] = <<"f", m[x + 2][2], 3>>
    THEN <<m[x][2], m[x + 2][2]>>
    ELSE Corrupt

(***************************************************************************)
(* The chunk list, walked as next_chunk walks it: at = -1 is the link in  *)
(* the annotation (PACKET_CHUNK), otherwise the byte offset of the link.  *)
(* The walk stops at a link whose lastoff does not grow.                  *)
(***************************************************************************)
RECURSIVE ChunksFrom(_, _, _)
ChunksFrom(q, c, at) ==
    LET here == <<[off |-> c[1], lastoff |-> c[2], at |-> at]>>
        n    == ReadLink(q.mem, c[2])
    IN IF c = Corrupt \/ c[2] >= q.len THEN here
       ELSE IF n # Corrupt /\ n[2] <= c[2]
            THEN here \o <<[off |-> n[1], lastoff |-> n[2], at |-> c[2]]>>
            ELSE here \o ChunksFrom(q, n, c[2])
Chunks(q) == ChunksFrom(q, q.anno, -1)

(* "chunk->lastoff = l" and "chunk->off = o" on the link stored at at. *)
SetLastAt(q, at, l) ==
    IF at = -1 THEN [q EXCEPT !.anno[2] = l]
    ELSE [q EXCEPT !.mem = WriteBytes(@, at + 2, SubSeq(LinkBytes(0, l), 3, 4))]
SetOffAt(q, at, o) ==
    IF at = -1 THEN [q EXCEPT !.anno[1] = o]
    ELSE [q EXCEPT !.mem = WriteBytes(@, at, SubSeq(LinkBytes(o, 0), 1, 2))]

Footprint(q) == IPH_MEM_USED + q.len
Live(st) == {s \in Segs : st.qs[s] # None}
LowThresh == (HIMEM \div 4) * 3

(* The element's state as a record, and its commit. *)
S == [qs |-> qs, map |-> map, mem |-> mem_used, rt |-> reap_time,
      emitted |-> emitted, reaped |-> reaped]
Commit(st) ==
    /\ qs' = st.qs /\ map' = st.map /\ mem_used' = st.mem
    /\ reap_time' = st.rt /\ emitted' = st.emitted /\ reaped' = st.reaped

(* find_queue: the queue of s's segment, or None. *)
FindQueue(st, s) == st.qs[s]

(* Take s's queue off its bucket list and out of _mem_used. *)
Unlink(st, s) ==
    [st EXCEPT !.qs[s] = None,
               !.map[Bucket(s)] = SelectSeq(@, LAMBDA x : x # s),
               !.mem = @ - Footprint(st.qs[s])]
-----------------------------------------------------------------------------
(* Variant: reap() forgets to take the dropped queues out of _mem_used. *)
ReapKeepsMem(st, t) ==
    LET old == {s \in Live(st) : st.qs[s].ts < t - REAP_TIMEOUT}
    IN [st EXCEPT !.qs = [s \in Segs |-> IF s \in old THEN None ELSE @[s]],
                  !.map = [b \in Buckets |-> SelectSeq(@[b], LAMBDA x : x \notin old)],
                  !.reaped = @ \cup {[seg |-> s, born |-> st.qs[s].born, at |-> t] : s \in old},
                  !.rt = t + REAP_INTERVAL]

(***************************************************************************)
(* reap(now): every queue whose timestamp is older than now -              *)
(* REAP_TIMEOUT goes to output 1; the next reap is REAP_INTERVAL later.   *)
(***************************************************************************)
Reap(st, t) ==
    LET old == {s \in Live(st) : st.qs[s].ts < t - REAP_TIMEOUT}
    IN [st EXCEPT !.qs = [s \in Segs |-> IF s \in old THEN None ELSE @[s]],
                  !.map = [b \in Buckets |-> SelectSeq(@[b], LAMBDA x : x \notin old)],
                  !.mem = @ - MapThenSumSet(LAMBDA s : Footprint(st.qs[s]), old),
                  !.reaped = @ \cup {[seg |-> s, born |-> st.qs[s].born, at |-> t] : s \in old},
                  !.rt = t + REAP_INTERVAL]

(***************************************************************************)
(* reap_overfull(now): for each delta of OverfullAges, walk the buckets   *)
(* in order and each list from its head, sending to output 1 every queue  *)
(* older than now - delta, and return as soon as _mem_used is at most the *)
(* low threshold.  DropOld visits the queues of one pass in list order.   *)
(***************************************************************************)
RECURSIVE OverfullPass(_, _, _), DropOld(_, _, _, _)
OverfullPass(st, t, ds) ==
    IF ds = <<>> THEN st
    ELSE DropOld(st, t, ds, FlattenSeq([i \in 1..NMAP |-> st.map[i - 1]]))
DropOld(st, t, ds, order) ==
    IF order = <<>> THEN OverfullPass(st, t, Tail(ds))
    ELSE LET s == Head(order) IN
         IF st.qs[s].ts < t - Head(ds)
         THEN LET st2 == Unlink(st, s) IN
              IF st2.mem <= LowThresh THEN st2 ELSE DropOld(st2, t, ds, Tail(order))
         ELSE DropOld(st, t, ds, Tail(order))

(***************************************************************************)
(* make_queue: a new packet of hl + lastoff bytes holding f's data, the   *)
(* one chunk (off, lastoff) in the annotation, f's MF bit, and f's        *)
(* timestamp when f is the first fragment (copy_annotations), else the    *)
(* fresh packet's; it goes to the head of its bucket.  A failed           *)
(* Packet::make leaves everything as it was.                              *)
(***************************************************************************)
MakeQueue(st, s, f, t, allocOk) ==
    IF ~allocOk THEN st
    ELSE [st EXCEPT
            !.qs[s] = [len |-> f.lastoff, mf |-> f.mf, anno |-> <<f.off, f.lastoff>>,
                       mem |-> WriteBytes([k \in 0..MemTop |-> Junk], f.off,
                                          DataBytes(f.off, f.lastoff)),
                       ts |-> IF f.off = 0 THEN t ELSE MakeTs,
                       born |-> t, got |-> {f}],
            !.map[Bucket(s)] = <<s>> \o @,
            !.mem = @ + IPH_MEM_USED + f.lastoff]

(***************************************************************************)
(* "find chunks before and after p" and "patch chunks": chunk is the      *)
(* first chunk ending at or after f.off, last the first from there ending *)
(* at or after f.lastoff.  If f ends before last begins, a copy of last's *)
(* link is stored at f.lastoff and chunk now ends there; otherwise chunk  *)
(* absorbs last.  chunk's start moves down to f.off; then f's data is     *)
(* copied in.                                                              *)
(***************************************************************************)
Patch(q, f) ==
    LET cs == Chunks(q)
        ci == SelectInSeq(cs, LAMBDA c : c.lastoff >= f.off)
        li == SelectInSubSeq(cs, ci, Len(cs), LAMBDA c : c.lastoff >= f.lastoff)
        c  == cs[ci]
        l  == cs[li]
        q1 == IF f.lastoff < l.off
              THEN SetLastAt([q EXCEPT !.mem = WriteBytes(@, f.lastoff, LinkBytes(l.off, l.lastoff))],
                             c.at, f.lastoff)
              ELSE SetLastAt(q, c.at, l.lastoff)
        q2 == IF f.off < c.off THEN SetOffAt(q1, c.at, f.off) ELSE q1
    IN [q2 EXCEPT !.mem = WriteBytes(@, f.off, DataBytes(f.off, f.lastoff))]

(* put(want_space) then take(): q grows to f.lastoff, the new bytes hold  *)
(* whatever the new buffer held, and a chunk (lastoff, lastoff) is linked *)
(* at the old end.                                                         *)
Extend(q, f) ==
    [q EXCEPT !.len = f.lastoff,
              !.mem = WriteBytes([k \in DOMAIN @ |-> IF k < q.len THEN @[k] ELSE Junk],
                                 q.len, LinkBytes(f.lastoff, f.lastoff))]

(* emit_whole_packet: q leaves its bucket and _mem_used, goes to output 0. *)
Emit(st, s, q) ==
    [Unlink([st EXCEPT !.qs[s] = q], s) EXCEPT
        !.emitted = @ \cup {[seg |-> s, len |-> q.len, data |-> [i \in 0..q.len - 1 |-> q.mem[i]]]}]

(* Variant: MF is not cleared when the incoming fragment has it clear. *)
MergeKeepsMF(st, s, f, allocOk) ==
    LET q0 == st.qs[s]
        grow == f.lastoff > q0.len
        q1 == IF grow THEN Extend(q0, f) ELSE q0
        st1 == IF grow THEN [st EXCEPT !.mem = @ + f.lastoff - q0.len] ELSE st
        q2 == Patch(q1, f)
        q3 == [q2 EXCEPT !.got = @ \cup {f}]
    IN IF grow /\ ~q0.mf THEN st
       ELSE IF grow /\ ~allocOk THEN Unlink(st, s)
       ELSE IF ~q3.mf /\ q3.anno = <<0, q3.len>>
       THEN Emit(st1, s, q3)
       ELSE [st1 EXCEPT !.qs[s] = q3]

(* Variant: the "PACKET_CHUNK(q).off == 0" test of the completion check  *)
(* left out.                                                               *)
MergeEmitEarly(st, s, f, allocOk) ==
    LET q0 == st.qs[s]
        grow == f.lastoff > q0.len
        q1 == IF grow THEN Extend(q0, f) ELSE q0
        st1 == IF grow THEN [st EXCEPT !.mem = @ + f.lastoff - q0.len] ELSE st
        q2 == Patch(q1, f)
        q3 == [q2 EXCEPT !.mf = q2.mf /\ f.mf, !.got = @ \cup {f}]
    IN IF grow /\ ~q0.mf THEN st
       ELSE IF grow /\ ~allocOk THEN Unlink(st, s)
       ELSE IF ~q3.mf /\ q3.anno[2] = q3.len
       THEN Emit(st1, s, q3)
       ELSE [st1 EXCEPT !.qs[s] = q3]

(***************************************************************************)
(* The rest of simple_action once q exists: extend it (refused once q has *)
(* seen its last fragment; on a failed put q is lost and uncounted),      *)
(* patch, clear MF if f has it clear, and emit q when MF is clear and the *)
(* first chunk covers it all (emit_whole_packet).                         *)
(***************************************************************************)
Merge(st, s, f, allocOk) ==
    LET q0 == st.qs[s]
        grow == f.lastoff > q0.len
        q1 == IF grow THEN Extend(q0, f) ELSE q0
        st1 == IF grow THEN [st EXCEPT !.mem = @ + f.lastoff - q0.len] ELSE st
        q2 == Patch(q1, f)
        q3 == [q2 EXCEPT !.mf = q2.mf /\ f.mf, !.got = @ \cup {f}]
    IN IF grow /\ ~q0.mf THEN st
       ELSE IF grow /\ ~allocOk THEN Unlink(st, s)
       ELSE IF ~q3.mf /\ q3.anno = <<0, q3.len>>
       THEN Emit(st1, s, q3)
       ELSE [st1 EXCEPT !.qs[s] = q3]

(***************************************************************************)
(* simple_action on fragment f of datagram s at time now: reap when due;  *)
(* drop f if its length is bad or it is a middle fragment whose end is    *)
(* not a multiple of 8; reap_overfull when _mem_used is over HIMEM; then  *)
(* start a queue or merge into the existing one.                          *)
(***************************************************************************)
(* Variant: a middle fragment's end is not required to be a multiple of 8. *)
BadLengthNoAlign(f) == f.lastoff <= f.off

BadLength(f) == f.lastoff <= f.off \/ (f.lastoff % 8 # 0 /\ f.mf)

Arrive(st, s, f, t, allocOk) ==
    LET st1 == IF t >= st.rt THEN Reap(st, t) ELSE st
        st2 == IF st1.mem > HIMEM THEN OverfullPass(st1, t, OverfullAges) ELSE st1
    IN IF BadLength(f) THEN st1
       ELSE IF FindQueue(st2, s) = None THEN MakeQueue(st2, s, f, t, allocOk)
       ELSE Merge(st2, s, f, allocOk)

Init ==
    /\ qs = [s \in Segs |-> None]
    /\ map = [b \in Buckets |-> <<>>]
    /\ mem_used = 0
    /\ reap_time = 0
    /\ now = Start
    /\ np = 0
    /\ emitted = {}
    /\ reaped = {}

Receive ==
    /\ np < NPkts
    /\ \E s \in Segs, f \in Frags, allocOk \in BOOLEAN :
          Commit(Arrive(S, s, f, now, allocOk))
    /\ np' = np + 1
    /\ UNCHANGED now

Tick ==
    /\ now < MaxTime
    /\ now' = now + 1
    /\ UNCHANGED <<qs, map, mem_used, reap_time, np, emitted, reaped>>

Next == Receive \/ Tick

Spec == Init /\ [][Next]_vars
-----------------------------------------------------------------------------
(***************************************************************************)
(* IPReassembler::check(): in every queue each chunk is non-empty and     *)
(* within the packet, and the next chunk starts at least 8 bytes after    *)
(* the previous one ends, so the hole between them can hold the link that *)
(* simple_action stores there.  A link whose bytes were overwritten reads *)
(* as Corrupt and fails the first test.                                   *)
(***************************************************************************)
ChunksWellFormed ==
    \A s \in Segs : qs[s] # None =>
        LET cs == Chunks(qs[s]) IN
        /\ \A i \in 1..Len(cs) : cs[i].off < cs[i].lastoff /\ cs[i].lastoff <= qs[s].len
        /\ \A i \in 2..Len(cs) : cs[i].off >= cs[i - 1].lastoff + 8

(***************************************************************************)
(* check()'s "bad mem_used": _mem_used is the sum over queued packets of  *)
(* IPH_MEM_USED plus their transport length, through make_queue,         *)
(* extension, a failed put, emission, reap and reap_overfull.             *)
(***************************************************************************)
MemAccounted ==
    mem_used = MapThenSumSet(LAMBDA s : Footprint(qs[s]), {s \in Segs : qs[s] # None})

(***************************************************************************)
(* Every datagram emitted holds, at each offset, the byte the fragments   *)
(* carried for that offset: no ChunkLink or stale byte reaches output 0,  *)
(* whatever the order, duplication and overlap of the fragments.          *)
(***************************************************************************)
EmittedIntact ==
    \A e \in emitted : \A i \in 0..e.len - 1 : e.data[i] = Data(i)

(***************************************************************************)
(* A queue never holds a datagram it could emit: once the fragments a     *)
(* queue accepted include the last one and cover every byte before its    *)
(* end, simple_action has emitted it.                                      *)
(***************************************************************************)
Covers(G) ==
    \E e \in G : ~e.mf /\ \A i \in 0..e.lastoff - 1 : \E g \in G : g.off <= i /\ i < g.lastoff
CompleteIsEmitted ==
    \A s \in Segs : qs[s] # None => ~Covers(qs[s].got)

(***************************************************************************)
(* reap() drops only a queue older than REAP_TIMEOUT (its comment: "If no *)
(* activity for 30 seconds, kill that queue"): every queue it sent to     *)
(* output 1 was created more than REAP_TIMEOUT seconds before.            *)
(***************************************************************************)
ReapedOnlyStale ==
    \A r \in reaped : r.at - r.born > REAP_TIMEOUT
====
