------------------------------ MODULE ARPTable ------------------------------
(***************************************************************************)
(* ARPTable (elements/ethernet/arptable.cc): the IP -> Ethernet cache that *)
(* ARPQuerier consults, with packets queued on unresolved entries.         *)
(*                                                                         *)
(* Every operation that changes the table holds the write lock for its    *)
(* whole length (ensure takes it, insert and append_query release it), so *)
(* each one is a single action here.  What is not atomic is time: each    *)
(* click_jiffies() call reads the clock afresh, and the clock may advance *)
(* between two reads of one operation when TicksInside is TRUE.           *)
(*                                                                         *)
(* An entry is [live, polled, unicast, pkts]: _live_at_j, _polled_at_j,   *)
(* _unicast and the _head.._tail packet list.  The table is the set of IPs *)
(* with entries, _age the list of them oldest first.  A clock reading is *)
(* the jiffy count since the start; click_jiffies_t holds it modulo       *)
(* 2^JiffyBits, and every jiffy comparison of the code goes through       *)
(* click_jiffies_less on those wrapped values (JLess).                    *)
(* ARPEntry and its expired()/unicast() tests live in arptable.hh, which  *)
(* is not part of this repository; they follow Click's definitions.       *)
(***************************************************************************)
EXTENDS Integers, Sequences, SequencesExt, FiniteSets, FiniteSetsExt

CONSTANTS
    IPs,              \* addresses asked about
    NPkts,            \* packets queued by append_query, numbered 1..NPkts
    PacketCapacity,   \* _packet_capacity (0: unlimited)
    EntryCapacity,    \* _entry_capacity (0: unlimited)
    Timeout,          \* _timeout_j (0: entries never expire)
    CLICK_HZ,         \* jiffies per second
    StartJiffy,       \* click_jiffies() when the table is created
    MaxTime,          \* last jiffy explored
    TicksInside,      \* the clock may advance during one operation
    JiffyBits         \* width of click_jiffies_t

(* The addresses are interchangeable: no action or property names one. *)
IPSymmetry == Permutations(IPs)

VARIABLES
    table,          \* IPs with an entry in _table
    ent,            \* the entry of each IP (meaningless outside table)
    age,            \* _age, oldest first
    entry_count,    \* _entry_count
    packet_count,   \* _packet_count
    drops,          \* _drops
    now,            \* click_jiffies()
    np,             \* next packet to queue
    killed,         \* packets killed by slim or clear
    returned,       \* packets handed back to the caller (insert's *head, errors)
    bad             \* "uaf": a freed entry written; "null": slim followed a null entry

vars == <<table, ent, age, entry_count, packet_count, drops, now, np, killed, returned, bad>>

Entry == [live : Int, polled : Int, unicast : BOOLEAN, pkts : Seq(1..NPkts)]

(* new ARPEntry(ip): no address yet, not unicast, no packets. *)
Fresh(t) == [live |-> t, polled |-> t - CLICK_HZ, unicast |-> FALSE, pkts |-> <<>>]

(* The value a click_jiffies_t holds for clock reading t. *)
Jiffy(t) == t % (2^JiffyBits)

(* click_jiffies_less(a, b): the signed difference a - b is negative.     *)
JLess(a, b) == (Jiffy(a) - Jiffy(b)) % (2^JiffyBits) >= 2^(JiffyBits - 1)

(* ARPEntry::expired and ARPEntry::unicast. *)
Expired(e, t) == Timeout # 0 /\ JLess(e.live + Timeout, t)
Unicast(e, t) == e.unicast /\ ~Expired(e, t)

(* The table as one record, so that an operation is a function of it.     *)
S == [table |-> table, ent |-> ent, age |-> age, ec |-> entry_count,
      pc |-> packet_count, drops |-> drops, killed |-> killed,
      returned |-> returned, bad |-> bad]

Commit(r) ==
    /\ table' = r.table /\ ent' = r.ent /\ age' = r.age
    /\ entry_count' = r.ec /\ packet_count' = r.pc /\ drops' = r.drops
    /\ killed' = r.killed /\ returned' = r.returned /\ bad' = r.bad

(* Drop the first n packets of ip's list, as slim does one by one.       *)
KillFirst(s, ip, n) ==
    LET pk == s.ent[ip].pkts IN
    [s EXCEPT !.ent[ip].pkts = SubSeq(pk, n + 1, Len(pk)),
              !.pc = @ - n, !.drops = @ + n,
              !.killed = @ \cup ToSet(SubSeq(pk, 1, n))]

(***************************************************************************)
(* slim(), first loop: while the oldest entry is expired, or there are    *)
(* more entries than _entry_capacity, erase it, kill its packets and free *)
(* it.                                                                     *)
(***************************************************************************)
RECURSIVE SlimExpire(_, _)
SlimExpire(s, t) ==
    IF /\ s.age # <<>>
       /\ \/ Expired(s.ent[Head(s.age)], t)
          \/ EntryCapacity # 0 /\ s.ec > EntryCapacity
    THEN LET ip == Head(s.age)
             s1 == KillFirst(s, ip, Len(s.ent[ip].pkts))
         IN SlimExpire([s1 EXCEPT !.table = @ \ {ip}, !.age = Tail(@), !.ec = @ - 1], t)
    ELSE s

(***************************************************************************)
(* slim(), second loop: while there are more than _packet_capacity         *)
(* packets, kill packets from the front of entry ae, then move to the     *)
(* next younger entry.  ae starts where the first loop stopped: the       *)
(* oldest entry left, or null when none is.                                *)
(***************************************************************************)
RECURSIVE SlimPackets(_, _)
SlimPackets(s, i) ==
    IF PacketCapacity # 0 /\ s.pc > PacketCapacity
    THEN IF i > Len(s.age)
         THEN [s EXCEPT !.bad = @ \cup {"null"}]
         ELSE LET ip == s.age[i]
                  n  == Min({Len(s.ent[ip].pkts), s.pc - PacketCapacity})
              IN SlimPackets(KillFirst(s, ip, n), i + 1)
    ELSE s

(* ARPTable::slim, with the clock reading t of its click_jiffies().       *)
Slim(s, t) == SlimPackets(SlimExpire(s, t), 1)

(* Variant: the new entry counted after the capacity check.              *)
EnsureLateCount(s, ip, t1, t2, allocOk) ==
    IF ip \in s.table THEN [ok |-> TRUE, s |-> s]
    ELSE IF ~allocOk THEN [ok |-> FALSE, s |-> s]
    ELSE LET s1 == IF EntryCapacity # 0 /\ s.ec > EntryCapacity THEN Slim(s, t1) ELSE s
             s2 == [s1 EXCEPT !.ec = @ + 1]
         IN [ok |-> TRUE,
             s  |-> [s2 EXCEPT !.ent[ip] = Fresh(t2), !.table = @ \cup {ip},
                               !.age = Append(@, ip)]]

(***************************************************************************)
(* ARPTable::ensure(ip): find the entry, or allocate one (the allocation  *)
(* may fail), count it, slim if the count exceeds _entry_capacity (t1),    *)
(* then create it at the back of _age with the clock reading t2.          *)
(* Result: ok, and the table.                                              *)
(***************************************************************************)
Ensure(s, ip, t1, t2, allocOk) ==
    IF ip \in s.table THEN [ok |-> TRUE, s |-> s]
    ELSE IF ~allocOk THEN [ok |-> FALSE, s |-> s]
    ELSE LET s1 == [s EXCEPT !.ec = @ + 1]
             s2 == IF EntryCapacity # 0 /\ s1.ec > EntryCapacity THEN Slim(s1, t1) ELSE s1
         IN [ok |-> TRUE,
             s  |-> [s2 EXCEPT !.ent[ip] = Fresh(t2), !.table = @ \cup {ip},
                               !.age = Append(@, ip)]]

(* The number of leading entries of sq whose _live_at_j is before lv.    *)
RECURSIVE OlderPrefix(_, _, _)
OlderPrefix(sq, e, lv) ==
    IF sq # <<>> /\ JLess(e[Head(sq)].live, lv) THEN 1 + OlderPrefix(Tail(sq), e, lv) ELSE 0

(***************************************************************************)
(* append_query's walk: move ip forward in _age over the younger-listed   *)
(* entries whose _live_at_j is before its new one lv.                     *)
(***************************************************************************)
Reposition(ag, e, ip, lv) ==
    LET i     == CHOOSE k \in 1..Len(ag) : ag[k] = ip
        after == SubSeq(ag, i + 1, Len(ag))
        k     == OlderPrefix(after, e, lv)
    IN SubSeq(ag, 1, i - 1) \o SubSeq(after, 1, k) \o <<ip>> \o SubSeq(after, k + 1, Len(after))

(* Variant: the 2009 fix left out.                                        *)
KeepAliveNone(s, ip, t) == s

(* Variant: the expiry test of the fix compares the jiffy values with <.  *)
KeepAliveUnsigned(s, ip, t) ==
    IF Timeout # 0 /\ Jiffy(s.ent[ip].live) < Jiffy(t - Timeout)
    THEN LET lv == t - Timeout
         IN [s EXCEPT !.ent[ip].live = lv, !.age = Reposition(s.age, s.ent, ip, lv)]
    ELSE s

(***************************************************************************)
(* The 2009 fix in append_query: an entry still being queried is kept     *)
(* "just this side of expiring", _live_at_j = now - _timeout_j, and moved *)
(* to its place in _age, so that the slim() below does not free it.       *)
(***************************************************************************)
KeepAlive(s, ip, t) ==
    IF Timeout # 0 /\ JLess(s.ent[ip].live, t - Timeout)
    THEN LET lv == t - Timeout
         IN [s EXCEPT !.ent[ip].live = lv, !.age = Reposition(s.age, s.ent, ip, lv)]
    ELSE s

(* Variant: the packets handed back without being uncounted.              *)
ReleaseNoCount(s, ip) ==
    [s EXCEPT !.returned = @ \cup ToSet(s.ent[ip].pkts), !.ent[ip].pkts = <<>>]

(* insert's "*head = ae->_head; ae->_head = ae->_tail = 0" and the count. *)
Release(s, ip) ==
    [s EXCEPT !.returned = @ \cup ToSet(s.ent[ip].pkts),
              !.pc = @ - Len(s.ent[ip].pkts), !.ent[ip].pkts = <<>>]

(***************************************************************************)
(* ARPTable::insert(ip, eth, head): ensure the entry, record whether the   *)
(* address is unicast, refresh it (clock t3) and move it to the back of   *)
(* _age unless it is there already; with head, hand its packets back.     *)
(***************************************************************************)
Insert(s, ip, uni, wantHead, t1, t2, t3, allocOk) ==
    LET e == Ensure(s, ip, t1, t2, allocOk) IN
    IF ~e.ok THEN s
    ELSE LET s2 == [e.s EXCEPT !.ent[ip].unicast = uni, !.ent[ip].live = t3,
                               !.ent[ip].polled = t3 - CLICK_HZ,
                               !.age = IF Last(@) # ip THEN Append(Remove(@, ip), ip) ELSE @]
         IN IF wantHead THEN Release(s2, ip) ELSE s2

(***************************************************************************)
(* ARPTable::append_query(ip, p): ensure the entry; a unicast entry       *)
(* answers -EAGAIN and the caller keeps p (as it does on -ENOMEM).         *)
(* Otherwise keep the entry alive (clock t3), count the packet, slim if   *)
(* over _packet_capacity (clock t4), queue p on the entry and mark it     *)
(* polled if the last poll is a tenth of a second old.                    *)
(***************************************************************************)
AppendQuery(s, ip, p, t1, t2, t3, t4, allocOk) ==
    LET e == Ensure(s, ip, t1, t2, allocOk) IN
    IF ~e.ok \/ Unicast(e.s.ent[ip], t3) THEN [e.s EXCEPT !.returned = @ \cup {p}]
    ELSE LET s2 == [KeepAlive(e.s, ip, t3) EXCEPT !.pc = @ + 1]
             s3 == IF PacketCapacity # 0 /\ s2.pc > PacketCapacity THEN Slim(s2, t4) ELSE s2
         IN IF ip \notin s3.table
            THEN [s3 EXCEPT !.bad = @ \cup {"uaf"}]
            ELSE LET s4 == [s3 EXCEPT !.ent[ip].pkts = Append(@, p)]
                 IN IF JLess(t3, s4.ent[ip].polled + CLICK_HZ \div 10) THEN s4
                    ELSE [s4 EXCEPT !.ent[ip].polled = t3]

(* ARPTable::clear: every entry freed, its packets killed.                *)
Clear(s) ==
    LET held == UNION {ToSet(s.ent[ip].pkts) : ip \in s.table}
        n    == Len(FlattenSeq([i \in 1..Len(s.age) |-> s.ent[s.age[i]].pkts]))
    IN [s EXCEPT !.table = {}, !.age = <<>>, !.ec = 0, !.pc = 0,
                 !.drops = @ + n, !.killed = @ \cup held,
                 !.ent = [ip \in IPs |-> [@[ip] EXCEPT !.pkts = <<>>]]]

-----------------------------------------------------------------------------
(* The clock readings of an operation that reads it r times: it advances  *)
(* (by one jiffy) before read k, or not at all when k = r + 1.             *)
TickAt(r) == IF TicksInside /\ now < MaxTime THEN 1..r + 1 ELSE {r + 1}
Clk(i, k) == now + (IF i >= k THEN 1 ELSE 0)
After(r, k) == now + (IF k <= r THEN 1 ELSE 0)

(* Who calls insert: ARPQuerier on a reply (takes the queued packets),    *)
(* the "insert" handler, and the "delete" handler (broadcast address).    *)
InsertCalls == {[uni |-> TRUE, head |-> TRUE], [uni |-> TRUE, head |-> FALSE],
                [uni |-> FALSE, head |-> FALSE]}

Init ==
    /\ table = {} /\ ent = [ip \in IPs |-> Fresh(StartJiffy)] /\ age = <<>>
    /\ entry_count = 0 /\ packet_count = 0 /\ drops = 0
    /\ now = StartJiffy /\ np = 1
    /\ killed = {} /\ returned = {} /\ bad = {}

DoInsert ==
    \E ip \in IPs, c \in InsertCalls, ok \in BOOLEAN, k \in TickAt(3) :
        /\ Commit(Insert(S, ip, c.uni, c.head, Clk(1, k), Clk(2, k), Clk(3, k), ok))
        /\ now' = After(3, k)
        /\ UNCHANGED np

DoAppendQuery ==
    /\ np <= NPkts
    /\ \E ip \in IPs, ok \in BOOLEAN, k \in TickAt(4) :
        /\ Commit(AppendQuery(S, ip, np, Clk(1, k), Clk(2, k), Clk(3, k), Clk(4, k), ok))
        /\ now' = After(4, k)
    /\ np' = np + 1

(* ARPTable::run_timer: slim under the write lock.                       *)
RunTimer ==
    /\ Timeout # 0
    /\ \E k \in TickAt(1) : Commit(Slim(S, Clk(1, k))) /\ now' = After(1, k)
    /\ UNCHANGED np

(* The "clear" write handler.                                             *)
DoClear ==
    /\ Commit(Clear(S))
    /\ UNCHANGED <<now, np>>

(* Time passes between operations.                                        *)
Tick ==
    /\ now < MaxTime
    /\ now' = now + 1
    /\ UNCHANGED <<table, ent, age, entry_count, packet_count, drops, np, killed, returned, bad>>

Next == DoInsert \/ DoAppendQuery \/ RunTimer \/ DoClear \/ Tick

Spec == Init /\ [][Next]_vars

-----------------------------------------------------------------------------
TypeOK ==
    /\ table \subseteq IPs /\ ent \in [IPs -> Entry]
    /\ age \in Seq(IPs)
    /\ entry_count \in Nat /\ packet_count \in Nat /\ drops \in Nat
    /\ now \in StartJiffy..MaxTime /\ np \in 1..NPkts + 1
    /\ killed \subseteq 1..NPkts /\ returned \subseteq 1..NPkts
    /\ bad \subseteq {"uaf", "null"}

(***************************************************************************)
(* slim() stops at the first entry that is not expired, which is only     *)
(* right if _age lists exactly the table's entries, each once, in order   *)
(* of _live_at_j as clock readings (the code sees them only wrapped,     *)
(* through click_jiffies_less).  insert moves a refreshed entry to the   *)
(* back and the 2009 fix walks a kept-alive one forward to keep it so.    *)
(***************************************************************************)
AgeOrdered ==
    /\ Len(age) = Cardinality(table)
    /\ ToSet(age) = table
    /\ \A i, j \in 1..Len(age) : i < j => ent[age[i]].live <= ent[age[j]].live

(***************************************************************************)
(* _entry_count and _packet_count agree with the table, and every packet  *)
(* given to append_query is, exactly once, queued on a live entry, killed *)
(* (and counted in _drops), or handed back to the caller.                 *)
(***************************************************************************)
Queued == [i \in 1..Len(age) |-> ent[age[i]].pkts]

PacketsAccounted ==
    LET flat   == FlattenSeq(Queued)
        queued == ToSet(flat)
    IN /\ entry_count = Len(age)
       /\ packet_count = Len(flat)
       /\ Len(flat) = Cardinality(queued)
       /\ drops = Cardinality(killed)
       /\ queued \cap (killed \cup returned) = {} /\ killed \cap returned = {}
       /\ queued \cup killed \cup returned = 1..np - 1

(* After every operation the table holds at most _entry_capacity entries  *)
(* and _packet_capacity packets.                                          *)
WithinCapacity ==
    /\ EntryCapacity # 0 => entry_count <= EntryCapacity
    /\ PacketCapacity # 0 => packet_count <= PacketCapacity

(***************************************************************************)
(* append_query queues its packet on a live entry, never on one its own   *)
(* slim() freed, and slim's second loop never runs off the end of _age.   *)
(***************************************************************************)
NoFreedEntryUse == bad = {}
====
