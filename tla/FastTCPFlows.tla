---------------------------- MODULE FastTCPFlows ----------------------------
(* FastTCPFlows (linuxmodule/fasttcpflows.cc), a benchmark source of TCP   *)
(* flows: each flow has a SYN, a DATA and a FIN skb built once, and pull   *)
(* hands out a new reference to one of them (the skb's users count is      *)
(* incremented, its data is shared).  A flow sends SYN, FLOWSIZE - 2 DATA  *)
(* and FIN; then change_ports gives it new random ports by rewriting the   *)
(* three skbs in place.  Once _count reaches _limit, get_packet closes     *)
(* every flow that is not closed with a FIN, then the source stops.       *)
(* The element that pulls puts the references on a device transmit ring   *)
(* of RingCap slots; the NIC sends them later, with the ports the skb has  *)
(* then.  A flow's ports are modelled by a generation number: each         *)
(* change_ports starts a new one (the random ports of two generations are  *)
(* taken to differ).  click_random's choice of flow is \E.                 *)
EXTENDS Naturals, Sequences, SequencesExt

CONSTANTS
    NFlows,       \* _nflows
    FLOWSIZE,     \* the FLOWSIZE argument
    Limited,      \* LIMIT >= 0 (otherwise _limit is NO_LIMIT)
    LIMIT,        \* the LIMIT argument, when Limited
    Limits,       \* values written to the limit handler
    RingCap,      \* slots of the device's transmit ring
    MaxPulls,     \* packets pulled in one behaviour
    MaxWrites     \* handler writes explored

ASSUME /\ NFlows \in Nat \ {0} /\ FLOWSIZE \in Nat /\ LIMIT \in Nat
       /\ Limits \subseteq Nat /\ Limited \in BOOLEAN
       /\ RingCap \in Nat \ {0} /\ MaxPulls \in Nat /\ MaxWrites \in Nat

Flows == 0 .. NFlows - 1
Kinds == {"SYN", "DATA", "FIN"}

(* configure: a flow size under 3 becomes 3. *)
FlowSize == IF FLOWSIZE < 3 THEN 3 ELSE FLOWSIZE

NO_LIMIT == -1

VARIABLES
    flow_count,   \* _flows[i].flow_count
    gen,          \* the generation of each flow's ports in its three skbs
    count,        \* _count
    sent_all_fins,  \* _sent_all_fins
    active,       \* _active
    limit,        \* _limit
    ring,         \* references on the transmit ring: [flow, kind]
    wire,         \* packets sent: [flow, gen, kind], gen read when sent
    writes        \* handler writes so far

vars == <<flow_count, gen, count, sent_all_fins, active, limit, ring, wire,
          writes>>

Init ==
    /\ flow_count = [i \in Flows |-> 0]
    /\ gen = [i \in Flows |-> 0]
    /\ count = 0 /\ sent_all_fins = FALSE /\ active = TRUE
    /\ limit = IF Limited THEN LIMIT ELSE NO_LIMIT
    /\ ring = <<>> /\ wire = <<>> /\ writes = 0

AtLimit == limit # NO_LIMIT /\ count >= limit

(* pull: the element pulling stores the reference get_packet returns on   *)
(* the ring and _count counts it.                                          *)
Emit(f, k) ==
    /\ ring' = Append(ring, [flow |-> f, kind |-> k])
    /\ count' = count + 1

(* get_packet past the limit: the first flow not closed gets its FIN and  *)
(* is marked closed; with none left, _sent_all_fins and no packet.         *)
CloseFlows ==
    LET open == {i \in Flows : flow_count[i] # FlowSize}
    IN IF open = {}
       THEN /\ sent_all_fins' = TRUE
            /\ UNCHANGED <<flow_count, count, ring>>
       ELSE LET i == Min(open)
            IN /\ flow_count' = [flow_count EXCEPT ![i] = FlowSize]
               /\ Emit(i, "FIN")
               /\ UNCHANGED sent_all_fins

(* change_ports: new random ports written into the flow's three skbs. *)
change_ports(f) == [gen EXCEPT ![f] = @ + 1]

(* get_packet below the limit, for the flow click_random picks: a closed  *)
(* flow gets new ports (change_ports) and starts over; the flow's count   *)
(* then says which of its skbs goes out.                                   *)
NextOfFlow(f) ==
    LET restart == flow_count[f] = FlowSize
        n == IF restart THEN 1 ELSE flow_count[f] + 1
    IN /\ gen' = IF restart THEN change_ports(f) ELSE gen
       /\ flow_count' = [flow_count EXCEPT ![f] = n]
       /\ Emit(f, CASE n = 1 -> "SYN" [] n = FlowSize -> "FIN" [] OTHER -> "DATA")
       /\ UNCHANGED sent_all_fins

Pull ==
    /\ active /\ ~(AtLimit /\ sent_all_fins)
    /\ Len(ring) < RingCap /\ Len(wire) + Len(ring) < MaxPulls
    /\ IF AtLimit THEN CloseFlows /\ UNCHANGED gen
       ELSE \E f \in Flows : NextOfFlow(f)
    /\ UNCHANGED <<active, limit, wire, writes>>

(* The NIC sends the oldest reference with the ports its skb has now. *)
Transmit ==
    /\ ring # <<>>
    /\ wire' = Append(wire, [flow |-> Head(ring).flow, gen |-> gen[Head(ring).flow],
                             kind |-> Head(ring).kind])
    /\ ring' = Tail(ring)
    /\ UNCHANGED <<flow_count, gen, count, sent_all_fins, active, limit, writes>>

(* The reset, active and limit write handlers. *)
Written == writes < MaxWrites /\ writes' = writes + 1

Reset ==
    /\ Written
    /\ count' = 0 /\ sent_all_fins' = FALSE
    /\ UNCHANGED <<flow_count, gen, active, limit, ring, wire>>

SetActive(b) ==
    /\ Written
    /\ active' = b
    /\ IF b THEN count' = 0 /\ sent_all_fins' = FALSE
       ELSE UNCHANGED <<count, sent_all_fins>>
    /\ UNCHANGED <<flow_count, gen, limit, ring, wire>>

(* cp_integer into an unsigned: "limit >= 0" always holds, so the handler *)
(* never restores NO_LIMIT.                                                *)
SetLimit(l) ==
    /\ Written
    /\ limit' = l
    /\ UNCHANGED <<flow_count, gen, count, sent_all_fins, active, ring, wire>>

Next ==
    \/ Pull \/ Transmit \/ Reset
    \/ \E b \in BOOLEAN : SetActive(b)
    \/ \E l \in Limits : SetLimit(l)

Spec == Init /\ [][Next]_vars

-----------------------------------------------------------------------------
TypeOK ==
    /\ flow_count \in [Flows -> 0 .. FlowSize]
    /\ gen \in [Flows -> Nat] /\ count \in Nat
    /\ {sent_all_fins, active} \subseteq BOOLEAN
    /\ limit \in Limits \cup {LIMIT, NO_LIMIT}
    /\ ring \in Seq([flow : Flows, kind : Kinds]) /\ Len(ring) <= RingCap
    /\ wire \in Seq([flow : Flows, gen : Nat, kind : Kinds])

(* The kinds the receiver sees on one connection, i.e. one flow's ports  *)
(* of one generation, in the order sent.                                   *)
OnConnection(f, g, w) == w.flow = f /\ w.gen = g
Connection(f, g) ==
    LET sent == SelectSeq(wire, LAMBDA w : OnConnection(f, g, w))
    IN [j \in 1 .. Len(sent) |-> sent[j].kind]

(* Every connection on the wire is a TCP flow: one SYN first, then DATA,  *)
(* and nothing after its FIN.  It fails if a FIN is sent for a flow that  *)
(* never sent its SYN (get_packet at the limit), or if change_ports       *)
(* rewrites skbs still waiting on the ring with the next flow's ports.     *)
WireFlowsWellFormed ==
    \A f \in Flows : \A g \in 0 .. gen[f] :
        LET c == Connection(f, g)
        IN \A j \in 1 .. Len(c) :
               /\ (c[j] = "SYN") <=> (j = 1)
               /\ j > 1 => c[j - 1] # "FIN"
=============================================================================
