-------------------------- MODULE ICMPPingRewriter --------------------------
(***************************************************************************)
(* ICMPPingRewriter (elements/icmp/icmppingrewriter.cc): a NAT for ICMP   *)
(* echo.  An echo request on port 0 with no mapping gets a pair of        *)
(* Mappings: the forward one, kept in _request_map under the original     *)
(* flow, rewrites the request to (SRC, DST, _identifier); the reverse     *)
(* one, kept in _reply_map under the reverse of that new flow, rewrites  *)
(* replies back.  A timer frees every pair neither of whose mappings was  *)
(* used since the last run.  push and run_timer run on the router thread, *)
(* so each is one atomic action.                                           *)
(*                                                                         *)
(* A flow is IPFlowID(src, id, dst, id); the identifier is its 16-bit     *)
(* port field, here IdBits wide.  Checksums are left out: the deltas      *)
(* depend only on the two flows.  Mapping's used(), mark_used() and       *)
(* clear_used() live in icmppingrewriter.hh, which is not in this         *)
(* repository; clear_used() is taken to clear the mapping's own flag, as  *)
(* in Click.                                                               *)
(***************************************************************************)
EXTENDS Integers, FiniteSets, Functions, TLC

CONSTANTS
    Addrs,        \* IP addresses
    NoAddr,       \* the "-" of SRC or DST: keep the packet's address
    NewSrc,       \* _new_src
    NewDst,       \* _new_dst
    IdBits,       \* width of the identifier (16: IPFlowID's port field)
    Clients,      \* addresses that ping through the rewriter
    Server,       \* the address they ping
    NPkts,        \* packets that arrive in a behaviour
    Maps,         \* Mapping objects new can return
    AllocFails,   \* new may return 0 (the Linux kernel module)
    TwoOutputs    \* noutputs() == 2

VARIABLES
    request_map,  \* _request_map: original flow -> forward Mapping
    reply_map,    \* _reply_map: reply flow -> reverse Mapping
    mapping,      \* the fields of every Mapping object
    live,         \* the Mapping objects allocated and not deleted
    identifier,   \* _identifier
    np,           \* packets arrived so far
    out,          \* what the last push did with its packet
    alive         \* the router has not yet cleaned the element up

vars == <<request_map, reply_map, mapping, live, identifier, np, out, alive>>

Flow == [src : Addrs, dst : Addrs, id : 0..2^IdBits - 1]
Reverse(f) == [src |-> f.dst, dst |-> f.src, id |-> f.id]

(***************************************************************************)
(* The packets that arrive, [port, type, src, dst, id]: the clients' echo *)
(* requests on port 0, all with identifier 0; the server's replies to the *)
(* NAT address on port 1, with every identifier; and on port 0 a reply    *)
(* the server sends a client directly and a packet that is no echo.       *)
(***************************************************************************)
Pkts ==
    LET P(port, type, src, dst, id) ==
            [port |-> port, type |-> type, src |-> src, dst |-> dst, id |-> id]
    IN {P(0, "echo", c, Server, 0) : c \in Clients}
       \cup {P(1, "reply", Server, NewSrc, i) : i \in 0 .. 2^IdBits - 1}
       \cup {P(0, "reply", Server, c, 0) : c \in Clients}
       \cup {P(0, "other", c, Server, 0) : c \in Clients}

(* No action or property names a Mapping object. *)
MapSymmetry == Permutations(Maps)

Mapping == [mapto : Flow, reverse : Maps, is_reverse : BOOLEAN, used : BOOLEAN]

(* The map lookup map[flow]: the Mapping, or none. *)
Get(m, f) == IF f \in DOMAIN m THEN {m[f]} ELSE {}

(* Mapping::make_pair: the forward mapping of inf to outf and its reverse. *)
MakePair(inf, outf, fwd, rev) ==
    (fwd :> [mapto |-> outf, reverse |-> rev, is_reverse |-> FALSE, used |-> FALSE])
    @@ (rev :> [mapto |-> Reverse(inf), reverse |-> fwd, is_reverse |-> TRUE, used |-> FALSE])

(* apply_pattern's new flow: SRC and DST unless "-", and _identifier. *)
NewFlow(f) ==
    [src |-> IF NewSrc = NoAddr THEN f.src ELSE NewSrc,
     dst |-> IF NewDst = NoAddr THEN f.dst ELSE NewDst,
     id  |-> identifier]

(* Variant: the reply entry keyed by the new flow itself. *)
ApplyPatternUnreversed(f, fwd, rev) ==
    /\ mapping' = MakePair(f, NewFlow(f), fwd, rev) @@ mapping
    /\ identifier' = (identifier + 1) % 2^IdBits
    /\ request_map' = (f :> fwd) @@ request_map
    /\ reply_map' = (NewFlow(f) :> rev) @@ reply_map

(***************************************************************************)
(* apply_pattern(flow), once both new Mappings exist: make the pair,      *)
(* advance _identifier (truncated to the flow's port width) and enter     *)
(* both mappings, Map::set replacing an entry under the same key.          *)
(***************************************************************************)
ApplyPattern(f, fwd, rev) ==
    /\ mapping' = MakePair(f, NewFlow(f), fwd, rev) @@ mapping
    /\ identifier' = (identifier + 1) % 2^IdBits
    /\ request_map' = (f :> fwd) @@ request_map
    /\ reply_map' = (Reverse(NewFlow(f)) :> rev) @@ reply_map

(* Mapping::apply's effect on the flow; the checksum update is left out. *)
Applied(m) == mapping[m].mapto

Init ==
    /\ request_map = <<>> /\ reply_map = <<>>
    /\ mapping = [m \in Maps |-> [mapto |-> CHOOSE f \in Flow : TRUE, reverse |-> m,
                                  is_reverse |-> FALSE, used |-> FALSE]]
    /\ live = {}
    /\ identifier = 0
    /\ np = 0
    /\ out = [kind |-> "none"]
    /\ alive = TRUE

PktFlow(p) == [src |-> p.src, dst |-> p.dst, id |-> p.id]
MapOf(p) == IF p.type = "echo" THEN request_map ELSE reply_map

(* The output port of an applied packet. *)
OutPort(p) == IF p.type = "reply" /\ TwoOutputs THEN 1 ELSE 0

(***************************************************************************)
(* push(port, p) when the map has a mapping for p's flow: apply it (which *)
(* marks it used) and emit p.                                              *)
(***************************************************************************)
PushMapped(p) ==
    \E m \in Get(MapOf(p), PktFlow(p)) :
        /\ mapping' = [mapping EXCEPT ![m].used = TRUE]
        /\ out' = [kind |-> "rewritten", port |-> OutPort(p), in |-> PktFlow(p),
                   flow |-> Applied(m), by |-> m]
        /\ UNCHANGED <<request_map, reply_map, live, identifier>>

(***************************************************************************)
(* push(port, p) with no mapping.  An echo on port 0 makes one, or is      *)
(* killed when new fails; any other packet on port 0 passes through       *)
(* unchanged on the last output; a packet on port 1 is killed.             *)
(***************************************************************************)
PushUnmapped(p) ==
    /\ Get(MapOf(p), PktFlow(p)) = {}
    /\ \/ /\ p.port = 0 /\ p.type = "echo"
          /\ \E fwd, rev \in Maps \ live :
                /\ fwd # rev
                /\ ApplyPattern(PktFlow(p), fwd, rev)
                /\ live' = live \cup {fwd, rev}
                /\ out' = [kind |-> "rewritten", port |-> 0, in |-> PktFlow(p),
                           flow |-> NewFlow(PktFlow(p)), by |-> fwd]
       \/ /\ p.port = 0 /\ p.type = "echo"
          /\ AllocFails \/ Cardinality(Maps \ live) < 2
          /\ out' = [kind |-> "killed"]
          /\ UNCHANGED <<request_map, reply_map, mapping, live, identifier>>
       \/ /\ p.port = 0 /\ p.type = "reply"
          /\ out' = [kind |-> "passed", port |-> IF TwoOutputs THEN 1 ELSE 0,
                     in |-> PktFlow(p)]
          /\ UNCHANGED <<request_map, reply_map, mapping, live, identifier>>
       \/ /\ p.port = 1
          /\ out' = [kind |-> "killed"]
          /\ UNCHANGED <<request_map, reply_map, mapping, live, identifier>>

Push ==
    /\ alive /\ np < NPkts
    /\ \E p \in Pkts :
          IF p.type = "other"
          THEN out' = [kind |-> "killed"]
               /\ UNCHANGED <<request_map, reply_map, mapping, live, identifier>>
          ELSE PushMapped(p) \/ PushUnmapped(p)
    /\ np' = np + 1
    /\ UNCHANGED alive

(* The pairs run_timer frees: forward mappings of _request_map of which  *)
(* neither the mapping nor its reverse was used since the last run.       *)
Idle == {m \in Range(request_map) : ~mapping[m].used /\ ~mapping[mapping[m].reverse].used}

(* Variant: the pair deleted with its request entry only. *)
FreeNoReplyErase(ms) ==
    /\ request_map' = Restrict(request_map,
          DOMAIN request_map \ {Reverse(mapping[mapping[m].reverse].mapto) : m \in ms})
    /\ UNCHANGED reply_map
    /\ live' = live \ (ms \cup {mapping[m].reverse : m \in ms})

(***************************************************************************)
(* run_timer's second loop: for each pair, erase the request entry under  *)
(* reverse()->flow_id().reverse(), the reply entry under                  *)
(* flow_id().reverse(), and delete both mappings.                          *)
(***************************************************************************)
Free(ms) ==
    /\ request_map' = Restrict(request_map,
          DOMAIN request_map \ {Reverse(mapping[mapping[m].reverse].mapto) : m \in ms})
    /\ reply_map' = Restrict(reply_map,
          DOMAIN reply_map \ {Reverse(mapping[m].mapto) : m \in ms})
    /\ live' = live \ (ms \cup {mapping[m].reverse : m \in ms})

(***************************************************************************)
(* run_timer: collect the idle pairs, clearing the used flag of every     *)
(* other forward mapping, free the idle ones and reschedule.               *)
(***************************************************************************)
RunTimer ==
    /\ alive
    /\ mapping' = [m \in Maps |->
                     IF m \in Range(request_map) \ Idle
                     THEN [mapping[m] EXCEPT !.used = FALSE] ELSE mapping[m]]
    /\ Free(Idle)
    /\ UNCHANGED <<identifier, np, out, alive>>

(* cleanup, when the router stops: delete every pair of _request_map and *)
(* empty both maps.                                                        *)
Cleanup ==
    /\ alive /\ alive' = FALSE
    /\ live' = live \ (Range(request_map) \cup {mapping[m].reverse : m \in Range(request_map)})
    /\ request_map' = <<>> /\ reply_map' = <<>>
    /\ UNCHANGED <<mapping, identifier, np, out>>

Next == Push \/ RunTimer \/ Cleanup

Spec == Init /\ [][Next]_vars

-----------------------------------------------------------------------------
TypeOK ==
    /\ DOMAIN request_map \subseteq Flow /\ Range(request_map) \subseteq Maps
    /\ DOMAIN reply_map \subseteq Flow /\ Range(reply_map) \subseteq Maps
    /\ mapping \in [Maps -> Mapping]
    /\ live \subseteq Maps
    /\ identifier \in 0..2^IdBits - 1
    /\ np \in 0..NPkts

(***************************************************************************)
(* The maps own exactly the live Mappings: every entry of either map      *)
(* names a Mapping that has not been deleted, and every live Mapping is a *)
(* forward mapping of _request_map or the reverse of one, so run_timer    *)
(* and cleanup, which reach mappings only through _request_map, can free *)
(* it.                                                                     *)
(***************************************************************************)
MapsOwnLive ==
    /\ Range(request_map) \cup Range(reply_map) \subseteq live
    /\ live = Range(request_map) \cup {mapping[m].reverse : m \in Range(request_map)}

(***************************************************************************)
(* Every echo flow with a mapping gets its replies back: _reply_map holds *)
(* the forward mapping's own reverse under the reply flow, and that       *)
(* reverse rewrites a reply to the original requester.                    *)
(***************************************************************************)
PairsConsistent ==
    \A f \in DOMAIN request_map :
        LET m == request_map[f]
            r == mapping[m].reverse
        IN /\ Reverse(mapping[m].mapto) \in DOMAIN reply_map
           /\ reply_map[Reverse(mapping[m].mapto)] = r
           /\ mapping[r].mapto = Reverse(f)
====
