-------------------------- MODULE MCIPFilterEngine --------------------------
(***************************************************************************)
(* The engine on the program of                                            *)
(*   IPFilter(allow dst port 21 or 22 or 23 or 25 or 53 or 80 or 443       *)
(*            or 8080, 1 tcp syn, drop all)                                *)
(* with two outputs, laid out the way the compiler of spec.md 4.6-4.8     *)
(* lays it out: per clause a first-fragment test, a protocol test (TCP or *)
(* UDP merged into one two-value step), then the port set (eight values,  *)
(* host-sorted, binary search) or the SYN flag; a failing test falls      *)
(* through to the next clause, "drop all" is output 2 = noutputs().       *)
(***************************************************************************)
EXTENDS IPFilterEngine, TLC

TCP == 6
UDP == 17
ICMP == 1

W4(a, b, c, d) == <<a, b, c, d>>
PortWord(port) == W4(0, 0, port \div 256, port % 256)

FragStep  == [off |-> 4, mask |-> W4(0, 0, 31, 255), vals |-> <<W4(0, 0, 0, 0)>>]
ProtoStep(ps) == [off |-> 8, mask |-> W4(0, 255, 0, 0),
                  vals |-> SortSeq([i \in 1..Len(ps) |-> W4(0, ps[i], 0, 0)], HostLess)]
PortsStep == [off |-> 64, mask |-> W4(0, 0, 255, 255),
              vals |-> SortSeq([i \in 1..8 |-> PortWord(<<21, 22, 23, 25, 53, 80, 443, 8080>>[i])],
                      HostLess)]
SynStep   == [off |-> 76, mask |-> W4(0, 2, 0, 0), vals |-> <<W4(0, 2, 0, 0)>>]

(* Steps with symbolic targets: <<"step", k>> or <<"out", port>>. *)
Steps == <<FragStep, ProtoStep(<<TCP, UDP>>), PortsStep,    \* clause 0
           FragStep, ProtoStep(<<TCP>>), SynStep>>            \* clause 1

YesOf == <<<<"step", 2>>, <<"step", 3>>, <<"out", 0>>, <<"step", 5>>, <<"step", 6>>, <<"out", 1>>>>
NoOf  == <<<<"step", 4>>, <<"step", 4>>, <<"step", 4>>, <<"out", 2>>, <<"out", 2>>, <<"out", 2>>>>

RECURSIVE SPos(_)
SPos(k) == IF k = 1 THEN 0 ELSE SPos(k - 1) + 4 + Len(Steps[k - 1].vals)

Enc(k, t) == IF t[1] = "out" THEN -t[2] ELSE SPos(t[2]) - SPos(k)

MCProg == [k \in 1..Len(Steps) |->
             [off |-> Steps[k].off, mask |-> Steps[k].mask, vals |-> Steps[k].vals,
              yes |-> Enc(k, YesOf[k]), no |-> Enc(k, NoOf[k])]]

MCOutputEverything == -1

(* _safe_length: the end of the furthest word any step reads. *)
MCSafeLength == 80

FragBytes == {W4(0, 0, 0, 0), W4(0, 0, 32, 0), W4(0, 0, 0, 1)}  \* first, MF, later

MkPacket(frag, proto, dport, flags, tl) ==
    LET b == [o \in {4, 5, 6, 7} |-> frag[o - 3]] @@ (9 :> proto)
             @@ (66 :> dport \div 256) @@ (67 :> dport % 256) @@ (77 :> flags)
    IN [plen |-> 64 + tl, b |-> [o \in {o2 \in DOMAIN b : o2 < 64 + tl} |-> b[o]]]

MCPackets ==
    {MkPacket(f, p, d, fl, tl) : f \in FragBytes, p \in {TCP, UDP, ICMP},
                                 d \in {21, 80, 443, 8080, 1024, 7},
                                 fl \in {0, 2, 18}, tl \in {0, 2, 3, 4, 13, 14, 15, 16}}

(***************************************************************************)
(* IPFilter(drop -) with two outputs: the bare clause short-circuits the   *)
(* program to _output_everything = noutputs() = 2, and no steps are       *)
(* compiled.                                                               *)
(***************************************************************************)
MCDropAllProg == <<>>
MCDropAllOutput == 2
MCDropAllSafeLength == 0
=============================================================================
