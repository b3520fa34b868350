-------------------------- MODULE ICMPPingChecksum --------------------------
(***************************************************************************)
(* The checksum arithmetic of ICMPPingRewriter::Mapping                   *)
(* (elements/icmp/icmppingrewriter.cc): initialize() folds the change of  *)
(* the flow's address words into _ip_csum_delta and the change of the    *)
(* identifier into _icmp_csum_delta; apply() adds each delta to the       *)
(* complemented old checksum and complements the folded result, and       *)
(* recomputes the ICMP checksum in full when the result is +0.            *)
(*                                                                         *)
(* Words are W bits wide (16 in the code: the masks 0xFFFF and the shifts *)
(* by 16 become 2^W - 1 and division by 2^W).  A packet is its IP header  *)
(* (the flow's address words, the other header words folded into one     *)
(* nonzero word, the checksum) and its ICMP echo header (type and code,   *)
(* identifier, sequence, checksum).  A step rewrites the packet with a    *)
(* mapping from its own flow to any other, as push() does with the        *)
(* mapping its lookup found; the deltas are stored in 16-bit fields.      *)
(* initialize() folds twice, which absorbs every carry only while the    *)
(* loop's sum stays below 2^(2W), that is while 2 * AddrWords <= 2^W: at  *)
(* 16 bits and four words by far; a model must keep that ratio.          *)
(***************************************************************************)
EXTENDS Integers, Sequences, SequencesExt

CONSTANTS
    W,            \* bits per word
    AddrWords,    \* words of saddr and daddr together (4 in IPFlowID)
    TypeCodes,    \* ICMP type/code words (echo, echo reply)
    Seqs          \* ICMP sequence words

VARIABLES ip, icmp

vars == <<ip, icmp>>

B == 2^W
Word == 0..B - 1

(* ~x & 0xFFFF *)
Cpl(x) == B - 1 - (x % B)

(* (x & 0xFFFF) + (x >> 16) *)
Fold(x) == (x % B) + (x \div B)

(* The reference: the one's-complement sum of words, end-around carry at *)
(* every addition, and the checksum that makes a header sum to all ones. *)
OcAdd(a, b) == IF a + b >= B THEN a + b - B + 1 ELSE a + b
OcSum(ws) == FoldLeft(OcAdd, 0, ws)
RefChecksum(ws) == Cpl(OcSum(ws))
Verifies(ws) == OcSum(ws) = B - 1

IpWords(h) == h.addr \o <<h.rest, h.sum>>
IcmpWords(c) == <<c.tc, c.sum, c.id, c.seq>>

(* Mapping::initialize's address-word loop and its two folds, stored in *)
(* the 16-bit _ip_csum_delta.                                            *)
IpDelta(in, out) ==
    LET d  == FoldLeft(LAMBDA a, i : a + Cpl(in[i]) + out[i], 0, [i \in 1..AddrWords |-> i])
        d1 == Fold(d)
    IN (d1 + d1 \div B) % B

(* _icmp_csum_delta: the identifier word alone. *)
IcmpDelta(inid, outid) ==
    LET d1 == Fold(Cpl(inid) + outid) IN (d1 + d1 \div B) % B

(* The incremental update apply() makes to a checksum field. *)
Update(sum, delta) ==
    LET s == Fold(Cpl(sum) + delta) IN Cpl(s + s \div B)

(* Variant: the ICMP checksum left as the incremental update made it.    *)
ApplyNoRecheck(h, c, out, outid) ==
    /\ ip' = [h EXCEPT !.addr = out, !.sum = Update(h.sum, IpDelta(h.addr, out))]
    /\ icmp' = [c EXCEPT !.id = outid, !.sum = Update(c.sum, IcmpDelta(c.id, outid))]

(***************************************************************************)
(* Mapping::apply: write the new addresses and update ip_sum; write the   *)
(* new identifier and update icmp_cksum, and if that is +0 recompute it   *)
(* over the whole ICMP message (click_in_cksum, with the field at 0).     *)
(***************************************************************************)
Apply(h, c, out, outid) ==
    LET c1 == [c EXCEPT !.id = outid, !.sum = Update(c.sum, IcmpDelta(c.id, outid))]
    IN /\ ip' = [h EXCEPT !.addr = out, !.sum = Update(h.sum, IpDelta(h.addr, out))]
       /\ icmp' = IF c1.sum # 0 THEN c1
                  ELSE [c1 EXCEPT !.sum = RefChecksum(IcmpWords([c1 EXCEPT !.sum = 0]))]

(* Packets as they arrive: any flow, the IP header's other words nonzero *)
(* (its version byte), both checksums as the sender computed them.       *)
Init ==
    /\ \E addr \in [1..AddrWords -> Word], rest \in Word \ {0} :
          ip = [addr |-> addr, rest |-> rest,
                sum |-> RefChecksum(addr \o <<rest, 0>>)]
    /\ \E tc \in TypeCodes, id \in Word, sq \in Seqs :
          icmp = [tc |-> tc, id |-> id, seq |-> sq,
                  sum |-> RefChecksum(<<tc, 0, id, sq>>)]

(* push() with the mapping of the packet's flow to (out, outid). *)
Rewrite ==
    \E out \in [1..AddrWords -> Word], outid \in Word :
        Apply(ip, icmp, out, outid)

Next == Rewrite

Spec == Init /\ [][Next]_vars

-----------------------------------------------------------------------------
(***************************************************************************)
(* After any number of rewrites both headers still carry checksums that   *)
(* verify: the incremental updates of apply() agree with a full           *)
(* recomputation, the +0 ICMP result included.                            *)
(***************************************************************************)
ChecksumsVerify ==
    /\ Verifies(IpWords(ip))
    /\ Verifies(IcmpWords(icmp))
====
