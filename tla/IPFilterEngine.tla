--------------------------- MODULE IPFilterEngine ---------------------------
(***************************************************************************)
(* The classification engine of IPFilter: IPFilter::push and             *)
(* IPFilter::length_checked_push (elements/ip/ipfilter.cc), run on one     *)
(* packet against the compressed program.  Each action is one pass of a    *)
(* labelled part of the loop: the length check and word load, the linear  *)
(* scan of the values, one probe of the binary search, and the jump at    *)
(* "gotit".  A load of bytes past the end of the packet (the checked path *)
(* loads a whole word once the bytes its mask needs are present) returns  *)
(* whatever the memory holds: a choice from Garbage.                      *)
(***************************************************************************)
EXTENDS IPFilterProgram

CONSTANT Garbage    \* the byte values memory past the packet may hold

VARIABLES
    pkt,    \* the packet being pushed
    res,    \* Running, or the output the packet went to (Dropped: killed)
    at,     \* where the engine is: "push", "load", "scan", "search", "branch", "done"
    path,   \* "fast" (push's loop) or "checked" (length_checked_push), "none" before
    pc,     \* pr - _prog.begin(): word position of the current step
    data,   \* the masked word of the current step
    lo, hi, \* pp and px of the binary search, as value indices
    tgt     \* off at "gotit": the target taken

vars == <<pkt, res, at, path, pc, data, lo, hi, tgt>>

TypeOK ==
    /\ pkt.plen >= TRANSP_FAKE_OFFSET
    /\ res \in {Running, Dropped} \cup (0..NOutputs - 1)
    /\ at \in {"push", "load", "scan", "search", "branch", "done"}
    /\ path \in {"none", "fast", "checked"}
    /\ pc \in StepStarts \cup {0}
    /\ DOMAIN data = 1..4 /\ \A i \in 1..4 : data[i] \in 0..255
    /\ lo \in Nat /\ hi \in Nat
    /\ tgt \in Int

Cur == StepAt(pc)

(***************************************************************************)
(* check_length: "off < packet_length" and the mask bytes c[1..3] of the   *)
(* bytes past the end are zero (c[3] always past it, c[2] when at most 2  *)
(* bytes remain, c[1] when 1 remains).                                     *)
(***************************************************************************)
(* Variant: the test of the second mask byte left out. *)
PartialWordOkNoSecondByte(s, plen) ==
    LET available == plen - s.off
    IN /\ s.off < plen
       /\ ~ \/ s.mask[4] # 0
            \/ s.mask[3] # 0 /\ available <= 2

PartialWordOk(s, plen) ==
    LET available == plen - s.off
    IN /\ s.off < plen
       /\ ~ \/ s.mask[4] # 0
            \/ s.mask[3] # 0 /\ available <= 2
            \/ s.mask[2] # 0 /\ available = 1

Init ==
    /\ pkt \in Packets
    /\ res = Running
    /\ at = "push"
    /\ path = "none"
    /\ pc = 0
    /\ data = <<0, 0, 0, 0>>
    /\ lo = 0 /\ hi = 0
    /\ tgt = 0

(* Variant: output_push in place of checked_output_push. *)
PushUnchecked ==
    /\ at = "push"
    /\ IF OutputEverything >= 0
       THEN /\ res' = OutputEverything
            /\ at' = "done"
            /\ UNCHANGED path
       ELSE /\ path' = IF pkt.plen < SafeLength THEN "checked" ELSE "fast"
            /\ at' = "load"
            /\ UNCHANGED res
    /\ UNCHANGED <<pkt, pc, data, lo, hi, tgt>>

(* Variant: the fast loop taken one byte below _safe_length. *)
PushOffByOne ==
    /\ at = "push"
    /\ IF OutputEverything >= 0
       THEN /\ res' = CheckedOutput(OutputEverything)
            /\ at' = "done"
            /\ UNCHANGED path
       ELSE /\ path' = IF pkt.plen < SafeLength - 1 THEN "checked" ELSE "fast"
            /\ at' = "load"
            /\ UNCHANGED res
    /\ UNCHANGED <<pkt, pc, data, lo, hi, tgt>>

(* IPFilter::push: everything to one output, or pick the loop by length. *)
Push ==
    /\ at = "push"
    /\ IF OutputEverything >= 0
       THEN /\ res' = CheckedOutput(OutputEverything)
            /\ at' = "done"
            /\ UNCHANGED path
       ELSE /\ path' = IF pkt.plen < SafeLength THEN "checked" ELSE "fast"
            /\ at' = "load"
            /\ UNCHANGED res
    /\ UNCHANGED <<pkt, pc, data, lo, hi, tgt>>

(***************************************************************************)
(* Top of the loop: the checked loop goes to check_length when            *)
(* "off + 4 > packet_length", and from there either to length_ok or to    *)
(* failure; the fast loop always loads.  The load masks the word and      *)
(* picks linear scan or binary search by the value count.                 *)
(***************************************************************************)
Load ==
    /\ at = "load"
    /\ LET s == Cur IN
       \/ /\ \/ path = "fast"
             \/ s.off + 4 <= pkt.plen
             \/ PartialWordOk(s, pkt.plen)
          /\ \E g \in [1..4 -> Garbage] :
                data' = MaskedWord([i \in 1..4 |-> IF s.off + i - 1 < pkt.plen
                                                  THEN Byte(pkt, s.off + i - 1)
                                                  ELSE g[i]], s.mask)
          /\ IF PERFORM_BINARY_SEARCH = 0 \/ Len(s.vals) < MIN_BINARY_SEARCH
             THEN at' = "scan" /\ UNCHANGED <<lo, hi>>
             ELSE at' = "search" /\ lo' = 0 /\ hi' = Len(s.vals)
          /\ UNCHANGED tgt
       \/ /\ path = "checked"
          /\ s.off + 4 > pkt.plen
          /\ ~PartialWordOk(s, pkt.plen)
          /\ tgt' = s.no
          /\ at' = "branch"
          /\ UNCHANGED <<data, lo, hi>>
    /\ UNCHANGED <<pkt, res, path, pc>>

(* The linear loop over the n values: yes target on the first equal one. *)
Scan ==
    /\ at = "scan"
    /\ tgt' = IF \E v \in 1..Len(Cur.vals) : Cur.vals[v] = data THEN Cur.yes ELSE Cur.no
    /\ at' = "branch"
    /\ UNCHANGED <<pkt, res, path, pc, data, lo, hi>>

(* One round of "while (pp < px)": probe the middle value. *)
Probe ==
    /\ at = "search"
    /\ IF lo < hi
       THEN LET pm == lo + (hi - lo) \div 2
                v  == Cur.vals[pm + 1]
            IN IF v = data
               THEN tgt' = Cur.yes /\ at' = "branch" /\ UNCHANGED <<lo, hi>>
               ELSE /\ IF HostLess(v, data)
                       THEN lo' = pm + 1 /\ UNCHANGED hi
                       ELSE hi' = pm /\ UNCHANGED lo
                    /\ UNCHANGED <<tgt, at>>
       ELSE tgt' = Cur.no /\ at' = "branch" /\ UNCHANGED <<lo, hi>>
    /\ UNCHANGED <<pkt, res, path, pc, data>>

(* Variant: the jump lands one word past its target. *)
BranchOffByOne ==
    /\ at = "branch"
    /\ IF tgt <= 0
       THEN res' = CheckedOutput(-tgt) /\ at' = "done" /\ UNCHANGED pc
       ELSE pc' = pc + tgt + 1 /\ at' = "load" /\ UNCHANGED res
    /\ UNCHANGED <<pkt, path, data, lo, hi, tgt>>

(* gotit: a target <= 0 is checked_output_push(-off), else pr += off. *)
Branch ==
    /\ at = "branch"
    /\ IF tgt <= 0
       THEN res' = CheckedOutput(-tgt) /\ at' = "done" /\ UNCHANGED pc
       ELSE pc' = pc + tgt /\ at' = "load" /\ UNCHANGED res
    /\ UNCHANGED <<pkt, path, data, lo, hi, tgt>>

Next == Push \/ Load \/ Scan \/ Probe \/ Branch

(* push runs to completion on the thread that calls it. *)
Spec == Init /\ [][Next]_vars /\ WF_vars(Next)

-----------------------------------------------------------------------------
(***************************************************************************)
(* The fast loop reads without length checks once push has compared the   *)
(* packet with _safe_length: every word it then loads, at any step the    *)
(* jumps reach, lies wholly inside the packet.                             *)
(***************************************************************************)
FastPathInBounds ==
    (at = "load" /\ path = "fast") => Cur.off + 4 <= pkt.plen

(***************************************************************************)
(* push and length_checked_push implement the specification of section    *)
(* 4.9: every packet ends on the output the program assigns it, whatever  *)
(* lies in memory past its end, through either loop and either search,    *)
(* and the walk always ends.                                               *)
(***************************************************************************)
Abs == INSTANCE IPFilterClassify

ImplementsClassify == Abs!DecidedSpec
=============================================================================
