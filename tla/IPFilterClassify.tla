-------------------------- MODULE IPFilterClassify --------------------------
(***************************************************************************)
(* What IPFilter promises for one pushed packet (spec.md section 4.9):     *)
(* the decision program is followed from its entry; a step matches when   *)
(* every byte its mask selects lies inside the packet and the masked word *)
(* is one of the step's values; a target <= 0 ends the walk on that        *)
(* output, an out-of-range output drops the packet; with                   *)
(* _output_everything set the program is not consulted.  One atomic step *)
(* decides the packet.                                                     *)
(***************************************************************************)
EXTENDS IPFilterProgram, FiniteSets

VARIABLES pkt, res
vars == <<pkt, res>>

(* The bytes the step's mask selects are all inside the packet. *)
Available(s, p) == \A i \in 0..3 : s.mask[i + 1] # 0 => s.off + i < p.plen

Matches(s, p) ==
    /\ Available(s, p)
    /\ \E v \in 1..Len(s.vals) :
          MaskedWord([i \in 1..4 |-> Byte(p, s.off + i - 1)], s.mask) = s.vals[v]

RECURSIVE Walk(_, _)
Walk(pc, p) ==
    LET s == StepAt(pc)
        t == IF Matches(s, p) THEN s.yes ELSE s.no
    IN IF t <= 0 THEN CheckedOutput(-t) ELSE Walk(pc + t, p)

Decide(p) ==
    IF OutputEverything >= 0 THEN CheckedOutput(OutputEverything) ELSE Walk(0, p)

Init ==
    /\ pkt \in Packets
    /\ res = Running

Classify ==
    /\ res = Running
    /\ res' = Decide(pkt)
    /\ UNCHANGED pkt

Spec == Init /\ [][Classify]_vars /\ WF_vars(Classify)

(***************************************************************************)
(* Classify is enabled exactly while res = Running (Decide is defined for *)
(* every packet), so under the safety part WF_vars(Classify) says no more *)
(* than that the packet is eventually decided.  DecidedSpec states Spec   *)
(* with that form of the fairness condition.                              *)
(***************************************************************************)
Decided == <>(res # Running)

DecidedSpec == Init /\ [][Classify]_vars /\ Decided
=============================================================================
