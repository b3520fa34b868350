--------------------------- MODULE MCIPReassembler ---------------------------
EXTENDS IPReassembler, TLC

CONSTANTS s1, s2

MCSegs == {s1, s2}
MCSymmetry == Permutations(MCSegs)

(* Both datagrams hash to bucket 0 of two, so one list holds both.       *)
MCBucket(s) == 0

(***************************************************************************)
(* A 20-byte datagram cut at 8 and 16, in every consistent way: the       *)
(* fragments overlap, repeat and arrive in any order.  [8, 12) with MF is *)
(* a middle fragment of bad length.                                        *)
(***************************************************************************)
Frag(o, l, m) == [off |-> o, lastoff |-> l, mf |-> m]
MCFrags ==
    {Frag(0, 8, TRUE), Frag(0, 16, TRUE), Frag(8, 16, TRUE),
     Frag(8, 20, FALSE), Frag(16, 20, FALSE), Frag(8, 12, TRUE)}

(* The same, and a last fragment that ends inside the datagram.          *)
MCShortLastFrags == MCFrags \cup {Frag(8, 13, FALSE)}

(* The reassembly timers scaled from 30 s and 10 s and the overfull ages *)
(* from 10, 5, 0, with the clock started past REAP_TIMEOUT as a real     *)
(* clock is.                                                               *)
MCOverfullAges == <<2, 1, 0>>
====
