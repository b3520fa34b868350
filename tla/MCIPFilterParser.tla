--------------------------- MODULE MCIPFilterParser ---------------------------
EXTENDS IPFilterParser

(* Two addresses, three integers and the two transport protocols. *)
MCAddrOf == [w \in {"A", "B"} |-> IF w = "A" THEN 1 ELSE 2]
MCIntOf == [w \in {"6", "80", "300"} |-> CASE w = "6" -> 6 [] w = "80" -> 80 [] OTHER -> 300]
MCProtoDB == [w \in {"tcp", "udp"} |-> IF w = "tcp" THEN 6 ELSE 17]

(* The connectives, brackets and atoms of the grammar. *)
StructWords == {"(", ")", "not", "and", "or", "?", ":", "A", "B", "false"}
(* Packets telling A, B and a third address apart on either side. *)
StructPkts == [src : 1..3, dst : 1..3, proto : {6}, sport : {80}, dport : {80}]

(* Qualifiers, protocols, data and connectives of primitives. *)
PrimWords == {"src", "dst", "host", "port", "tcp", "udp", "or", "and", "A", "B", "80", "300"}
(* Packets of either protocol with ports on either side of 80. *)
PrimPkts == [src : 1..2, dst : 1..2, proto : {6, 17}, sport : {79, 80, 81}, dport : {79, 80, 81}]

(* Words for the single-primitive checks of negation, protocols and ports. *)
NotWords == {"tcp", "udp", "not", "A"}
ProtoWords == {"proto", "6", "300"}
PortWords == {"port", "<", ">", "=", "80"}
OtherPkts == [src : 1..2, dst : 1..2, proto : {1, 6, 17}, sport : {79, 81}, dport : {79, 81}]
=============================================================================
