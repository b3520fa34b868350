------------------------------ MODULE MCStaTest ------------------------------
EXTENDS StaTest

CONSTANTS m1, m2

MCMACs == {m1, m2}

(* A crc-good frame from a station. *)
Fr(kind, dir, a1, a2, a3, rssi) ==
    [crcok |-> TRUE, kind |-> kind, dir |-> dir,
     addr1 |-> a1, addr2 |-> a2, addr3 |-> a3, rssi |-> rssi]

(* Data frames of m1 at two RSSI levels, a beacon of AP m2, a management   *)
(* frame sent to m1 (ToDS), a control frame and a frame with a bad CRC.    *)
MCFrames ==
    { Fr("data", "nods", m2, m1, m2, 0), Fr("data", "fromds", m2, m1, m2, 10),
      Fr("beacon", "nods", m1, m2, m2, 0), Fr("mgmt", "tods", m1, m2, m2, 0),
      Fr("ctl", "nods", m1, m2, m2, 0),
      [Fr("data", "nods", m2, m1, m2, 0) EXCEPT !.crcok = FALSE] }

(* One station's data frames at RSSI levels whose two-sample variances    *)
(* are 25, 16 and 1: over 20, between 10 and 20, and under 10.           *)
MCSwingFrames == { Fr("data", "nods", m2, m1, m2, r) : r \in {0, 2, 10, 12} }
====
