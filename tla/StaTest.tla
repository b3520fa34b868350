------------------------------- MODULE StaTest -------------------------------
(***************************************************************************)
(* StaTest (elements/local/staTest.cc): a monitor of 802.11 stations.      *)
(* push() classifies each frame, finds the station it names in _sta_list   *)
(* (lookup by MAC) and either refreshes it (time, RSSI, sliding window of *)
(* RSSI values) or appends it.  run_timer() fires every second: getStats  *)
(* computes each station's long variance and updates its attack counters, *)
(* printStations forgets stations not seen for 90 seconds, cleanup resets *)
(* the per-second flags.  push and the timer run on the one router thread, *)
(* so each is one atomic action.                                           *)
(*                                                                         *)
(* Time is kept as each station's age in whole timer periods since it was *)
(* last seen, capped one past ForgetAge; the timer is the only thing that *)
(* makes time pass.  Averages and variances are computed exactly (the     *)
(* code uses floating point, printed with %f).                             *)
(***************************************************************************)
EXTENDS Integers, Sequences, FiniteSets, SequencesExt

CONSTANTS
    MACs,        \* station addresses
    Frames,      \* frames that arrive: [crcok, dir, kind, addr1..3, rssi]
    NPkts,       \* frames that arrive in a behaviour
    window,      \* the "window" define: sliding window length in samples
    ForgetAge,   \* printStations' "diff > 90", in timer periods
    CountCap     \* the attack counters are tracked up to this value

VARIABLES
    sta_list,    \* _sta_list: sequence of station records
    np,          \* frames arrived so far
    leaked       \* station records allocated and neither kept nor freed

vars == <<sta_list, np, leaked>>

(* A station; run is a ghost: the timer ticks in a row, up to now, at     *)
(* which its long variance was over 20.                                   *)
Station == [mac : MACs, type : 0..2, rssi : Nat, age : 0..ForgetAge + 1,
            past : Seq(Nat), vhigh : 0..CountCap, vlow : 0..CountCap, run : 0..CountCap]

(***************************************************************************)
(* The station a frame names: the address the DS bits select, replaced by *)
(* the transmitter for data frames and probe requests; the type 0 for      *)
(* beacons and responses, 1 for data and probe requests, 2 for other       *)
(* management frames.  Control frames name none ("goto push").             *)
(***************************************************************************)
DsMac(f) ==
    CASE f.dir = "nods"   -> f.addr3
      [] f.dir = "tods"   -> f.addr1
      [] f.dir = "fromds" -> f.addr2
      [] f.dir = "dstods" -> f.addr3
Classify(f) ==
    CASE f.kind = "data"     -> [mac |-> f.addr2, type |-> 1]
      [] f.kind = "beacon"   -> [mac |-> DsMac(f), type |-> 0]
      [] f.kind = "probereq" -> [mac |-> f.addr2, type |-> 1]
      [] f.kind = "mgmt"     -> [mac |-> DsMac(f), type |-> 2]

(* A lookup that starts its scan at the list's second element. *)
LookupSkipsHead(l, mac) ==
    IF l = <<>> THEN 0
    ELSE LET j == SelectInSeq(Tail(l), LAMBDA s : s.mac = mac)
         IN IF j = 0 THEN 0 ELSE j + 1

(* lookup(): the position of the first station with the frame's MAC, 0 if none. *)
Lookup(l, mac) == SelectInSeq(l, LAMBDA s : s.mac = mac)

(* keepTrack(): append the RSSI, then drop the oldest once window is reached. *)
KeepTrack(past, rssi) ==
    LET p == Append(past, rssi) IN IF Len(p) >= window THEN Tail(p) ELSE p

NewStation(c, rssi) ==
    [mac |-> c.mac, type |-> c.type, rssi |-> rssi, age |-> 0, past |-> <<>>,
     vhigh |-> 0, vlow |-> 0, run |-> 0]

Init ==
    /\ sta_list = <<>>
    /\ np = 0
    /\ leaked = 0

(***************************************************************************)
(* push(): the station record is allocated first; a frame with a failed   *)
(* CRC is killed and a control frame is pushed on, both leaving the       *)
(* record behind.  A known station gets its time, RSSI and window         *)
(* refreshed (the record just made is left behind); an unknown one is     *)
(* appended, with an empty window.                                         *)
(***************************************************************************)
Push ==
    /\ np < NPkts
    /\ \E f \in Frames :
          LET c == Classify(f)
              i == Lookup(sta_list, c.mac)
          IN IF ~f.crcok \/ f.kind = "ctl"
             THEN leaked' = leaked + 1 /\ UNCHANGED sta_list
             ELSE IF i # 0
             THEN /\ sta_list' = [sta_list EXCEPT ![i].age = 0, ![i].rssi = f.rssi,
                                                  ![i].past = KeepTrack(@, f.rssi)]
                  /\ leaked' = leaked + 1
             ELSE /\ sta_list' = Append(sta_list, NewStation(c, f.rssi))
                  /\ UNCHANGED leaked
    /\ np' = np + 1

-----------------------------------------------------------------------------
(* getLongVariance(sta, 100) > k, over the whole window (which is shorter *)
(* than 100), with getAverage's mean: n * sum(x^2) - sum(x)^2 > k * n^2.  *)
LongVarAbove(past, k) ==
    LET n  == Len(past)
        s  == FoldSeq(LAMBDA x, a : x + a, 0, past)
        sq == FoldSeq(LAMBDA x, a : x * x + a, 0, past)
    IN n > 0 /\ n * sq - s * s > k * n * n

Inc(x) == IF x + 1 > CountCap THEN CountCap ELSE x + 1

(* getStats for one station: the variance attack counters. *)
Stats(st) ==
    LET hi == LongVarAbove(st.past, 20)
        lo == LongVarAbove(st.past, 10)
    IN [st EXCEPT !.vhigh = IF hi THEN (IF @ >= 1 THEN Inc(@) ELSE 1) ELSE IF lo THEN @ ELSE 0,
                  !.vlow  = IF hi THEN @ ELSE IF lo THEN (IF @ >= 1 THEN Inc(@) ELSE 1) ELSE 0,
                  !.run   = IF hi THEN Inc(@) ELSE 0]

Older(st) == [st EXCEPT !.age = IF @ > ForgetAge THEN @ ELSE @ + 1]
Stale(st) == st.age > ForgetAge

(***************************************************************************)
(* printStations' loop: a station not seen for ForgetAge periods is        *)
(* erased from the list (and not deleted).  The loop then applies ++ to   *)
(* the erased iterator: List::erase (click/list.hh, not in this           *)
(* repository) either leaves the erased element's link, and the loop goes *)
(* on with its successor, or clears it, and the loop ends.  The set of    *)
(* lists the loop can leave.                                               *)
(***************************************************************************)
(* A print loop that stops before the list's last station. *)
RECURSIVE PrintFromSkipLast(_, _)
PrintFromSkipLast(l, i) ==
    IF i >= Len(l) THEN {l}
    ELSE IF Stale(l[i])
         THEN LET l2 == RemoveAt(l, i) IN PrintFromSkipLast(l2, i) \cup {l2}
         ELSE PrintFromSkipLast(l, i + 1)

RECURSIVE PrintFrom(_, _)
PrintFrom(l, i) ==
    IF i > Len(l) THEN {l}
    ELSE IF Stale(l[i])
         THEN LET l2 == RemoveAt(l, i) IN PrintFrom(l2, i) \cup {l2}
         ELSE PrintFrom(l, i + 1)

(***************************************************************************)
(* run_timer, one second after the last: getStats, printStations and     *)
(* cleanup (whose resets touch only flags the model leaves out).           *)
(***************************************************************************)
RunTimer ==
    LET l1 == [i \in 1..Len(sta_list) |-> Older(Stats(sta_list[i]))]
    IN \E l2 \in PrintFrom(l1, 1) :
          /\ sta_list' = l2
          /\ leaked' = leaked + Len(l1) - Len(l2)
    /\ UNCHANGED np

Next == Push \/ RunTimer

(* The timer reschedules itself every second. *)
Spec == Init /\ [][Next]_vars /\ WF_vars(RunTimer)

-----------------------------------------------------------------------------
TypeOK ==
    /\ sta_list \in Seq(Station)
    /\ np \in 0..NPkts
    /\ leaked \in Nat

(* push's lookup-then-append keeps _sta_list free of two records for one  *)
(* MAC, through refreshes, appends and the timer's erasures.               *)
UniqueStations ==
    \A i, j \in 1..Len(sta_list) :
        i # j => sta_list[i].mac # sta_list[j].mac

StaleIn(m) == \E i \in 1..Len(sta_list) : sta_list[i].mac = m /\ Stale(sta_list[i])

(* printStations' "forget if not seen in 90 secs": a station that has     *)
(* gone unseen for that long is eventually removed from _sta_list, or     *)
(* seen again, whatever the erase during iteration does to the loop.     *)
StaleForgotten == \A m \in MACs : StaleIn(m) ~> ~StaleIn(m)

(* The attack detector's comment in printStations: var_attack_high > 1    *)
(* means "long variance over 20 for two or more seconds", that is at the *)
(* last two timer ticks in a row.                                          *)
HighMeansConsecutive ==
    \A i \in 1..Len(sta_list) : sta_list[i].vhigh > 1 => sta_list[i].run > 1
====
