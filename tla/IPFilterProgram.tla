--------------------------- MODULE IPFilterProgram ---------------------------
(***************************************************************************)
(* The compressed decision program IPFilter executes (_prog) and the      *)
(* packets it executes it on.                                              *)
(*                                                                         *)
(* _prog is a flat array of uint32 words; a step occupies 4 + n words:    *)
(* pr[0] = offset (low 16 bits) | n << 16, pr[1] = no target, pr[2] = yes  *)
(* target, pr[3] = mask, pr[4..] = the n values.  A target > 0 is a       *)
(* forward distance in words ("pr += off"), a target <= 0 selects output  *)
(* -target.  Here a step is a record and its position in words is         *)
(* computed, so targets keep the code's relative word encoding.  Masks    *)
(* and values are 4-tuples of bytes in packet (network) order, which is   *)
(* how pr[3] and the values sit in memory.                                 *)
(*                                                                         *)
(* A packet is addressed in the unified offset space of ipfilter.hh:      *)
(* offsets below TRANSP_FAKE_OFFSET (64) are network-header bytes, offset *)
(* 64 + k is byte k of the transport header; plen is                      *)
(* "p->length() + TRANSP_FAKE_OFFSET - p->transport_header_offset()".     *)
(***************************************************************************)
EXTENDS Integers, Sequences, Bitwise

CONSTANTS
    Prog,              \* the steps of _prog, in array order
    SafeLength,        \* _safe_length
    OutputEverything,  \* _output_everything (-1 when there is a program)
    NOutputs,          \* noutputs()
    Packets            \* the packets pushed: [plen, b] records

TRANSP_FAKE_OFFSET == 64
MIN_BINARY_SEARCH == 7
PERFORM_BINARY_SEARCH == 1

NSteps == Len(Prog)

(* Position in words of step k (1-based) in _prog. *)
RECURSIVE Pos(_)
Pos(k) == IF k = 1 THEN 0 ELSE Pos(k - 1) + 4 + Len(Prog[k - 1].vals)

StepStarts == {Pos(k) : k \in 1..NSteps}

(* The step whose first word is at position pc. *)
StepAt(pc) == Prog[CHOOSE k \in 1..NSteps : Pos(k) = pc]

(* Byte o of a packet; offsets the record leaves out hold 0. *)
Byte(pkt, o) == IF o \in DOMAIN pkt.b THEN pkt.b[o] ELSE 0

(* The masked word "data & pr[3]" when every byte read is in the packet. *)
MaskedWord(w, mask) == [i \in 1..4 |-> w[i] & mask[i]]

(***************************************************************************)
(* "*pm < data" compares two uint32 loaded from memory.  On the           *)
(* little-endian build the last byte in memory is the most significant.  *)
(* compress_exprs sorts the values of a binary-search step by the same    *)
(* comparison.                                                              *)
(***************************************************************************)
HostLess(a, b) ==
    \E i \in 1..4 : a[i] < b[i] /\ \A j \in (i + 1)..4 : a[j] = b[j]

(* The fate of a packet: an output number, Dropped, or Running before.   *)
Running == -1
Dropped == -2

(* checked_output_push(port, p): an out-of-range port drops the packet.   *)
CheckedOutput(port) == IF port < NOutputs THEN port ELSE Dropped
=============================================================================
