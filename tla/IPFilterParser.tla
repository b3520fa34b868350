---------------------------- MODULE IPFilterParser ----------------------------
(***************************************************************************)
(* The pattern parser of IPFilter (elements/ip/ipfilter.cc): configure()  *)
(* hands the words of one pattern to parse_expr, which descends through   *)
(* parse_orexpr, parse_term and parse_factor; parse_factor collects a     *)
(* primitive's qualifiers, relational operator and data, and             *)
(* Primitive::check completes it from the previous primitive (the         *)
(* tcpdump-style abbreviation "src host A or B") before add_exprs turns   *)
(* it into tests.  The parser is a set of mutually recursive operators,  *)
(* and a pattern's meaning is the set of packets it matches.  Any error  *)
(* report makes configure fail, so only the error flag is kept.          *)
(*                                                                         *)
(* Modelled words: the qualifiers src, dst, dest, "src or dst", "src and  *)
(* dst", ip, host, port, proto, not; protocol names; the relational        *)
(* operators; addresses and integers as data.  Not modelled: [POS:LEN],   *)
(* "& MASK", "mask" and net prefixes, header-field and fragment keywords, *)
(* and the port, TCP-option and ICMP name databases.  Packets are         *)
(* unfragmented, so the first-fragment test of port primitives holds.     *)
(***************************************************************************)
EXTENDS Integers, Sequences, FiniteSets

CONSTANTS
    Words,        \* the words a pattern is made of
    MaxWords,     \* the longest pattern
    AddrOf,       \* words cp_ip_address accepts, and their addresses
    IntOf,        \* words cp_integer accepts, and their values
    ProtoDB,      \* NameInfo's IP protocol names, and their numbers
    Pkts          \* packets: [src, dst, proto, sport, dport]

VARIABLES
    pat,          \* the words of the pattern after its action word
    res           \* what configure made of it

vars == <<pat, res>>

TYPE_NONE == 0
TYPE_TYPE == 1
TYPE_SYNTAX == 2
TYPE_INT == 3
TYPE_HOST == 10
TYPE_PROTO == 11
TYPE_PORT == 13
UNKNOWN == -1000
SD_SRC == 1
SD_DST == 2
SD_AND == 3
SD_OR == 4
OP_EQ == 0
OP_GT == 1
OP_LT == 2
IP_PROTO_TCP == 6
IP_PROTO_UDP == 17
IP_PROTO_TCP_OR_UDP == 257
(* check's 0xFFFFFFFF for a host: all ones over every address of a model *)
(* (TLC's integers stop at 2^31).                                         *)
HOST_MASK == 2^16 - 1

(* The modelled entries of type_entries: keyword -> type. *)
TypeDB == [w \in {"dest", "dst", "host", "ip", "not", "port", "proto", "src"} |->
             CASE w = "host" -> TYPE_HOST [] w = "port" -> TYPE_PORT
               [] w = "proto" -> TYPE_PROTO [] OTHER -> TYPE_SYNTAX]

(* The word at 0-based position i, as words[i]. *)
W(ws, i) == ws[i + 1]

(***************************************************************************)
(* IPFilter::lookup: type keywords win when no type is set; otherwise a   *)
(* name is looked up in the protocol database and kept only if the type  *)
(* allows a protocol (-2: a name that means nothing here).                *)
(***************************************************************************)
Lookup(wd, type) ==
    IF (type = 0 \/ type = TYPE_TYPE) /\ wd \in DOMAIN TypeDB
    THEN IF TypeDB[wd] = TYPE_SYNTAX THEN [wt |-> -1] ELSE [wt |-> TYPE_TYPE, data |-> TypeDB[wd]]
    ELSE IF wd \notin DOMAIN ProtoDB THEN [wt |-> -1]
    ELSE IF type = 0 \/ type = TYPE_PROTO THEN [wt |-> TYPE_PROTO, data |-> ProtoDB[wd]]
    ELSE [wt |-> -2]

(* Primitive::clear *)
Clear == [type |-> 0, srcdst |-> 0, transp |-> UNKNOWN, data |-> 0, op |-> OP_EQ,
          neg |-> FALSE, u |-> 0, mask |-> 0]

(* "src", or "src and dst" / "src or dst" when the third word is dst. *)
SrcQual(ws, pos) ==
    IF pos < Len(ws) - 2 /\ W(ws, pos + 2) \in {"dst", "dest"}
    THEN CASE W(ws, pos + 1) \in {"and", "&&"} -> [sd |-> SD_AND, next |-> pos + 3]
           [] W(ws, pos + 1) \in {"or", "||"}  -> [sd |-> SD_OR, next |-> pos + 3]
           [] OTHER                            -> [sd |-> SD_SRC, next |-> pos + 1]
    ELSE [sd |-> SD_SRC, next |-> pos + 1]

(***************************************************************************)
(* parse_factor's qualifier loop, with set_type, set_transp_proto and     *)
(* set_srcdst reporting a second type, protocol or direction; "not"      *)
(* among the qualifiers flips the factor's negation.                      *)
(***************************************************************************)
RECURSIVE QualLoop(_, _, _, _, _)
QualLoop(ws, pos, prim, neg, err) ==
    LET stop == [pos |-> pos, prim |-> prim, negated |-> neg, err |-> err]
    IN IF pos >= Len(ws) THEN stop
       ELSE LET wd == W(ws, pos)
                l  == Lookup(wd, 0)
            IN CASE l.wt = TYPE_TYPE ->
                      QualLoop(ws, pos + 1, [prim EXCEPT !.type = l.data], neg, err \/ prim.type # 0)
                 [] l.wt = TYPE_PROTO ->
                      QualLoop(ws, pos + 1, [prim EXCEPT !.transp = l.data], neg,
                               err \/ (prim.transp # UNKNOWN /\ prim.transp # l.data))
                 [] l.wt # -1 -> stop
                 [] wd = "src" ->
                      LET s == SrcQual(ws, pos)
                      IN QualLoop(ws, s.next, [prim EXCEPT !.srcdst = s.sd], neg, err \/ prim.srcdst # 0)
                 [] wd \in {"dst", "dest"} ->
                      QualLoop(ws, pos + 1, [prim EXCEPT !.srcdst = SD_DST], neg, err \/ prim.srcdst # 0)
                 [] wd = "ip" -> QualLoop(ws, pos + 1, prim, neg, err)
                 [] wd \in {"not", "!"} -> QualLoop(ws, pos + 1, prim, ~neg, err)
                 [] OTHER -> stop

(* The relational operators: op and negation. *)
RelOps == [w \in {"=", "==", "!=", ">", "<", ">=", "<="} |->
             CASE w = ">"  -> [op |-> OP_GT, neg |-> FALSE]
               [] w = "<"  -> [op |-> OP_LT, neg |-> FALSE]
               [] w = ">=" -> [op |-> OP_LT, neg |-> TRUE]
               [] w = "<=" -> [op |-> OP_GT, neg |-> TRUE]
               [] w = "!=" -> [op |-> OP_EQ, neg |-> TRUE]
               [] OTHER    -> [op |-> OP_EQ, neg |-> FALSE]]

(***************************************************************************)
(* The data word: a name the lookup resolves, an integer, an address, or *)
(* nothing (the word is left for the caller; a dangling operator is an    *)
(* error).                                                                 *)
(***************************************************************************)
DataWord(ws, pos, prim) ==
    IF pos >= Len(ws) THEN [pos |-> pos, prim |-> prim, err |-> FALSE]
    ELSE LET wd == W(ws, pos)
             l  == Lookup(wd, prim.type)
         IN CASE l.wt = -2 -> [pos |-> pos + 1, prim |-> [prim EXCEPT !.type = -2], err |-> TRUE]
              [] l.wt # -1 /\ l.wt # TYPE_TYPE ->
                   [pos |-> pos + 1, prim |-> [prim EXCEPT !.data = l.wt, !.u = l.data], err |-> FALSE]
              [] wd \in DOMAIN IntOf ->
                   [pos |-> pos + 1, prim |-> [prim EXCEPT !.data = TYPE_INT, !.u = IntOf[wd]], err |-> FALSE]
              [] wd \in DOMAIN AddrOf ->
                   [pos |-> pos + 1, prim |-> [prim EXCEPT !.data = TYPE_HOST, !.u = AddrOf[wd]], err |-> FALSE]
              [] OTHER -> [pos |-> pos, prim |-> prim, err |-> prim.op # OP_EQ \/ prim.neg]

Fail == [ok |-> FALSE]
Ok(p) == [ok |-> TRUE, prim |-> p]

(***************************************************************************)
(* Primitive::set_mask with no provided mask: a relation that is always   *)
(* true or false becomes "& 0 = 0", negated as needed; "< X" becomes      *)
(* "not > X-1"; an equality beyond the field is an error.                 *)
(***************************************************************************)
SetMask(p, full) ==
    IF p.op \in {OP_GT, OP_LT} THEN
        IF (p.op = OP_LT /\ (p.u = 0 \/ p.u > full)) \/ (p.op = OP_GT /\ p.u >= full)
        THEN LET willBe == IF p.op = OP_LT /\ p.u > full THEN ~p.neg ELSE p.neg
             IN Ok([p EXCEPT !.u = 0, !.mask = 0, !.neg = ~willBe, !.op = OP_EQ])
        ELSE IF p.op = OP_LT
        THEN Ok([p EXCEPT !.u = @ - 1, !.neg = ~@, !.op = OP_GT, !.mask = full])
        ELSE Ok([p EXCEPT !.mask = full])
    ELSE IF p.u > full THEN Fail
    ELSE Ok([p EXCEPT !.mask = full])

(***************************************************************************)
(* Primitive::check, first half: a primitive with no type takes it from  *)
(* its data; an integer takes the previous primitive's type, and a host  *)
(* or port its direction (and a port its protocol) when it has none.     *)
(***************************************************************************)
(* Variant: a bare address keeps its own (unset) direction. *)
CheckInferNoDirection(q, p) ==
    LET d == IF q.data = TYPE_INT THEN p.type ELSE q.data
    IN IF q.type < 0 THEN Fail
       ELSE IF q.type # 0 THEN Ok(q)
       ELSE IF q.data = TYPE_INT /\ p.type \notin {TYPE_PROTO, TYPE_PORT} THEN Fail
       ELSE CASE d = TYPE_HOST  -> Ok([q EXCEPT !.type = TYPE_HOST, !.data = d])
              [] d = TYPE_PROTO -> Ok([q EXCEPT !.type = TYPE_PROTO, !.data = d])
              [] d = TYPE_PORT  -> Ok([q EXCEPT !.type = TYPE_PORT, !.data = d,
                                        !.srcdst = IF @ = 0 THEN p.srcdst ELSE @,
                                        !.transp = IF @ = UNKNOWN THEN p.transp ELSE @])
              [] d = TYPE_NONE /\ q.transp # UNKNOWN -> Ok([q EXCEPT !.type = TYPE_PROTO])
              [] OTHER -> Fail

CheckInfer(q, p) ==
    LET d == IF q.data = TYPE_INT THEN p.type ELSE q.data
        sd == IF q.srcdst = 0 THEN p.srcdst ELSE q.srcdst
    IN IF q.type < 0 THEN Fail
       ELSE IF q.type # 0 THEN Ok(q)
       ELSE IF q.data = TYPE_INT /\ p.type \notin {TYPE_PROTO, TYPE_PORT} THEN Fail
       ELSE CASE d = TYPE_HOST  -> Ok([q EXCEPT !.type = TYPE_HOST, !.data = d, !.srcdst = sd])
              [] d = TYPE_PROTO -> Ok([q EXCEPT !.type = TYPE_PROTO, !.data = d])
              [] d = TYPE_PORT  -> Ok([q EXCEPT !.type = TYPE_PORT, !.data = d, !.srcdst = sd,
                                        !.transp = IF @ = UNKNOWN THEN p.transp ELSE @])
              [] d = TYPE_NONE /\ q.transp # UNKNOWN -> Ok([q EXCEPT !.type = TYPE_PROTO])
              [] OTHER -> Fail

(* check's second half for host, proto and port, and the default "src or *)
(* dst" direction of a host or port.                                      *)
CheckType(q) ==
    CASE q.type = TYPE_HOST ->
           IF q.data # TYPE_HOST \/ q.op # OP_EQ THEN Fail ELSE Ok([q EXCEPT !.mask = HOST_MASK])
      [] q.type = TYPE_PROTO ->
           LET own == q.data \in {TYPE_INT, TYPE_PROTO}
               q1  == [q EXCEPT !.data = IF own THEN TYPE_NONE ELSE @,
                                !.u = IF own THEN @ ELSE q.transp, !.transp = UNKNOWN]
               r   == IF q1.u >= 256
                      THEN IF q1.op # OP_EQ THEN Fail ELSE Ok([q1 EXCEPT !.mask = 255])
                      ELSE SetMask(q1, 255)
           IN IF own /\ q.transp # UNKNOWN /\ q.transp # q.u THEN Fail
              ELSE IF q1.data # TYPE_NONE \/ q1.u = UNKNOWN THEN Fail
              ELSE IF ~r.ok THEN Fail
              ELSE Ok([r.prim EXCEPT !.transp =
                         IF r.prim.op = OP_EQ /\ r.prim.mask = 255 /\ ~r.prim.neg THEN r.prim.u ELSE @])
      [] q.type = TYPE_PORT ->
           LET q1 == [q EXCEPT !.data = IF @ = TYPE_INT THEN TYPE_PORT ELSE @,
                               !.transp = IF @ = UNKNOWN THEN IP_PROTO_TCP_OR_UDP ELSE @]
           IN IF q1.data # TYPE_PORT THEN Fail
              ELSE IF q1.transp \notin {IP_PROTO_TCP, IP_PROTO_UDP, IP_PROTO_TCP_OR_UDP} THEN Fail
              ELSE SetMask(q1, 65535)
      [] OTHER -> Fail

FixSrcdst(q) ==
    IF q.type \in {TYPE_HOST, TYPE_PORT} /\ q.srcdst = 0 THEN [q EXCEPT !.srcdst = SD_OR] ELSE q

Check(q, p) ==
    LET a == CheckInfer(q, p)
        b == IF a.ok THEN CheckType(a.prim) ELSE Fail
    IN IF b.ok THEN Ok(FixSrcdst(b.prim)) ELSE Fail

(***************************************************************************)
(* Primitive::add_exprs: the protocol test of _transp_proto (tcp or udp  *)
(* for IP_PROTO_TCP_OR_UDP, nothing for another value past 255), then    *)
(* the type's tests.  A host or port compares each side _srcdst names,   *)
(* combines them, and negates the combination; add_comparison_exprs's    *)
(* trees are exact (IPFilterCompare), so a comparison is its relation   *)
(* on _u & _mask (masks here are all ones below a power of two).        *)
(***************************************************************************)
Cmp(x, q) == IF q.op = OP_EQ THEN x % (q.mask + 1) = q.u % (q.mask + 1) ELSE x % (q.mask + 1) > q.u

Sides(q, s, d) ==
    CASE q.srcdst = SD_SRC -> Cmp(s, q)
      [] q.srcdst = SD_DST -> Cmp(d, q)
      [] q.srcdst = SD_AND -> Cmp(s, q) /\ Cmp(d, q)
      [] q.srcdst = SD_OR  -> Cmp(s, q) \/ Cmp(d, q)

ProtoTest(k, t) ==
    CASE t = UNKNOWN -> TRUE
      [] t = IP_PROTO_TCP_OR_UDP -> k.proto \in {IP_PROTO_TCP, IP_PROTO_UDP}
      [] t >= 256 -> TRUE
      [] OTHER -> k.proto = t

AddExprs(q) ==
    {k \in Pkts :
        /\ ProtoTest(k, q.transp)
        /\ CASE q.type = TYPE_HOST  -> Sides(q, k.src, k.dst) # q.neg
             [] q.type = TYPE_PROTO -> q.transp >= 256 \/ (Cmp(k.proto, q) # q.neg)
             [] q.type = TYPE_PORT  -> Sides(q, k.sport, k.dport) # q.neg}

(* negate_expr_subtree on a subtree's packet set. *)
Negate(m, neg) == IF neg THEN Pkts \ m ELSE m

(***************************************************************************)
(* parse_factor's hard case: qualifiers, an optional relational operator *)
(* (never the last word), data; prev_prim is forgotten if there were     *)
(* qualifiers; a primitive that passes check is added, negated as the    *)
(* factor is, and becomes prev_prim.  ms: the subtrees added (0 or 1).   *)
(* Each step's result is handed to the next as a parameter.              *)
(***************************************************************************)
PrimitiveDone(pos, q, prv, d, c) ==
    IF d.pos = pos THEN [pos |-> pos, ms |-> <<>>, prev |-> prv, err |-> TRUE]
    ELSE IF c.ok
    THEN [pos |-> d.pos, ms |-> <<Negate(AddExprs(c.prim), q.negated)>>, prev |-> c.prim,
          err |-> q.err \/ d.err]
    ELSE [pos |-> d.pos, ms |-> <<>>, prev |-> prv, err |-> TRUE]

PrimitiveData(pos, q, prv, d) == PrimitiveDone(pos, q, prv, d, Check(d.prim, prv))

PrimitiveQuals(ws, pos, prev, q) ==
    LET wd  == IF q.pos >= Len(ws) - 1 THEN "" ELSE W(ws, q.pos)
        rel == wd \in DOMAIN RelOps
    IN PrimitiveData(pos, q, IF q.pos # pos THEN Clear ELSE prev,
                     DataWord(ws, IF rel THEN q.pos + 1 ELSE q.pos,
                              IF rel THEN [q.prim EXCEPT !.op = RelOps[wd].op, !.neg = RelOps[wd].neg]
                              ELSE q.prim))

ParsePrimitive(ws, pos, prev, negated) ==
    PrimitiveQuals(ws, pos, prev, QualLoop(ws, pos, Clear, negated, FALSE))

(* finish_expr_subtree: and, or, and the ternary chain c1 ? e1 : ... : e. *)
AndOf(ks) == {k \in Pkts : \A i \in DOMAIN ks : k \in ks[i]}
OrOf(ks) == {k \in Pkts : \E i \in DOMAIN ks : k \in ks[i]}
RECURSIVE TernaryOf(_)
TernaryOf(ks) ==
    IF Len(ks) < 3 THEN AndOf(ks)
    ELSE (ks[1] \cap ks[2]) \cup ((Pkts \ ks[1]) \cap TernaryOf(Tail(Tail(ks))))

RECURSIVE ParseExpr(_, _, _), ExprLoop(_, _, _, _, _), ExprStep(_, _, _, _),
          ExprThen(_, _, _, _, _), OrLoop(_, _, _, _, _), OrStep(_, _, _, _),
          TermLoop(_, _, _, _, _, _), TermStep(_, _, _, _, _, _), ParseFactor(_, _, _, _)

(* "not" factor: it is an error if no factor follows. *)
NotFactor(pos, f) == [f EXCEPT !.err = @ \/ f.pos = pos + 1]

(* "(" expr ")" *)
Bracketed(ws, pos, negated, e) ==
    LET close == e.pos < Len(ws) /\ W(ws, e.pos) = ")"
    IN [pos |-> IF close THEN e.pos + 1 ELSE e.pos, ms |-> <<Negate(e.m, negated)>>,
        prev |-> e.prev, err |-> e.err \/ e.pos = pos + 1 \/ ~close]

(* parse_factor *)
ParseFactor(ws, pos, prev, negated) ==
    IF pos >= Len(ws) \/ W(ws, pos) \in {")", "||", "or", "?", ":"}
    THEN [pos |-> pos, ms |-> <<>>, prev |-> prev, err |-> FALSE]
    ELSE CASE W(ws, pos) = "true" ->
                [pos |-> pos + 1, ms |-> <<Negate(Pkts, negated)>>, prev |-> prev, err |-> FALSE]
           [] W(ws, pos) = "false" ->
                [pos |-> pos + 1, ms |-> <<Negate(Pkts, ~negated)>>, prev |-> prev, err |-> FALSE]
           [] W(ws, pos) \in {"not", "!"} -> NotFactor(pos, ParseFactor(ws, pos + 1, prev, ~negated))
           [] W(ws, pos) = "(" -> Bracketed(ws, pos, negated, ParseExpr(ws, pos + 1, prev))
           [] OTHER -> ParsePrimitive(ws, pos, prev, negated)

(* Variant: a term that ends after "and" is not reported missing. *)
TermStepAndNotPending(ws, pos, kids, blankOk, err, f) ==
    IF f.pos = pos
    THEN [pos |-> pos, m |-> AndOf(kids), prev |-> f.prev, err |-> err \/ f.err \/ ~blankOk]
    ELSE LET isAnd == f.pos < Len(ws) /\ W(ws, f.pos) \in {"and", "&&"}
         IN TermLoop(ws, IF isAnd THEN f.pos + 1 ELSE f.pos, f.prev, kids \o f.ms, TRUE, err \/ f.err)

(* One round of parse_term's loop, given the factor f parsed at pos.     *)
TermStep(ws, pos, kids, blankOk, err, f) ==
    IF f.pos = pos
    THEN [pos |-> pos, m |-> AndOf(kids), prev |-> f.prev, err |-> err \/ f.err \/ ~blankOk]
    ELSE LET isAnd == f.pos < Len(ws) /\ W(ws, f.pos) \in {"and", "&&"}
         IN TermLoop(ws, IF isAnd THEN f.pos + 1 ELSE f.pos, f.prev, kids \o f.ms, ~isAnd, err \/ f.err)

(* parse_term: factors, joined by "and", "&&" or nothing; a missing term *)
(* (nothing after an "and", or no factor at all) is an error.            *)
TermLoop(ws, pos, prev, kids, blankOk, err) ==
    TermStep(ws, pos, kids, blankOk, err, ParseFactor(ws, pos, prev, FALSE))

(* One round of parse_orexpr's loop, given the term t. *)
OrStep(ws, kids, err, t) ==
    IF t.pos < Len(ws) /\ W(ws, t.pos) \in {"or", "||"}
    THEN OrLoop(ws, t.pos + 1, t.prev, Append(kids, t.m), err \/ t.err)
    ELSE [pos |-> t.pos, m |-> OrOf(Append(kids, t.m)), prev |-> t.prev, err |-> err \/ t.err]

(* parse_orexpr: terms joined by "or" or "||". *)
OrLoop(ws, pos, prev, kids, err) == OrStep(ws, kids, err, TermLoop(ws, pos, prev, <<>>, FALSE, FALSE))

(* After "?": the then-branch e must be non-empty and followed by ':'. *)
ExprThen(ws, old, k1, err, e) ==
    IF e.pos > old /\ e.pos < Len(ws) /\ W(ws, e.pos) = ":"
    THEN ExprLoop(ws, e.pos + 1, e.prev, Append(k1, e.m), err \/ e.err)
    ELSE [pos |-> e.pos, m |-> TernaryOf(Append(k1, e.m)), prev |-> e.prev, err |-> TRUE]

(* One round of parse_expr's loop, given the orexpr o. *)
ExprStep(ws, kids, err, o) ==
    IF o.pos >= Len(ws) \/ W(ws, o.pos) # "?"
    THEN [pos |-> o.pos, m |-> TernaryOf(Append(kids, o.m)), prev |-> o.prev, err |-> err \/ o.err]
    ELSE ExprThen(ws, o.pos + 1, Append(kids, o.m), err \/ o.err, ParseExpr(ws, o.pos + 1, o.prev))

(* parse_expr: orexpr, then "? expr :" and another orexpr, any number of *)
(* times.                                                                 *)
ExprLoop(ws, pos, prev, kids, err) == ExprStep(ws, kids, err, OrLoop(ws, pos, prev, <<>>, FALSE))

ParseExpr(ws, pos, prev) == ExprLoop(ws, pos, prev, <<>>, FALSE)

(***************************************************************************)
(* configure, for one pattern "allow PAT": an empty pattern, "-", "any"  *)
(* or "all" matches everything; otherwise parse_expr from the word after *)
(* the action, and words left over are garbage.  ok: no error reported.  *)
(***************************************************************************)
Configured(p, e) ==
    IF p = <<>> \/ (Len(p) = 1 /\ p[1] \in {"-", "any", "all"})
    THEN [ok |-> TRUE, m |-> Pkts]
    ELSE [ok |-> ~e.err /\ e.pos >= Len(p) + 1, m |-> e.m]

Configure(p) == Configured(p, ParseExpr(<<"allow">> \o p, 1, Clear))

Init == pat = <<>> /\ res = [ok |-> FALSE, m |-> {}, done |-> FALSE]

(* The pattern grows a word at a time until the router configures it. *)
AddWord ==
    /\ ~res.done /\ Len(pat) < MaxWords
    /\ \E w \in Words : pat' = Append(pat, w)
    /\ UNCHANGED res

ConfigureResult(c) == [ok |-> c.ok, m |-> c.m, done |-> TRUE]

DoConfigure ==
    /\ ~res.done
    /\ res' = ConfigureResult(Configure(pat))
    /\ UNCHANGED pat

Next == AddWord \/ DoConfigure

Spec == Init /\ [][Next]_vars
-----------------------------------------------------------------------------
(***************************************************************************)
(* The documented grammar (the comment above parse_expr), as a chart over *)
(* the spans [i, j) of a pattern: the sets of meanings each span has as a *)
(* factor, term, orexpr or expr, with and, or, not and the ternary read  *)
(* as boolean operations.  An atom is true, false or a bare address,     *)
(* which with no qualifier before it is "src or dst host".               *)
(***************************************************************************)
AtomMeaning(w) ==
    CASE w = "true" -> {Pkts}
      [] w = "false" -> {{}}
      [] w \in DOMAIN AddrOf -> {{k \in Pkts : AddrOf[w] \in {k.src, k.dst}}}
      [] OTHER -> {}

RECURSIVE RefF(_, _, _), RefT(_, _, _), RefO(_, _, _), RefE(_, _, _)
RefF(p, i, j) ==
    (IF j = i + 1 THEN AtomMeaning(p[i]) ELSE {})
    \cup (IF j > i + 1 /\ p[i] \in {"not", "!"} THEN {Pkts \ m : m \in RefF(p, i + 1, j)} ELSE {})
    \cup (IF j > i + 2 /\ p[i] = "(" /\ p[j - 1] = ")" THEN RefE(p, i + 1, j - 1) ELSE {})
RefT(p, i, j) ==
    RefF(p, i, j)
    \cup UNION {{t \cap f : t \in RefT(p, i, k), f \in RefF(p, k, j)} : k \in i + 1..j - 1}
    \cup UNION {IF p[k] \in {"and", "&&"}
                THEN {t \cap f : t \in RefT(p, i, k), f \in RefF(p, k + 1, j)} ELSE {}
                : k \in i + 1..j - 2}
RefO(p, i, j) ==
    RefT(p, i, j)
    \cup UNION {IF p[k] \in {"or", "||"}
                THEN {o \cup t : o \in RefO(p, i, k), t \in RefT(p, k + 1, j)} ELSE {}
                : k \in i + 1..j - 2}
RefE(p, i, j) ==
    RefO(p, i, j)
    \cup UNION {IF p[k] = "?" /\ p[l] = ":"
                THEN {(c \cap a) \cup ((Pkts \ c) \cap b) :
                        c \in RefO(p, i, k), a \in RefE(p, k + 1, l), b \in RefE(p, l + 1, j)}
                ELSE {}
                : k \in i + 1..j - 4, l \in i + 3..j - 2}

RefConfigure(p) ==
    IF p = <<>> \/ (Len(p) = 1 /\ p[1] \in {"-", "any", "all"}) THEN {Pkts}
    ELSE RefE(p, 1, Len(p) + 1)

-----------------------------------------------------------------------------
TypeOK ==
    /\ pat \in Seq(Words) /\ Len(pat) <= MaxWords
    /\ res.ok \in BOOLEAN /\ res.m \subseteq Pkts /\ res.done \in BOOLEAN

(***************************************************************************)
(* configure accepts a pattern exactly when the documented grammar        *)
(* derives it, and the classifier tree parse_expr builds (and, or,       *)
(* negated subtrees, the right-nested ternary chain) matches the packets *)
(* the grammar's reading of the pattern does.                             *)
(***************************************************************************)
GrammarAgrees ==
    res.done =>
        /\ res.ok <=> RefConfigure(pat) # {}
        /\ res.ok => res.m \in RefConfigure(pat)

(* The qualifier words, and the words that are data on their own. *)
QualWords == {"src", "dst", "dest", "host", "port", "proto", "ip"} \cup DOMAIN ProtoDB
DataWords == DOMAIN IntOf \cup DOMAIN AddrOf

(* "Q d1 or d2" (or "and"): qualifiers, two data words and a connective. *)
(* check carries a protocol qualifier over to a bare port or protocol    *)
(* number, never to a bare address, so with addresses Q names none.     *)
IsAbbrev(p) ==
    /\ Len(p) >= 4
    /\ \A i \in 1..Len(p) - 3 : p[i] \in QualWords
    /\ {p[Len(p) - 2], p[Len(p)]} \subseteq DataWords
    /\ {p[Len(p) - 2], p[Len(p)]} \cap DOMAIN AddrOf # {}
          => \A i \in 1..Len(p) - 3 : p[i] \notin DOMAIN ProtoDB
    /\ p[Len(p) - 1] \in {"or", "and"}
Expanded(p) ==
    LET q == SubSeq(p, 1, Len(p) - 3)
    IN q \o <<p[Len(p) - 2], p[Len(p) - 1]>> \o q \o <<p[Len(p)]>>

(***************************************************************************)
(* The abbreviation of parse_factor and check: in "Q d1 or d2" the bare  *)
(* d2 takes the type, direction and protocol of the primitive before it, *)
(* so when both are accepted the pattern matches what "Q d1 or Q d2"     *)
(* matches.                                                               *)
(***************************************************************************)
ExpandsTo(c) == c.ok => res.m = c.m
AbbreviationExpands ==
    (res.done /\ res.ok /\ IsAbbrev(pat)) => ExpandsTo(Configure(Expanded(pat)))

(***************************************************************************)
(* "not" is a factor of its own (factor ::= ! factor): after a complete  *)
(* factor Q, "Q not R" is Q juxtaposed with "not R", so it matches what  *)
(* both do.                                                               *)
(***************************************************************************)
Juxtaposed(cq, cr) == (cq.ok /\ cr.ok) => res.m = cq.m \cap cr.m
NotStartsFactor ==
    \A i \in 2..Len(pat) - 1 :
        (res.done /\ res.ok /\ pat[i] = "not")
            => Juxtaposed(Configure(SubSeq(pat, 1, i - 1)), Configure(SubSeq(pat, i, Len(pat))))

(***************************************************************************)
(* An accepted "proto N" matches the packets whose IP protocol is N: an  *)
(* out-of-range N is an error, and no number matches every packet.        *)
(***************************************************************************)
ProtoMatchesNumber ==
    (res.done /\ res.ok /\ Len(pat) = 2 /\ pat[1] = "proto" /\ pat[2] \in DOMAIN IntOf)
        => res.m = {k \in Pkts : k.proto = IntOf[pat[2]]}

(* The relations "=", ">" and "<" on a port number. *)
PortRel(x, r, v) == CASE r = "=" -> x = v [] r = ">" -> x > v [] r = "<" -> x < v

(***************************************************************************)
(* "port R N" for R one of =, >, <: a port primitive with no direction   *)
(* is "src or dst", tested on each port and combined with or, so it      *)
(* matches TCP and UDP packets one of whose ports stands in relation R   *)
(* to N.                                                                  *)
(***************************************************************************)
PortRelationPerSide ==
    (res.done /\ res.ok /\ Len(pat) = 3 /\ pat[1] = "port" /\ pat[2] \in {"=", ">", "<"}
       /\ pat[3] \in DOMAIN IntOf)
        => res.m = {k \in Pkts : k.proto \in {IP_PROTO_TCP, IP_PROTO_UDP}
                                 /\ (PortRel(k.sport, pat[2], IntOf[pat[3]])
                                     \/ PortRel(k.dport, pat[2], IntOf[pat[3]]))}
====
