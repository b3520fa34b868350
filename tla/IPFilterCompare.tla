--------------------------- MODULE IPFilterCompare ---------------------------
(***************************************************************************)
(* The comparison decomposer of IPFilter (elements/ip/ipfilter.cc):       *)
(* Primitive::set_mask normalises a relational primitive on a header      *)
(* field, and Primitive::add_comparison_exprs turns "field & MASK > U"    *)
(* into a tree of equality tests, the only tests the classifier executes. *)
(*                                                                         *)
(* The word is W bits wide (32 in the code); every 32-bit constant of the *)
(* code is its W-bit analogue (0xFFFFFFFF is Full, 33 is W + 1).  The      *)
(* module checks one field primitive "[bitoff:len] & provided OP data" as *)
(* Primitive::check compiles it, against the arithmetic it stands for.    *)
(***************************************************************************)
EXTENDS Integers, Sequences, Bitwise

(***************************************************************************)
(* The expression tree IPFilter builds while it parses a configuration,   *)
(* through the Classifier tree-building interface (start_expr_subtree,    *)
(* add_expr, finish_expr_subtree, negate_expr_subtree).  That interface   *)
(* lives in classifier.cc, outside src/, so the node shapes and their     *)
(* meaning are taken from spec.md sections 3 and 4.4-4.6.                 *)
(*                                                                         *)
(* A node is a leaf test "(word at off) & mask = val", a combination       *)
(* ("and", "or", "ternary") of child nodes, or a negated node.  Words are *)
(* natural numbers of W bits; the builder state is the sequence of nodes  *)
(* at the current level of the tree.                                      *)
(***************************************************************************)

(* add_expr(tree, off, val, mask): one equality test on a packet word.    *)
Leaf(off, val, mask) == [t |-> "leaf", off |-> off, val |-> val, mask |-> mask]

(* finish_expr_subtree(tree, combiner): the nodes of a level combined.    *)
Combine(c, kids) == [t |-> c, kids |-> kids]

(* negate_expr_subtree(tree): the last node of the level is negated.      *)
NegateLast(lvl) ==
    IF lvl = <<>> THEN lvl
    ELSE [lvl EXCEPT ![Len(lvl)] = [t |-> "not", kid |-> @]]

(***************************************************************************)
(* Meaning of a node on a packet, given as a function from word offsets   *)
(* to words.  An "and" of no nodes is true, an "or" of none is false; a    *)
(* ternary level <<c1, e1, c2, e2, ..., e>> is "c1 ? e1 : (c2 ? e2 : e)", *)
(* the right-associative chain parse_expr builds.                          *)
(***************************************************************************)
RECURSIVE Eval(_, _), EvalAll(_, _, _), EvalAny(_, _, _), EvalTernary(_, _, _)

Eval(e, pkt) ==
    CASE e.t = "leaf"    -> (pkt[e.off] & e.mask) = e.val
      [] e.t = "not"     -> ~Eval(e.kid, pkt)
      [] e.t = "and"     -> EvalAll(e.kids, 1, pkt)
      [] e.t = "or"      -> EvalAny(e.kids, 1, pkt)
      [] e.t = "ternary" -> EvalTernary(e.kids, 1, pkt)

EvalAll(ks, i, pkt) == i > Len(ks) \/ (Eval(ks[i], pkt) /\ EvalAll(ks, i + 1, pkt))

EvalAny(ks, i, pkt) == i <= Len(ks) /\ (Eval(ks[i], pkt) \/ EvalAny(ks, i + 1, pkt))

EvalTernary(ks, i, pkt) ==
    IF i = Len(ks) THEN Eval(ks[i], pkt)
    ELSE IF Eval(ks[i], pkt) THEN Eval(ks[i + 1], pkt)
    ELSE EvalTernary(ks, i + 2, pkt)

(* The offsets a node reads. *)
RECURSIVE Offsets(_)
Offsets(e) ==
    CASE e.t = "leaf" -> {e.off}
      [] e.t = "not"  -> Offsets(e.kid)
      [] OTHER        -> UNION {Offsets(e.kids[i]) : i \in DOMAIN e.kids}

-----------------------------------------------------------------------------

CONSTANTS
    W,          \* width in bits of a classifier word
    WideShift   \* what "0xFFFFFFFFU >> n" yields for n = W in this build

ASSUME W \in 2..8
ASSUME WideShift \subseteq {"zero", "unchanged"}

OP_EQ == 0
OP_GT == 1
OP_LT == 2

Full == 2^W - 1

(* ~x, x << n and x >> n on a W-bit unsigned word. *)
Compl(x) == Full - x
Shl(x, n) == (x * 2^n) % 2^W
AllOnesShr(n, ws) ==
    IF n < W THEN Full \div 2^n
    ELSE IF ws = "zero" THEN 0 ELSE Full    \* shift by the word width

(* ffs_msb (click/integers.hh): 0 for 0, else 1 + leading zero count.    *)
FfsMsb(x) ==
    IF x = 0 THEN 0
    ELSE W - (CHOOSE b \in 0..W-1 : x \div 2^b = 1)

(* The natural mask of a field of len bits, as Primitive::check builds it. *)
LenMask(len) == IF len = W THEN Full ELSE 2^len - 1

(***************************************************************************)
(* Primitive::set_mask(full_mask, shift, provided_mask).  Result: ok, and *)
(* the primitive with op, negation, value u and mask rewritten.  A        *)
(* relation that is always true or false becomes "& 0 = 0", negated as   *)
(* needed; "< X" becomes "not > X-1"; a value with bits outside a         *)
(* provided mask is lowered to the largest value inside it.               *)
(***************************************************************************)
SetMask(p, fullMask, shift, provided, ws) ==
    LET data     == p.u
        thisMask == IF provided # 0 THEN provided ELSE fullMask
        low      == 2^shift - 1
    IN
    IF (thisMask & fullMask) # thisMask THEN [ok |-> FALSE, p |-> p]
    ELSE IF p.op \in {OP_GT, OP_LT} THEN
        IF \/ p.op = OP_LT /\ (data = 0 \/ data > thisMask)
           \/ p.op = OP_GT /\ data >= thisMask
        THEN LET willBe == IF p.op = OP_LT /\ data > thisMask THEN ~p.neg ELSE p.neg
             IN [ok |-> TRUE,
                 p  |-> [p EXCEPT !.u = 0, !.mask = 0, !.neg = ~willBe, !.op = OP_EQ]]
        ELSE
        LET u0  == IF p.op = OP_LT THEN data - 1 ELSE data
            neg == IF p.op = OP_LT THEN ~p.neg ELSE p.neg
            u1  == Shl(u0, shift) | low
            m1  == Shl(thisMask, shift) | low
            fmu == Shl(fullMask, shift) | low
            missing == (u1 & m1) ^^ (u1 & fmu)
            u2  == IF (u1 & m1) # u1
                   THEN (u1 | AllOnesShr(FfsMsb(missing), ws)) & m1
                   ELSE u1
        IN [ok |-> TRUE, p |-> [p EXCEPT !.op = OP_GT, !.neg = neg, !.u = u2, !.mask = m1]]
    ELSE IF data > fullMask THEN [ok |-> FALSE, p |-> p]
    ELSE [ok |-> TRUE, p |-> [p EXCEPT !.u = Shl(data, shift), !.mask = Shl(thisMask, shift)]]

(***************************************************************************)
(* The greater-than loop of add_comparison_exprs: each round tests the    *)
(* top bits of MASK that agree with U (or U+1), negated when the top bit  *)
(* of U is 0, and opens a subtree for the lower bits; the subtrees are    *)
(* closed innermost first, AND when the round's top bit was 1, else OR.   *)
(* The result is the zero or one node the loop adds to the level.         *)
(***************************************************************************)
RECURSIVE GtChain(_, _, _, _)
GtChain(u, mask, off, shift) ==
    IF u >= mask THEN <<>>
    ELSE LET highBit == u > mask \div 2
             fdb     == (W + 1) - FfsMsb(IF highBit THEN Compl(u + 1) & mask ELSE u)
             upper   == IF fdb = W + 1 THEN mask ELSE mask & Compl(2^fdb - 1)
             upperU  == IF highBit THEN upper ELSE 0
             leaf    == Leaf(off, Shl(upperU, shift), Shl(upper, shift))
             test    == IF highBit THEN <<leaf>> ELSE NegateLast(<<leaf>>)
             mask2   == mask & Compl(upper)
         IN << Combine(IF highBit THEN "and" ELSE "or",
                       test \o GtChain(u & mask2, mask2, off, shift)) >>

(* Variant: the closing negate_expr_subtree of a negated primitive left out. *)
AddComparisonExprsNoNegate(lvl, p, off, shift, opNegate) ==
    IF p.op = OP_EQ
    THEN Append(lvl, Leaf(off, Shl(p.u & p.mask, shift), Shl(p.mask, shift)))
    ELSE lvl \o GtChain(p.u & p.mask, p.mask, off, shift)

(* Primitive::add_comparison_exprs(c, tree, offset, shift, swapped=false, *)
(* op_negate): the nodes it adds to level lvl.                            *)
AddComparisonExprs(lvl, p, off, shift, opNegate) ==
    LET u    == p.u & p.mask
        lvl2 == IF p.op = OP_EQ
                THEN Append(lvl, Leaf(off, Shl(u, shift), Shl(p.mask, shift)))
                ELSE lvl \o GtChain(u, p.mask, off, shift)
    IN IF p.neg /\ opNegate THEN NegateLast(lvl2) ELSE lvl2

-----------------------------------------------------------------------------
(***************************************************************************)
(* One configured primitive on a generic header field "ip[...]" that fits *)
(* in one word: bit offset within the word, length, operator, negation,   *)
(* data and the optional "& MASK" of parse_factor (0 when absent).        *)
(***************************************************************************)
Off == 0    \* the single word the field lives in

Fields == {f \in [bitoff : 0..W-1, len : 1..W] : f.bitoff + f.len <= W}

Inputs == UNION {
    [field : {f}, op : {OP_EQ, OP_GT, OP_LT}, neg : BOOLEAN,
     data : 0..2^f.len, provided : 0..(IF f.len < W THEN 2^f.len ELSE Full)]
    : f \in Fields}

VARIABLES prim, result
vars == <<prim, result>>

TypeOK ==
    /\ prim \in Inputs
    /\ result.st \in {"none", "error", "ok"}
    /\ result.st = "ok" => result.tree.t = "and"

Init ==
    /\ prim \in Inputs
    /\ result = [st |-> "none"]

(***************************************************************************)
(* parse_factor hands the primitive to Primitive::check (generic field    *)
(* branch: natural mask of the field, then set_mask with shift 0) and, if  *)
(* that succeeds, to Primitive::add_exprs, whose field branch computes the *)
(* shift "W - (bit_offset + length)" and calls add_comparison_exprs inside *)
(* its own AND subtree.                                                    *)
(***************************************************************************)
CompileField ==
    /\ result.st = "none"
    /\ \E ws \in WideShift :
        LET f  == prim.field
            r  == SetMask([op |-> prim.op, neg |-> prim.neg, u |-> prim.data, mask |-> 0],
                          LenMask(f.len), 0, prim.provided, ws)
        IN result' = IF ~r.ok THEN [st |-> "error"]
                     ELSE [st |-> "ok",
                           tree |-> Combine("and", AddComparisonExprs(<<>>, r.p, Off,
                                                        W - (f.bitoff + f.len), TRUE))]
    /\ UNCHANGED prim

Next == CompileField

Spec == Init /\ [][Next]_vars

-----------------------------------------------------------------------------
(* What the primitive means: the field's bits under the mask, compared.   *)
Meaning(in, x) ==
    LET f   == in.field
        fv  == (x \div 2^(W - (f.bitoff + f.len))) % 2^f.len
        m   == IF in.provided # 0 THEN in.provided ELSE LenMask(f.len)
        v   == fv & m
        rel == CASE in.op = OP_EQ -> v = (in.data & m)
                 [] in.op = OP_GT -> v > in.data
                 [] in.op = OP_LT -> v < in.data
    IN IF in.neg THEN ~rel ELSE rel

(***************************************************************************)
(* Exactness (spec section 8): the equality tests that check and           *)
(* add_comparison_exprs emit for "field & MASK OP data" accept exactly the *)
(* words whose masked field satisfies the relation, for every field       *)
(* position, mask, operator, negation and threshold, out-of-range ones    *)
(* included.                                                               *)
(***************************************************************************)
DecompositionExact ==
    result.st = "ok" =>
        \A x \in 0..Full : Eval(result.tree, [o \in {Off} |-> x]) = Meaning(prim, x)
=============================================================================
