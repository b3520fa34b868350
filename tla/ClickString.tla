----------------------------- MODULE ClickString -----------------------------
(***************************************************************************)
(* Click's String (lib/string.cc): Strings share reference-counted memos. *)
(* A memo holds a character array of some capacity, of which the first    *)
(* dirty characters are in use; a String is a window [data, data+length)  *)
(* on its memo.  Copies and substrings share the memo; append writes in   *)
(* place when the window ends at dirty and dirty is advanced by           *)
(* compare-and-swap, and copies to a new memo otherwise; c_str writes the  *)
(* terminating '\0' in place the same way, or reuses a '\0' already        *)
(* there; mutable_data copies unless the memo's refcount is 1.             *)
(*                                                                         *)
(* Each String of Strs is used by one thread.  The operations of          *)
(* different threads interleave at the steps the code separates: reading   *)
(* dirty, the compare-and-swap, writing the characters, reading the        *)
(* refcount and the deref.  With Concurrent FALSE all Strings are used by  *)
(* one thread, and one operation ends before the next begins.             *)
(*                                                                         *)
(* The inline members of click/string.hh (constructors, operator=, ref,   *)
(* deref) are not in this repository; they are taken to be Click's: a     *)
(* copy or substring refs the memo, deref decrements it atomically and    *)
(* deletes the memo at zero.  The special null and out-of-memory memos    *)
(* have capacity 0, start with refcount 2, and are never deleted.          *)
(***************************************************************************)
EXTENDS Integers, Sequences, FiniteSets, SequencesExt

CONSTANTS
    Strs,        \* String objects, one per thread
    Chars,       \* characters a String may hold
    NUL,         \* '\0'
    Garbage,     \* the content of memory nobody has written
    LitChars,    \* one-character C strings appended or assigned
    EmptyLit,    \* whether the empty C string is appended or assigned too
    PosArgs,     \* pos arguments >= 0 of substring
    LenArgs,     \* len arguments >= 0 of substring
    NegArgs,     \* whether -1 is a pos and a len argument too
    MaxMemos,    \* memos that can be allocated at once
    CapUnit,     \* the 16 of "(len + 16) & ~15"
    BigCap,      \* the 1024 of append_garbage
    MaxLen,      \* Strings are not grown past this length
    AllocFails,  \* whether allocations may fail
    Concurrent,  \* whether the Strings are used by different threads
    Mutable      \* whether the threads call mutable_data

(* The C strings and the substring arguments the threads use.           *)
Lits == {<<c>> : c \in LitChars} \cup (IF EmptyLit THEN {<<>>} ELSE {})
Positions == PosArgs \cup (IF NegArgs THEN {-1} ELSE {})
Lens == LenArgs \cup (IF NegArgs THEN {-1} ELSE {})

(* No action or property names a String: they are interchangeable.       *)
StrSymmetry == Permutations(Strs)

VARIABLES
    memo,        \* memo id -> [live, refcount, dirty, capacity, buf]
    rep,         \* String -> its _r: [memo, off (data - real_data), len]
    pc,          \* String -> the step its thread is at
    loc,         \* String -> the locals of the operation in progress
    val,         \* ghost: String -> the characters it should hold
    cstr         \* ghost: String -> c_str returned and it is unchanged since

vars == <<memo, rep, pc, loc, val, cstr>>

(* Memo ids: the null and out-of-memory memos, then those allocated. *)
NullM == 0
OomM == -1
Special == {NullM, OomM}
Ids == 1..MaxMemos
MemoIds == Special \cup Ids
NoMemo == -2
BufIdx == 0..2 * MaxLen + CapUnit

Blank == [i \in BufIdx |-> Garbage]
Freed == [live |-> FALSE, refcount |-> 0, dirty |-> 0, capacity |-> 0, buf |-> Blank]
SpecialMemo == [live |-> TRUE, refcount |-> 2, dirty |-> 0, capacity |-> 0,
                buf |-> [Blank EXCEPT ![0] = NUL]]

Byte(r, i) == memo[r.memo].buf[r.off + i]
Visible(r) == [i \in 1..r.len |-> Byte(r, i - 1)]

(* ref() and deref() of click/string.hh on a memo map. *)
Ref(mm, m) == [mm EXCEPT ![m].refcount = @ + 1]
Deref(mm, m) ==
    IF mm[m].refcount = 1 THEN [mm EXCEPT ![m] = Freed]
    ELSE [mm EXCEPT ![m].refcount = @ - 1]

(* "(len + 16) & ~15" *)
RoundCap(n) == (n \div CapUnit + 1) * CapUnit

(* create_memo(0, dirty, capacity) holding chars: the least free id, or *)
(* NoMemo when none is free or the allocation fails.                     *)
FreeIds(mm) == {m \in Ids : ~mm[m].live}
NewId(mm) == IF FreeIds(mm) = {} THEN NoMemo ELSE Min(FreeIds(mm))
WithMemo(mm, m, chars, dirty, cap) ==
    [mm EXCEPT ![m] = [live |-> TRUE, refcount |-> 1, dirty |-> dirty,
                       capacity |-> cap,
                       buf |-> [i \in BufIdx |-> IF i < Len(chars) THEN chars[i + 1]
                                                  ELSE Garbage]]]
AllocOutcomes(mm) == IF AllocFails THEN {NewId(mm), NoMemo} ELSE {NewId(mm)}

Idle(s) == pc[s] = "idle"
(* With one thread, an operation starts only when no other is under way. *)
MayStart(s) == Idle(s) /\ (Concurrent \/ \A t \in Strs : Idle(t))

NoLocals == [src |-> <<>>, srcr |-> [memo |-> NullM, off |-> 0, len |-> 0],
             d |-> 0, space |-> 0, pres |-> NoMemo, i |-> 0, c |-> NUL]

(* An operation returns: its locals are gone. *)
Done(s) == pc' = [pc EXCEPT ![s] = "idle"] /\ loc' = [loc EXCEPT ![s] = NoLocals]
Goto(s, p) == pc' = [pc EXCEPT ![s] = p]

Init ==
    /\ memo = [m \in MemoIds |->
                 IF m = NullM THEN [SpecialMemo EXCEPT !.refcount = 2 + Cardinality(Strs)]
                 ELSE IF m = OomM THEN SpecialMemo ELSE Freed]
    /\ rep = [s \in Strs |-> [memo |-> NullM, off |-> 0, len |-> 0]]
    /\ pc = [s \in Strs |-> "idle"]
    /\ loc = [s \in Strs |-> NoLocals]
    /\ val = [s \in Strs |-> <<>>]
    /\ cstr = [s \in Strs |-> FALSE]

OomRep == [memo |-> OomM, off |-> 0, len |-> 0]
NullRep == [memo |-> NullM, off |-> 0, len |-> 0]

(***************************************************************************)
(* s = lit: assign(str, len, true).  The old memo is dereferenced first;  *)
(* an empty string takes the null memo, any other a new memo of capacity  *)
(* "(len + 16) & ~15"; a failed allocation leaves the out-of-memory       *)
(* string (assign_out_of_memory, which finds no memo to deref).            *)
(***************************************************************************)
AssignLit(s, lit) ==
    /\ MayStart(s)
    /\ LET m0 == Deref(memo, rep[s].memo)
       IN IF lit = <<>>
          THEN /\ memo' = Ref(m0, NullM)
               /\ rep' = [rep EXCEPT ![s] = NullRep]
               /\ val' = [val EXCEPT ![s] = <<>>]
          ELSE \E m \in AllocOutcomes(m0) :
                 IF m = NoMemo
                 THEN /\ memo' = Ref(m0, OomM)
                      /\ rep' = [rep EXCEPT ![s] = OomRep]
                      /\ val' = [val EXCEPT ![s] = <<>>]
                 ELSE /\ memo' = WithMemo(m0, m, lit, Len(lit), RoundCap(Len(lit)))
                      /\ rep' = [rep EXCEPT ![s] = [memo |-> m, off |-> 0, len |-> Len(lit)]]
                      /\ val' = [val EXCEPT ![s] = lit]
    /\ cstr' = [cstr EXCEPT ![s] = FALSE]
    /\ UNCHANGED <<pc, loc>>

(* substring's clamping of pos and len to [0, length]: <<pos, pos2>>. *)
SubRange(l, pos, len) ==
    LET p1 == IF pos < 0 THEN pos + l ELSE pos
        p2 == IF len < 0 THEN l + len
              ELSE IF p1 >= 0 /\ len >= l THEN l ELSE p1 + len
    IN <<IF p1 < 0 THEN 0 ELSE p1, IF p2 > l THEN l ELSE p2>>

(***************************************************************************)
(* s = t.substring(pos, len): the empty String, or a window on t's memo   *)
(* (refed by the constructor before operator= derefs s's old memo).  t is *)
(* s itself or a String whose thread is not using it.                      *)
(***************************************************************************)
Substring(s, t, pos, len) ==
    /\ MayStart(s)
    /\ t = s \/ Idle(t)
    /\ LET r == rep[t]
           pq == SubRange(r.len, pos, len)
           new == IF pq[1] >= pq[2] THEN NullRep
                  ELSE [memo |-> r.memo, off |-> r.off + pq[1], len |-> pq[2] - pq[1]]
       IN /\ memo' = Deref(Ref(memo, new.memo), rep[s].memo)
          /\ rep' = [rep EXCEPT ![s] = new]
          /\ val' = [val EXCEPT ![s] = IF pq[1] >= pq[2] THEN <<>>
                                       ELSE SubSeq(val[t], pq[1] + 1, pq[2])]
    /\ cstr' = [cstr EXCEPT ![s] = FALSE]
    /\ UNCHANGED <<pc, loc>>

-----------------------------------------------------------------------------
(***************************************************************************)
(* s.append(lit, len), lit outside every memo: append_garbage(len), then  *)
(* memcpy.  (A len of 0 does nothing.)                                     *)
(***************************************************************************)
AppendLit(s, lit) ==
    /\ MayStart(s)
    /\ lit # <<>>
    /\ rep[s].len + Len(lit) <= MaxLen
    /\ loc' = [loc EXCEPT ![s].src = lit, ![s].pres = NoMemo]
    /\ Goto(s, "ag_read")
    /\ UNCHANGED <<memo, rep, val, cstr>>

(***************************************************************************)
(* s += s: append(s.data(), s.length()).  The out-of-memory string stays   *)
(* out of memory; otherwise the source lies in s's own memo, which        *)
(* preserve_s keeps referenced until the memcpy is done.                   *)
(***************************************************************************)
AppendSelf(s) ==
    /\ MayStart(s)
    /\ rep[s].len > 0 \/ rep[s].memo = OomM
    /\ 2 * rep[s].len <= MaxLen
    /\ IF rep[s].memo = OomM
       THEN /\ memo' = Ref(Deref(memo, OomM), OomM)
            /\ UNCHANGED <<pc, loc, rep, val, cstr>>
       ELSE /\ memo' = Ref(memo, rep[s].memo)
            /\ loc' = [loc EXCEPT ![s].srcr = rep[s], ![s].pres = rep[s].memo]
            /\ Goto(s, "ag_read")
            /\ UNCHANGED <<rep, val, cstr>>

SrcLen(s) == IF loc[s].pres = NoMemo THEN Len(loc[s].src) ELSE loc[s].srcr.len

(* An append_garbage that does not check that the space follows s. *)
AgReadNoEndCheck(s) ==
    /\ pc[s] = "ag_read"
    /\ LET r == rep[s]
           d == memo[r.memo].dirty
       IN IF r.memo = OomM
          THEN Goto(s, "ag_end") /\ UNCHANGED loc
          ELSE /\ loc' = [loc EXCEPT ![s].d = d]
               /\ Goto(s, IF memo[r.memo].capacity > d + SrcLen(s) THEN "ag_cas" ELSE "ag_copy")
    /\ UNCHANGED <<memo, rep, val, cstr>>

(* append_garbage: "out of memory" stays so; read dirty and decide        *)
(* whether the unused space right after s can take the characters.        *)
AgRead(s) ==
    /\ pc[s] = "ag_read"
    /\ LET r == rep[s]
           d == memo[r.memo].dirty
       IN IF r.memo = OomM
          THEN Goto(s, "ag_end") /\ UNCHANGED loc
          ELSE /\ loc' = [loc EXCEPT ![s].d = d]
               /\ Goto(s, IF memo[r.memo].capacity > d + SrcLen(s) /\ r.off + r.len = d
                          THEN "ag_cas" ELSE "ag_copy")
    /\ UNCHANGED <<memo, rep, val, cstr>>

(* A claim that stores dirty + len without comparing. *)
AgCasNoCompare(s) ==
    /\ pc[s] = "ag_cas"
    /\ LET m == rep[s].memo
       IN /\ memo' = [memo EXCEPT ![m].dirty = loc[s].d + SrcLen(s)]
          /\ rep' = [rep EXCEPT ![s].len = @ + SrcLen(s)]
          /\ loc' = [loc EXCEPT ![s].space = loc[s].d]
          /\ Goto(s, "fill")
    /\ UNCHANGED <<val, cstr>>

(* compare_and_swap(dirty, d, d + len): claim the space, or copy. *)
AgCas(s) ==
    /\ pc[s] = "ag_cas"
    /\ LET m == rep[s].memo
       IN IF memo[m].dirty = loc[s].d
          THEN /\ memo' = [memo EXCEPT ![m].dirty = loc[s].d + SrcLen(s)]
               /\ rep' = [rep EXCEPT ![s].len = @ + SrcLen(s)]
               /\ loc' = [loc EXCEPT ![s].space = loc[s].d]
               /\ Goto(s, "fill")
          ELSE Goto(s, "ag_copy") /\ UNCHANGED <<memo, rep, loc>>
    /\ UNCHANGED <<val, cstr>>

(* append_garbage's new capacity: a multiple of 16 (or 1024), doubled    *)
(* until it holds length + len.                                            *)
RECURSIVE Grow(_, _)
Grow(c, need) == IF c < need THEN Grow(2 * c, need) ELSE c
NewCapacity(l, n) == Grow(IF l + n < BigCap THEN RoundCap(l) ELSE BigCap, l + n)

(* A copy that does not deref the old memo. *)
AgCopyNoDeref(s) ==
    /\ pc[s] = "ag_copy"
    /\ LET r == rep[s]
           n == SrcLen(s)
       IN \E m \in AllocOutcomes(memo) :
            IF m = NoMemo
            THEN /\ memo' = Ref(Deref(memo, r.memo), OomM)
                 /\ rep' = [rep EXCEPT ![s] = OomRep]
                 /\ Goto(s, "ag_end")
                 /\ UNCHANGED loc
            ELSE /\ memo' = WithMemo(memo, m, Visible(r), r.len + n, NewCapacity(r.len, n))
                 /\ rep' = [rep EXCEPT ![s] = [memo |-> m, off |-> 0, len |-> r.len + n]]
                 /\ loc' = [loc EXCEPT ![s].space = r.len]
                 /\ Goto(s, "fill")
    /\ UNCHANGED <<val, cstr>>

(***************************************************************************)
(* append_garbage's copy: a new memo with s's characters and dirty        *)
(* covering the new ones, then deref of the old memo; a failed allocation *)
(* makes s the out-of-memory string and append returns without copying.  *)
(***************************************************************************)
AgCopy(s) ==
    /\ pc[s] = "ag_copy"
    /\ LET r == rep[s]
           n == SrcLen(s)
       IN \E m \in AllocOutcomes(memo) :
            IF m = NoMemo
            THEN /\ memo' = Ref(Deref(memo, r.memo), OomM)
                 /\ rep' = [rep EXCEPT ![s] = OomRep]
                 /\ Goto(s, "ag_end")
                 /\ UNCHANGED loc
            ELSE /\ memo' = Deref(WithMemo(memo, m, Visible(r), r.len + n,
                                           NewCapacity(r.len, n)), r.memo)
                 /\ rep' = [rep EXCEPT ![s] = [memo |-> m, off |-> 0, len |-> r.len + n]]
                 /\ loc' = [loc EXCEPT ![s].space = r.len]
                 /\ Goto(s, "fill")
    /\ UNCHANGED <<val, cstr>>

(* The characters being appended: the C string, or s's old window as     *)
(* read now through preserve_s.                                            *)
SrcChars(s) == IF loc[s].pres = NoMemo THEN loc[s].src ELSE Visible(loc[s].srcr)
AbsSrc(s) == IF loc[s].pres = NoMemo THEN loc[s].src ELSE val[s]

(* append's memcpy into the space append_garbage returned, then the end  *)
(* of preserve_s.                                                          *)
Fill(s) ==
    /\ pc[s] = "fill"
    /\ LET m == rep[s].memo
           sp == loc[s].space
           chars == SrcChars(s)
           m1 == [memo EXCEPT ![m].buf =
                    [i \in BufIdx |-> IF sp <= i /\ i < sp + Len(chars)
                                      THEN chars[i - sp + 1] ELSE memo[m].buf[i]]]
       IN memo' = IF loc[s].pres = NoMemo THEN m1 ELSE Deref(m1, loc[s].pres)
    /\ val' = [val EXCEPT ![s] = @ \o AbsSrc(s)]
    /\ cstr' = [cstr EXCEPT ![s] = FALSE]
    /\ Done(s)
    /\ UNCHANGED rep

(* append_garbage returned 0: s is out of memory; preserve_s ends. *)
AgEnd(s) ==
    /\ pc[s] = "ag_end"
    /\ memo' = IF loc[s].pres = NoMemo THEN memo ELSE Deref(memo, loc[s].pres)
    /\ val' = [val EXCEPT ![s] = <<>>]
    /\ cstr' = [cstr EXCEPT ![s] = FALSE]
    /\ Done(s)
    /\ UNCHANGED rep

-----------------------------------------------------------------------------
CStrReturns(s) == cstr' = [cstr EXCEPT ![s] = TRUE]

(* A c_str that returns whenever the next character has been written. *)
CStrReadTrustsByte(s) ==
    /\ MayStart(s)
    /\ LET r == rep[s]
           mm == memo[r.memo]
           d == mm.dirty
           b == Byte(r, r.len)
       IN CASE mm.capacity = 0 /\ b = NUL ->
                 CStrReturns(s) /\ UNCHANGED <<memo, pc, loc>>
            [] r.off + r.len = d ->
                 /\ loc' = [loc EXCEPT ![s].d = d]
                 /\ Goto(s, IF mm.capacity > d THEN "cs_cas" ELSE "cs_copy")
                 /\ UNCHANGED <<memo, cstr>>
            [] OTHER -> CStrReturns(s) /\ UNCHANGED <<memo, pc, loc>>
    /\ UNCHANGED <<rep, val>>

(***************************************************************************)
(* c_str, first step: a special string whose next character is '\0' is    *)
(* returned as is; a window ending at dirty tries to claim the next       *)
(* character; a window ending below dirty is returned if the next         *)
(* character, written by someone else, is '\0', and copied otherwise.  A  *)
(* character reserved but not yet written is uninitialised memory and may *)
(* read as anything, '\0' included (the read then fixes its value).       *)
(***************************************************************************)
CStrRead(s) ==
    /\ MayStart(s)
    /\ LET r == rep[s]
           mm == memo[r.memo]
           d == mm.dirty
           b == Byte(r, r.len)
       IN CASE mm.capacity = 0 /\ b = NUL ->
                 CStrReturns(s) /\ UNCHANGED <<memo, pc, loc>>
            [] r.off + r.len = d ->
                 /\ loc' = [loc EXCEPT ![s].d = d]
                 /\ Goto(s, IF mm.capacity > d THEN "cs_cas" ELSE "cs_copy")
                 /\ UNCHANGED <<memo, cstr>>
            [] OTHER ->
                 \E v \in IF b = Garbage THEN {NUL, Garbage} ELSE {b} :
                    IF v = NUL
                    THEN /\ memo' = [memo EXCEPT ![r.memo].buf[r.off + r.len] = NUL]
                         /\ CStrReturns(s)
                         /\ UNCHANGED <<pc, loc>>
                    ELSE Goto(s, "cs_copy") /\ UNCHANGED <<memo, loc, cstr>>
    /\ UNCHANGED <<rep, val>>

(* compare_and_swap(dirty, d, d + 1), or copy. *)
CStrCas(s) ==
    /\ pc[s] = "cs_cas"
    /\ LET m == rep[s].memo
       IN IF memo[m].dirty = loc[s].d
          THEN memo' = [memo EXCEPT ![m].dirty = loc[s].d + 1] /\ Goto(s, "cs_nul")
          ELSE Goto(s, "cs_copy") /\ UNCHANGED memo
    /\ UNCHANGED <<rep, loc, val, cstr>>

(* real_data[_r.length] = '\0' on the claimed character. *)
CStrNul(s) ==
    /\ pc[s] = "cs_nul"
    /\ memo' = [memo EXCEPT ![rep[s].memo].buf[rep[s].off + rep[s].len] = NUL]
    /\ CStrReturns(s)
    /\ Done(s)
    /\ UNCHANGED <<rep, val>>

(***************************************************************************)
(* c_str's copy: String s(data, length) (the null memo when empty, the    *)
(* out-of-memory one when allocation fails), deref, assign(s); then the   *)
(* '\0' after the characters and ++dirty (not tracked for the special    *)
(* memos, whose dirty nothing reads).                                      *)
(***************************************************************************)
CStrCopy(s) ==
    /\ pc[s] = "cs_copy"
    /\ LET r == rep[s]
       IN \E m \in IF r.len = 0 THEN {NullM} ELSE AllocOutcomes(memo) :
            LET m1 == CASE m = NullM -> Ref(memo, NullM)
                        [] m = NoMemo -> Ref(memo, OomM)
                        [] OTHER -> WithMemo(memo, m, Visible(r), r.len, RoundCap(r.len))
                new == CASE m = NullM -> NullRep
                         [] m = NoMemo -> OomRep
                         [] OTHER -> [memo |-> m, off |-> 0, len |-> r.len]
                m2 == Deref(m1, r.memo)
            IN /\ memo' = [m2 EXCEPT ![new.memo].buf[new.len] = NUL,
                                     ![new.memo].dirty = IF new.memo \in Special THEN @ ELSE @ + 1]
               /\ rep' = [rep EXCEPT ![s] = new]
               /\ val' = [val EXCEPT ![s] = IF m = NoMemo THEN <<>> ELSE @]
    /\ CStrReturns(s)
    /\ Done(s)

-----------------------------------------------------------------------------
(***************************************************************************)
(* s.mutable_data()[i] = c.  A memo with a capacity and refcount 1 is      *)
(* written in place; otherwise mutable_data derefs it and then copies the *)
(* characters with assign(data, length, false), relying on deref leaving   *)
(* them in place.                                                          *)
(***************************************************************************)
MdRead(s) ==
    /\ Mutable
    /\ MayStart(s)
    /\ rep[s].len > 0
    /\ \E i \in 0..rep[s].len - 1, c \in Chars :
         LET r == rep[s]
         IN IF memo[r.memo].capacity # 0 /\ memo[r.memo].refcount = 1
            THEN /\ memo' = [memo EXCEPT ![r.memo].buf[r.off + i] = c]
                 /\ val' = [val EXCEPT ![s][i + 1] = c]
                 /\ cstr' = [cstr EXCEPT ![s] = FALSE]
                 /\ UNCHANGED <<pc, loc>>
            ELSE /\ loc' = [loc EXCEPT ![s].i = i, ![s].c = c]
                 /\ Goto(s, "md_deref")
                 /\ UNCHANGED <<memo, val, cstr>>
    /\ UNCHANGED rep

MdDeref(s) ==
    /\ pc[s] = "md_deref"
    /\ memo' = Deref(memo, rep[s].memo)
    /\ Goto(s, "md_copy")
    /\ UNCHANGED <<rep, loc, val, cstr>>

(* assign(data, length, false), then the caller's write; out of memory    *)
(* leaves nothing to write.                                                *)
MdCopy(s) ==
    /\ pc[s] = "md_copy"
    /\ LET r == rep[s]
       IN \E m \in AllocOutcomes(memo) :
            IF m = NoMemo
            THEN /\ memo' = Ref(memo, OomM)
                 /\ rep' = [rep EXCEPT ![s] = OomRep]
                 /\ val' = [val EXCEPT ![s] = <<>>]
            ELSE /\ memo' = [WithMemo(memo, m, Visible(r), r.len, RoundCap(r.len))
                               EXCEPT ![m].buf[loc[s].i] = loc[s].c]
                 /\ rep' = [rep EXCEPT ![s] = [memo |-> m, off |-> 0, len |-> r.len]]
                 /\ val' = [val EXCEPT ![s][loc[s].i + 1] = loc[s].c]
    /\ cstr' = [cstr EXCEPT ![s] = FALSE]
    /\ Done(s)

-----------------------------------------------------------------------------
Next ==
    \E s \in Strs :
        \/ \E lit \in Lits : AssignLit(s, lit) \/ AppendLit(s, lit)
        \/ \E t \in Strs, pos \in Positions, len \in Lens : Substring(s, t, pos, len)
        \/ AppendSelf(s)
        \/ AgRead(s) \/ AgCas(s) \/ AgCopy(s) \/ Fill(s) \/ AgEnd(s)
        \/ CStrRead(s) \/ CStrCas(s) \/ CStrNul(s) \/ CStrCopy(s)
        \/ MdRead(s) \/ MdDeref(s) \/ MdCopy(s)

Spec == Init /\ [][Next]_vars

-----------------------------------------------------------------------------
Rep == [memo : MemoIds, off : BufIdx, len : 0..MaxLen]

TypeOK ==
    /\ rep \in [Strs -> Rep]
    /\ \A m \in MemoIds : memo[m].refcount \in Nat /\ memo[m].dirty \in Nat
    /\ val \in [Strs -> Seq(Chars)]
    /\ cstr \in [Strs -> BOOLEAN]

(* s holds a reference on its memo, unless mutable_data has dropped it. *)
Holds(s, m) == rep[s].memo = m /\ pc[s] # "md_copy"
Holders(m) ==
    Cardinality({s \in Strs : Holds(s, m)})
      + Cardinality({s \in Strs : ~Idle(s) /\ loc[s].pres = m})

(* Through every copy, substring, append (in place, copied, or of s to    *)
(* itself), c_str and mutable_data, each memo's refcount is the number of *)
(* Strings (and preserve_s copies) that hold it, plus 2 for the special   *)
(* memos, and no String holds a memo that deref has deleted.              *)
RefcountsExact ==
    /\ \A m \in MemoIds :
         memo[m].live => memo[m].refcount = Holders(m) + (IF m \in Special THEN 2 ELSE 0)
    /\ \A s \in Strs : Holds(s, rep[s].memo) => memo[rep[s].memo].live

(* Value semantics over shared memos: the characters in the window of a  *)
(* String not in the middle of an operation are the ones its own          *)
(* assignments, substrings, appends and writes put there, whatever the    *)
(* Strings sharing its memo did in place.                                  *)
ValuesPreserved == \A s \in Strs : Idle(s) => Visible(rep[s]) = val[s]

(* c_str: once it has returned, the character after the String is '\0'   *)
(* for as long as the String is not changed (and its thread is between    *)
(* operations), whatever Strings sharing its memo do.                      *)
CStrTerminated ==
    \A s \in Strs : cstr[s] /\ Idle(s) => Byte(rep[s], rep[s].len) = NUL

(* mutable_data's copy after deref reads characters from a memo that is   *)
(* still allocated (the code's comment: deref "doesn't free _real_data"   *)
(* when the refcount was above 1).                                        *)
CopyReadsLiveMemo == \A s \in Strs : pc[s] = "md_copy" => memo[rep[s].memo].live
====
