----------------------------- MODULE ClickHeap -----------------------------
(***************************************************************************)
(* The binary-heap functions of include/click/algorithm.hh (push_heap,     *)
(* change_heap, remove_heap, pop_heap) with their place callback, used by *)
(* a client that keeps every element's heap position up to date through  *)
(* place and hands that position back to change_heap and remove_heap.    *)
(* Nothing in this repository calls them, so the client is the one the    *)
(* functions' comments describe: push_back then push_heap; change a key   *)
(* then change_heap; remove_heap or pop_heap then pop_back.               *)
(*                                                                         *)
(* Each call runs to completion on the caller's thread, so one client     *)
(* operation is one action; the loops are RECURSIVE operators over a heap  *)
(* state [a : the array, pos : what place last recorded per element].    *)
(* Indices are the code's, from 0: E(st, i) is begin[i].                  *)
(* comp is less<> on the elements' keys.                                   *)
(***************************************************************************)
EXTENDS Integers, Sequences, SequencesExt

CONSTANTS Elems, Keys, NoElem

VARIABLES heap, key, op

vars == <<heap, key, op>>

E(st, i) == st.a[i + 1]

Less(k, x, y) == k[x] < k[y]

(* click_swap(begin[i], begin[j]) *)
Swap(st, i, j) ==
    [st EXCEPT !.a = [@ EXCEPT ![i + 1] = st.a[j + 1], ![j + 1] = st.a[i + 1]]]

(* place(begin + i): the element now at i records its position. *)
Place(st, i) == [st EXCEPT !.pos[E(st, i)] = i]

Parent(i) == (i - 1) \div 2

(* The loop shared by push_heap and change_heap: move begin[i] up while   *)
(* it is less than its parent, placing each parent moved down.  Returns   *)
(* the state and the final i.                                              *)
RECURSIVE SiftUp(_, _, _)
SiftUp(st, i, k) ==
    IF i > 0 /\ Less(k, E(st, i), E(st, Parent(i)))
    THEN SiftUp(Place(Swap(st, i, Parent(i)), i), Parent(i), k)
    ELSE [st |-> st, i |-> i]

(* A second loop that compares begin[i] with its left child only. *)
RECURSIVE SiftDownLeftOnly(_, _, _, _)
SiftDownLeftOnly(st, i, size, k) ==
    LET trial == i * 2 + 1
        smallest == IF trial < size /\ Less(k, E(st, trial), E(st, i)) THEN trial ELSE i
    IN IF smallest = i THEN [st |-> st, i |-> i]
       ELSE SiftDownLeftOnly(Place(Swap(st, i, smallest), i), smallest, size, k)

(* change_heap's second loop: move begin[i] down to its smaller child     *)
(* while that child is less, placing each child moved up.                 *)
RECURSIVE SiftDown(_, _, _, _)
SiftDown(st, i, size, k) ==
    LET trial == i * 2 + 1
        s1 == IF trial < size /\ Less(k, E(st, trial), E(st, i)) THEN trial ELSE i
        smallest == IF trial + 1 < size /\ Less(k, E(st, trial + 1), E(st, s1))
                    THEN trial + 1 ELSE s1
    IN IF smallest = i THEN [st |-> st, i |-> i]
       ELSE SiftDown(Place(Swap(st, i, smallest), i), smallest, size, k)

(* push_heap(begin, begin + size, comp, place) *)
PushHeap(st, size, k) ==
    LET r == SiftUp(st, size - 1, k) IN Place(r.st, r.i)

(* A change_heap that does not place the element it moved. *)
ChangeHeapNoFinalPlace(st, size, e, k) ==
    LET up   == SiftUp(st, e, k)
    IN SiftDown(up.st, up.i, size, k).st

(* change_heap(begin, begin + size, begin + e, comp, place) *)
ChangeHeap(st, size, e, k) ==
    LET up   == SiftUp(st, e, k)
        down == SiftDown(up.st, up.i, size, k)
    IN IF down.i # e THEN Place(down.st, down.i) ELSE down.st

(* remove_heap(begin, begin + size, begin + e, comp, place) *)
RemoveHeap(st, size, e, k) ==
    IF e + 1 # size
    THEN ChangeHeap(Place(Swap(st, e, size - 1), e), size - 1, e, k)
    ELSE st

(* A pop_heap that removes the last element instead of the first. *)
PopHeapLast(st, size, k) == RemoveHeap(st, size, size - 1, k)

(* pop_heap(begin, begin + size, comp, place) *)
PopHeap(st, size, k) == RemoveHeap(st, size, 0, k)

-----------------------------------------------------------------------------
(* The client. *)
Size == Len(heap.a)
Members == ToSet(heap.a)

Init ==
    /\ heap = [a |-> <<>>, pos |-> [e \in Elems |-> 0]]
    /\ key \in [Elems -> Keys]
    /\ op = [kind |-> "init", e |-> NoElem]

Insert(e, k) ==
    /\ e \notin Members
    /\ key' = [key EXCEPT ![e] = k]
    /\ heap' = PushHeap([heap EXCEPT !.a = Append(@, e)], Size + 1, key')
    /\ op' = [kind |-> "insert", e |-> e]

Rekey(e, k) ==
    /\ e \in Members
    /\ key' = [key EXCEPT ![e] = k]
    /\ heap' = ChangeHeap(heap, Size, heap.pos[e], key')
    /\ op' = [kind |-> "rekey", e |-> e]

(* remove_heap at the position place recorded, then pop_back. *)
RemoveElem(e) ==
    /\ e \in Members
    /\ LET st == RemoveHeap(heap, Size, heap.pos[e], key)
       IN /\ heap' = [st EXCEPT !.a = Front(@)]
          /\ op' = [kind |-> "remove", e |-> Last(st.a)]
    /\ UNCHANGED key

(* pop_heap, then take the element it moved to the back and pop_back. *)
PopMin ==
    /\ Size > 0
    /\ LET st == PopHeap(heap, Size, key)
       IN /\ heap' = [st EXCEPT !.a = Front(@)]
          /\ op' = [kind |-> "pop", e |-> Last(st.a)]
    /\ UNCHANGED key

Next ==
    \/ \E e \in Elems, k \in Keys : Insert(e, k) \/ Rekey(e, k)
    \/ \E e \in Elems : RemoveElem(e)
    \/ PopMin

Spec == Init /\ [][Next]_vars

-----------------------------------------------------------------------------
TypeOK ==
    /\ heap.a \in Seq(Elems)
    /\ heap.pos \in [Elems -> Nat]
    /\ key \in [Elems -> Keys]

(* The heap order every function's postcondition states: no element is    *)
(* less than its parent, after any sequence of pushes, key changes,       *)
(* removals from the middle and pops.                                     *)
HeapOrdered ==
    \A i \in 1..Size - 1 : ~Less(key, E(heap, i), E(heap, Parent(i)))

(* place is called for every element that changes place, so the position *)
(* each member last recorded is where it is; the client relies on it when *)
(* it passes begin + pos to change_heap and remove_heap.                 *)
PositionsTracked == \A i \in 0..Size - 1 : heap.pos[E(heap, i)] = i

(* The heap, its members being the array's elements, implements the       *)
(* priority set: each remove takes out the element named, each pop one of *)
(* least key.                                                             *)
Abstract == INSTANCE PrioritySet WITH members <- Members
Refines == Abstract!Spec
====
