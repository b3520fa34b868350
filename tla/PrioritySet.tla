---------------------------- MODULE PrioritySet ----------------------------
(***************************************************************************)
(* What the heap functions of click/algorithm.hh promise a client: a set  *)
(* of elements with keys, from which a named element can be removed and   *)
(* an element of least key can be popped.  op is the client's last call   *)
(* and the element it named or received.                                   *)
(***************************************************************************)
EXTENDS Integers

CONSTANTS Elems, Keys, NoElem

VARIABLES members, key, op

vars == <<members, key, op>>

Init ==
    /\ members = {}
    /\ key \in [Elems -> Keys]
    /\ op = [kind |-> "init", e |-> NoElem]

Insert(e, k) ==
    /\ e \notin members
    /\ members' = members \cup {e}
    /\ key' = [key EXCEPT ![e] = k]
    /\ op' = [kind |-> "insert", e |-> e]

Rekey(e, k) ==
    /\ e \in members
    /\ key' = [key EXCEPT ![e] = k]
    /\ op' = [kind |-> "rekey", e |-> e]
    /\ UNCHANGED members

Remove(e) ==
    /\ e \in members
    /\ members' = members \ {e}
    /\ op' = [kind |-> "remove", e |-> e]
    /\ UNCHANGED key

Least(e) == \A f \in members : key[e] <= key[f]

PopMin ==
    \E e \in members :
        /\ Least(e)
        /\ members' = members \ {e}
        /\ op' = [kind |-> "pop", e |-> e]
        /\ UNCHANGED key

Next ==
    \/ \E e \in Elems, k \in Keys : Insert(e, k) \/ Rekey(e, k)
    \/ \E e \in Elems : Remove(e)
    \/ PopMin

Spec == Init /\ [][Next]_vars
====
