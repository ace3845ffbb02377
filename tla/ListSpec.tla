------------------------------ MODULE ListSpec ------------------------------
(* What a List of threads/list.h promises: a sequence of items with keys.     *)
EXTENDS Integers, Sequences

CONSTANTS Item, Key, NULL

VARIABLES
    list,   \* the entries, from the front
    ret,    \* what the last removal gave back
    ok      \* FALSE: Remove(item) did not find the item, the machine is stopped

vars == <<list, ret, ok>>

Entry == [item : Item, key : Key]

Inserted(l, e, j) ==
    [i \in 1 .. Len(l) + 1 |-> IF i < j THEN l[i] ELSE IF i = j THEN e ELSE l[i - 1]]

Without(l, j) ==
    [i \in 1 .. Len(l) - 1 |-> IF i < j THEN l[i] ELSE l[i + 1]]

(* Entries with the same key stay in the order they came.                     *)
SortedPosition(l, k, j) ==
    /\ j \in 1 .. Len(l) + 1
    /\ \A i \in 1 .. j - 1 : l[i].key <= k
    /\ j <= Len(l) => k < l[j].key

Init == list = <<>> /\ ret = NULL /\ ok = TRUE

Append0(x) ==
    /\ list' = Inserted(list, [item |-> x, key |-> 0], Len(list) + 1)
    /\ UNCHANGED <<ret, ok>>

Prepend(x) ==
    /\ list' = Inserted(list, [item |-> x, key |-> 0], 1)
    /\ UNCHANGED <<ret, ok>>

SortedInsert(x, k) ==
    /\ \E j \in 1 .. Len(list) + 1 :
        /\ SortedPosition(list, k, j)
        /\ list' = Inserted(list, [item |-> x, key |-> k], j)
    /\ UNCHANGED <<ret, ok>>

RemoveFirst ==
    /\ list # <<>>
    /\ ret' = list[1]
    /\ list' = Without(list, 1)
    /\ UNCHANGED ok

RemoveNone ==
    /\ list = <<>>
    /\ ret' = NULL
    /\ UNCHANGED <<list, ok>>

(* The first entry with the item goes; the answer is nobody's business.       *)
RemoveItem(x) ==
    /\ \E j \in 1 .. Len(list) :
        /\ list[j].item = x
        /\ \A i \in 1 .. j - 1 : list[i].item # x
        /\ list' = Without(list, j)
    /\ UNCHANGED <<ret, ok>>

Miss(x) ==
    /\ \A j \in 1 .. Len(list) : list[j].item # x
    /\ ok' = FALSE
    /\ UNCHANGED <<list, ret>>

Next ==
    /\ ok
    /\ \/ \E x \in Item : Append0(x) \/ Prepend(x) \/ RemoveItem(x) \/ Miss(x)
       \/ \E x \in Item, k \in Key : SortedInsert(x, k)
       \/ RemoveFirst \/ RemoveNone

Spec == Init /\ [][Next]_vars
=============================================================================
