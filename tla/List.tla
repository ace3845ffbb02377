-------------------------------- MODULE List --------------------------------
(* The singly linked lists of threads/list.cc, cell by cell.  Its two loops   *)
(* over the cells take one step per iteration.  "order" is a history          *)
(* variable, the cells as a sequence; no guard depends on it.                 *)
EXTENDS Integers, Sequences

CONSTANTS
    Element,    \* the addresses a ListElement can be allocated at
    Item,       \* what is put on lists; never a null pointer
    Key,
    NULL

ASSUME ListAssumption ==
    /\ NULL \notin Element
    /\ NULL \notin Item
    /\ Key \subseteq Int
    /\ 0 \in Key

VARIABLES
    alloc,          \* the elements that are allocated
    next, key, item,    \* ListElement's members
    first, last, numInList,
    op,             \* the loop that is running, "none" if no call is in progress
    element, target, prev, ptr, \* its local variables
    ret, ok,        \* what the last removal returned; whether no ASSERT failed
    order           \* history

cells  == <<alloc, next, key, item>>
heads  == <<first, last, numInList>>
locals == <<op, element, target, prev, ptr>>
vars   == <<cells, heads, locals, ret, ok, order>>

S == INSTANCE ListSpec WITH
        list <- [i \in 1 .. Len(order) |-> [item |-> item[order[i]], key |-> key[order[i]]]]

Init ==
    /\ alloc = {}
    /\ next = [e \in Element |-> NULL]
    /\ key  = [e \in Element |-> 0]
    /\ item = [e \in Element |-> NULL]
    /\ first = NULL /\ last = NULL /\ numInList = 0
    /\ op = "none"
    /\ element = NULL /\ target = NULL /\ prev = NULL /\ ptr = NULL
    /\ ret = NULL
    /\ ok = TRUE
    /\ order = <<>>
-----------------------------------------------------------------------------
IsEmpty == first = NULL

(* new ListElement(x, k), linked to n at once.                                *)
New(e, x, k, n) ==
    /\ e \in Element \ alloc
    /\ alloc' = alloc \cup {e}
    /\ item' = [item EXCEPT ![e] = x]
    /\ key'  = [key EXCEPT ![e] = k]
    /\ next' = [next EXCEPT ![e] = n]

(* delete: what the memory holds then is of no interest.                      *)
Delete(e) ==
    /\ alloc' = alloc \ {e}
    /\ item' = [item EXCEPT ![e] = NULL]
    /\ key'  = [key EXCEPT ![e] = 0]

Idle == ok /\ op = "none"

(* The new element is the only one, or goes in front.                         *)
PutFirst(e, x, k) ==
    /\ New(e, x, k, first)
    /\ first' = e
    /\ last' = IF IsEmpty THEN e ELSE last
    /\ numInList' = numInList + 1
    /\ order' = S!Inserted(order, e, 1)

Append0(x) ==
    /\ Idle
    /\ \E e \in Element \ alloc :
        IF IsEmpty
        THEN PutFirst(e, x, 0)
        ELSE /\ alloc' = alloc \cup {e}
             /\ item' = [item EXCEPT ![e] = x]
             /\ key'  = [key EXCEPT ![e] = 0]
             /\ next' = [next EXCEPT ![last] = e, ![e] = NULL]
             /\ last' = e
             /\ numInList' = numInList + 1
             /\ order' = S!Inserted(order, e, Len(order) + 1)
             /\ UNCHANGED first
    /\ UNCHANGED <<locals, ret, ok>>

Prepend(x) ==
    /\ Idle
    /\ \E e \in Element \ alloc : PutFirst(e, x, 0)
    /\ UNCHANGED <<locals, ret, ok>>

(* SortedInsert before its loop: the list is empty or the item goes in front; *)
(* otherwise the element waits, unlinked, for its place.                      *)
SortedInsert(x, k) ==
    /\ Idle
    /\ \E e \in Element \ alloc :
        IF IsEmpty \/ k < key[first]
        THEN PutFirst(e, x, k) /\ UNCHANGED <<locals, ret, ok>>
        ELSE /\ New(e, x, k, NULL)
             /\ op' = "SortedInsert"
             /\ element' = e
             /\ ptr' = first
             /\ UNCHANGED <<heads, target, prev, ret, ok, order>>

Return ==
    /\ op' = "none"
    /\ element' = NULL /\ target' = NULL /\ prev' = NULL /\ ptr' = NULL

(* The element goes after ptr.                                                *)
LinkAfter ==
    /\ numInList' = numInList + 1
    /\ \E i \in 1 .. Len(order) :
        order[i] = ptr /\ order' = S!Inserted(order, element, i + 1)
    /\ Return
    /\ UNCHANGED <<alloc, key, item, first, ret, ok>>

(* Mutant: passes over entries with a greater or equal key only.              *)
SortedInsertLoopEqual ==
    /\ ok
    /\ op = "SortedInsert"
    /\ IF next[ptr] = NULL
       THEN /\ next' = [next EXCEPT ![last] = element]
            /\ last' = element
            /\ LinkAfter
       ELSE IF key[element] <= key[next[ptr]]
       THEN /\ next' = [next EXCEPT ![element] = next[ptr], ![ptr] = element]
            /\ UNCHANGED last
            /\ LinkAfter
       ELSE /\ ptr' = next[ptr]
            /\ UNCHANGED <<cells, heads, op, element, target, prev, ret, ok, order>>

SortedInsertLoop ==
    /\ ok
    /\ op = "SortedInsert"
    /\ IF next[ptr] = NULL
       THEN /\ next' = [next EXCEPT ![last] = element]
            /\ last' = element
            /\ LinkAfter
       ELSE IF key[element] < key[next[ptr]]
       THEN /\ next' = [next EXCEPT ![element] = next[ptr], ![ptr] = element]
            /\ UNCHANGED last
            /\ LinkAfter
       ELSE /\ ptr' = next[ptr]
            /\ UNCHANGED <<cells, heads, op, element, target, prev, ret, ok, order>>

(* SortedRemove on a list that is not empty.                                  *)
TakeFirst ==
    /\ first' = IF first = last THEN NULL ELSE next[first]
    /\ last'  = IF first = last THEN NULL ELSE last
    /\ Delete(first)
    /\ next' = [next EXCEPT ![first] = NULL]
    /\ numInList' = numInList - 1
    /\ order' = S!Without(order, 1)

(* Remove() and SortedRemove(&key).                                           *)
SortedRemove ==
    IF IsEmpty
    THEN ret' = NULL /\ UNCHANGED <<cells, heads, order>>
    ELSE ret' = [item |-> item[first], key |-> key[first]] /\ TakeFirst

Remove ==
    /\ Idle
    /\ SortedRemove
    /\ UNCHANGED <<locals, ok>>

(* Remove(item) before its loop.  On an empty list it reads first->item       *)
(* through a null pointer: the program is stopped as by its ASSERT.           *)
RemoveItem(x) ==
    /\ Idle
    /\ IF IsEmpty
       THEN ok' = FALSE /\ UNCHANGED <<cells, heads, locals, ret, order>>
       ELSE IF x = item[first]
       THEN TakeFirst /\ UNCHANGED <<locals, ret, ok>>
       ELSE /\ op' = "Remove"
            /\ target' = x
            /\ prev' = first
            /\ ptr' = next[first]
            /\ UNCHANGED <<cells, heads, element, ret, ok, order>>

(* Mutant: "last" still points at the element when the last one is removed.   *)
RemoveItemLoopKeepLast ==
    /\ ok
    /\ op = "Remove"
    /\ IF ptr = NULL
       THEN ok' = FALSE /\ UNCHANGED <<cells, heads, locals, ret, order>>
       ELSE IF target = item[ptr]
       THEN /\ next' = [next EXCEPT ![prev] = next[ptr], ![ptr] = NULL]
            /\ Delete(ptr)
            /\ numInList' = numInList - 1
            /\ \E i \in 1 .. Len(order) : order[i] = ptr /\ order' = S!Without(order, i)
            /\ Return
            /\ UNCHANGED <<first, last, ret, ok>>
       ELSE /\ prev' = ptr
            /\ ptr' = next[ptr]
            /\ UNCHANGED <<cells, heads, op, element, target, ret, ok, order>>

RemoveItemLoop ==
    /\ ok
    /\ op = "Remove"
    /\ IF ptr = NULL
       THEN ok' = FALSE /\ UNCHANGED <<cells, heads, locals, ret, order>>
       ELSE IF target = item[ptr]
       THEN /\ next' = [next EXCEPT ![prev] = next[ptr], ![ptr] = NULL]
            /\ last' = IF next[ptr] = NULL THEN prev ELSE last
            /\ Delete(ptr)
            /\ numInList' = numInList - 1
            /\ \E i \in 1 .. Len(order) : order[i] = ptr /\ order' = S!Without(order, i)
            /\ Return
            /\ UNCHANGED <<first, ret, ok>>
       ELSE /\ prev' = ptr
            /\ ptr' = next[ptr]
            /\ UNCHANGED <<cells, heads, op, element, target, ret, ok, order>>

(* ~List: Remove() until it returns NULL.  The next List starts afresh.       *)
Destroy ==
    /\ Idle
    /\ op' = "~List"
    /\ UNCHANGED <<cells, heads, element, target, prev, ptr, ret, ok, order>>

DestroyLoop ==
    /\ ok
    /\ op = "~List"
    /\ SortedRemove
    /\ op' = IF IsEmpty THEN "none" ELSE op
    /\ UNCHANGED <<element, target, prev, ptr, ok>>

Stopped == ~ok /\ UNCHANGED vars

Next ==
    \/ \E x \in Item : Append0(x) \/ Prepend(x) \/ RemoveItem(x)
    \/ \E x \in Item, k \in Key : SortedInsert(x, k)
    \/ Remove \/ SortedInsertLoop \/ RemoveItemLoop
    \/ Destroy \/ DestroyLoop
    \/ Stopped

Spec == Init /\ [][Next]_vars
-----------------------------------------------------------------------------
(* Properties.                                                                *)

(* The links are right: following next from first visits every allocated      *)
(* element once and ends at last (an element SortedInsert is placing aside),  *)
(* and numInList counts them.  No element leaks, none is used after delete.   *)
ListIsLinked ==
    /\ alloc = {order[i] : i \in 1 .. Len(order)} \cup (IF element = NULL THEN {} ELSE {element})
    /\ \A i, j \in 1 .. Len(order) : order[i] = order[j] => i = j
    /\ \A i \in 1 .. Len(order) : order[i] # element
    /\ first = IF order = <<>> THEN NULL ELSE order[1]
    /\ last = IF order = <<>> THEN NULL ELSE order[Len(order)]
    /\ \A i \in 1 .. Len(order) :
        next[order[i]] = IF i = Len(order) THEN NULL ELSE order[i + 1]
    /\ numInList = Len(order)

(* Append, Prepend, Remove, the sorted operations, Remove(item) and the       *)
(* destructor do to the linked elements what ListSpec says of a sequence.     *)
ImplementsListSpec == S!Spec
=============================================================================
