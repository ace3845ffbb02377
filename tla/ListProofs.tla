----------------------------- MODULE ListProofs -----------------------------
(* Proofs, for any elements, items and keys, that the links of a List are     *)
(* right and that it implements ListSpec.                                     *)
EXTENDS List, TLAPS

(* The cells o, in this order, are distinct and linked by nx.                 *)
Chain(o, nx) ==
    /\ \A i, j \in 1 .. Len(o) : o[i] = o[j] => i = j
    /\ \A i \in 1 .. Len(o) : nx[o[i]] = IF i = Len(o) THEN NULL ELSE o[i + 1]

Cells(o) == {o[i] : i \in 1 .. Len(o)}

(* What the loops have found out about the elements they have passed.         *)
Placing ==
    /\ item[element] \in Item /\ next[element] = NULL
    /\ \E p \in 1 .. Len(order) :
        order[p] = ptr /\ \A i \in 1 .. p : key[order[i]] <= key[element]

Looking ==
    /\ target \in Item
    /\ \E p \in 2 .. Len(order) + 1 :
        /\ prev = order[p - 1]
        /\ ptr = IF p = Len(order) + 1 THEN NULL ELSE order[p]
        /\ \A i \in 1 .. p - 1 : item[order[i]] # target

Types ==
    /\ alloc \subseteq Element
    /\ next \in [Element -> Element \cup {NULL}]
    /\ key \in [Element -> Key]
    /\ item \in [Element -> Item \cup {NULL}]
    /\ order \in Seq(Element)
    /\ op \in {"none", "SortedInsert", "Remove", "~List"}
    /\ element \in Element \cup {NULL}
    /\ ok \in BOOLEAN

(* The inductive invariant.                                                   *)
Inv ==
    /\ Types
    /\ ListIsLinked
    /\ element # NULL <=> op = "SortedInsert"
    /\ op = "SortedInsert" => Placing
    /\ op = "Remove" => Looking
-----------------------------------------------------------------------------
(* Sequences with an entry more, or less.                                     *)

(* What Inserted is, position by position.                                    *)
LEMMA InsertedIs ==
    ASSUME NEW A, NEW o \in Seq(A), NEW e \in A, NEW j \in 1 .. Len(o) + 1
    PROVE  /\ S!Inserted(o, e, j) \in Seq(A)
           /\ Len(S!Inserted(o, e, j)) = Len(o) + 1
           /\ \A i \in 1 .. Len(o) + 1 :
                S!Inserted(o, e, j)[i] = IF i < j THEN o[i] ELSE IF i = j THEN e ELSE o[i - 1]
BY DEF S!Inserted

(* What Without is, position by position.                                     *)
LEMMA WithoutIs ==
    ASSUME NEW A, NEW o \in Seq(A), NEW j \in 1 .. Len(o)
    PROVE  /\ S!Without(o, j) \in Seq(A)
           /\ Len(S!Without(o, j)) = Len(o) - 1
           /\ \A i \in 1 .. Len(o) - 1 : S!Without(o, j)[i] = IF i < j THEN o[i] ELSE o[i + 1]
BY DEF S!Without

(* q is o with e linked in at position j.                                     *)
LinkedIn(o, q, e, j, nx, my) ==
    /\ o \in Seq(Element) /\ q \in Seq(Element)
    /\ e \in Element /\ e \notin Cells(o)
    /\ j \in 1 .. Len(o) + 1
    /\ Len(q) = Len(o) + 1
    /\ \A i \in 1 .. Len(o) + 1 : q[i] = IF i < j THEN o[i] ELSE IF i = j THEN e ELSE o[i - 1]
    /\ Chain(o, nx)
    /\ my[e] = IF j = Len(o) + 1 THEN NULL ELSE o[j]
    /\ \A i \in 1 .. Len(o) : my[o[i]] = IF i = j - 1 THEN e ELSE nx[o[i]]

(* Linking in keeps the chain.                                                *)
LEMMA ChainInserted ==
    ASSUME NEW o, NEW q, NEW e, NEW j, NEW nx, NEW my, LinkedIn(o, q, e, j, nx, my)
    PROVE  Chain(q, my) /\ Cells(q) = Cells(o) \cup {e}
<1>0. o \in Seq(Element) /\ e \in Element /\ j \in 1 .. Len(o) + 1
  BY DEF LinkedIn
<1>a. /\ \A x, y \in 1 .. Len(o) : o[x] = o[y] => x = y
      /\ \A x \in 1 .. Len(o) : nx[o[x]] = IF x = Len(o) THEN NULL ELSE o[x + 1]
      /\ \A x \in 1 .. Len(o) : o[x] # e
  BY DEF LinkedIn, Chain, Cells
<1>b. /\ my[e] = IF j = Len(o) + 1 THEN NULL ELSE o[j]
      /\ \A i \in 1 .. Len(o) : my[o[i]] = IF i = j - 1 THEN e ELSE nx[o[i]]
  BY DEF LinkedIn
<1>1. /\ q \in Seq(Element) /\ Len(q) = Len(o) + 1 /\ Len(o) \in Nat
      /\ \A i \in 1 .. Len(o) + 1 : q[i] = IF i < j THEN o[i] ELSE IF i = j THEN e ELSE o[i - 1]
  BY DEF LinkedIn
<1>c. Len(o) \in Nat /\ Len(q) = Len(o) + 1 /\ j \in 1 .. Len(o) + 1
  BY <1>0, <1>1
<1>3. \A i, k \in 1 .. Len(q) : q[i] = q[k] => i = k
  <2> SUFFICES ASSUME NEW i \in 1 .. Len(q), NEW k \in 1 .. Len(q), q[i] = q[k], i < k PROVE FALSE
    BY <1>0, <1>1
  <2>1. CASE k < j
    BY <1>a, <2>1, <1>0, <1>1
  <2>2. CASE k = j
    <3>1. i \in 1 .. Len(o) /\ q[i] = o[i] /\ q[k] = e
      BY <2>2, <1>0, <1>1
    <3>2. QED BY Zenon, <3>1, <1>a
  <2>3. CASE k > j /\ i = j
    <3>1. k - 1 \in 1 .. Len(o) /\ q[k] = o[k - 1] /\ q[i] = e
      BY <2>3, <1>0, <1>1
    <3>2. QED BY <3>1, <1>a
  <2>4. CASE k > j /\ i < j
    <3>1. /\ k - 1 \in 1 .. Len(o) /\ q[k] = o[k - 1]
          /\ i \in 1 .. Len(o) /\ q[i] = o[i] /\ i # k - 1
      BY <2>4, <1>0, <1>1
    <3>2. QED BY <3>1, <1>a
  <2>5. CASE k > j /\ i > j
    <3>1. /\ k - 1 \in 1 .. Len(o) /\ q[k] = o[k - 1]
          /\ i - 1 \in 1 .. Len(o) /\ q[i] = o[i - 1] /\ i - 1 # k - 1
      BY <2>5, <1>0, <1>1
    <3>2. QED BY <3>1, <1>a
  <2>6. QED BY <2>1, <2>2, <2>3, <2>4, <2>5, <1>0, <1>1
<1>4. \A i \in 1 .. Len(q) : my[q[i]] = IF i = Len(q) THEN NULL ELSE q[i + 1]
  <2> SUFFICES ASSUME NEW i \in 1 .. Len(q)
               PROVE  my[q[i]] = IF i = Len(q) THEN NULL ELSE q[i + 1]
    OBVIOUS
  <2>1. CASE i < j - 1
    <3>1. /\ i \in 1 .. Len(o) /\ i # Len(o) /\ i # j - 1 /\ i # Len(q)
          /\ q[i] = o[i] /\ q[i + 1] = o[i + 1]
      BY <2>1, <1>0, <1>1
    <3>2. QED BY <3>1, <1>a, <1>b
  <2>2. CASE i = j - 1
    <3>1. i \in 1 .. Len(o) /\ i # Len(q) /\ q[i] = o[i] /\ q[i + 1] = e
      BY <2>2, <1>0, <1>1
    <3>2. QED BY <2>2, <3>1, <1>b
  <2>3. CASE i = j
    <3>1. q[i] = e /\ (i = Len(q) <=> j = Len(o) + 1) /\ (i # Len(q) => q[i + 1] = o[j])
      BY <2>3, <1>0, <1>1
    <3>2. QED BY <3>1, <1>b
  <2>4. CASE i > j
    <3>1. i - 1 \in 1 .. Len(o) /\ q[i] = o[i - 1] /\ i - 1 # j - 1
      BY <2>4, <1>0, <1>1
    <3>2. my[q[i]] = nx[o[i - 1]]
      BY <1>b, <3>1
    <3>3. nx[o[i - 1]] = IF i - 1 = Len(o) THEN NULL ELSE o[(i - 1) + 1]
      BY <1>a, <3>1
    <3>4. ASSUME i # Len(q) PROVE q[i + 1] = o[(i - 1) + 1]
      <4>1. i + 1 \in 1 .. Len(o) + 1 /\ ~(i + 1 < j) /\ i + 1 # j /\ (i + 1) - 1 = (i - 1) + 1
        BY <2>4, <3>4, <1>c
      <4>2. q[i + 1] = o[(i + 1) - 1]
        BY <4>1, <1>1
      <4>3. QED BY <4>1, <4>2
    <3>5. QED BY <3>2, <3>3, <3>4, <1>1
  <2>5. QED BY <2>1, <2>2, <2>3, <2>4, <1>0, <1>1
<1>5. Cells(q) \subseteq Cells(o) \cup {e}
  <2> SUFFICES ASSUME NEW i \in 1 .. Len(q) PROVE q[i] \in Cells(o) \cup {e}
    BY DEF Cells
  <2>1. CASE i < j
    <3>1. i \in 1 .. Len(o) /\ q[i] = o[i]
      BY <2>1, <1>0, <1>1
    <3>2. QED BY <3>1 DEF Cells
  <2>2. CASE i = j
    BY <2>2, <1>0, <1>1
  <2>3. CASE i > j
    <3>1. i - 1 \in 1 .. Len(o) /\ q[i] = o[i - 1]
      BY <2>3, <1>0, <1>1
    <3>2. QED BY <3>1 DEF Cells
  <2>4. QED BY <2>1, <2>2, <2>3, <1>0, <1>1
<1>6. e \in Cells(q)
  BY <1>0, <1>1 DEF Cells
<1>7. ASSUME NEW i \in 1 .. Len(o) PROVE o[i] \in Cells(q)
  <2>1. CASE i < j
    BY <2>1, <1>0, <1>1 DEF Cells
  <2>2. CASE i >= j
    <3>1. i + 1 \in 1 .. Len(q) /\ q[i + 1] = o[i]
      BY <2>2, <1>0, <1>1
    <3>2. QED BY <3>1 DEF Cells
  <2>3. QED BY <2>1, <2>2, <1>0, <1>1
<1>8. Cells(o) \subseteq Cells(q)
  BY <1>7 DEF Cells
<1>9. QED BY <1>3, <1>4, <1>5, <1>6, <1>8 DEF Chain

(* q is o without the element at position j, which is unlinked.               *)
Unlinked(o, q, j, nx, my) ==
    /\ o \in Seq(Element) /\ q \in Seq(Element)
    /\ j \in 1 .. Len(o)
    /\ Len(q) = Len(o) - 1
    /\ \A i \in 1 .. Len(o) - 1 : q[i] = IF i < j THEN o[i] ELSE o[i + 1]
    /\ Chain(o, nx)
    /\ \A i \in 1 .. Len(o) : i # j => my[o[i]] = IF i = j - 1 THEN nx[o[j]] ELSE nx[o[i]]

(* Unlinking keeps the chain.                                                 *)
LEMMA ChainWithout ==
    ASSUME NEW o, NEW q, NEW j, NEW nx, NEW my, Unlinked(o, q, j, nx, my)
    PROVE  Chain(q, my) /\ Cells(q) = Cells(o) \ {o[j]}
<1>0. /\ o \in Seq(Element) /\ j \in 1 .. Len(o) /\ Chain(o, nx)
      /\ \A i \in 1 .. Len(o) : i # j => my[o[i]] = IF i = j - 1 THEN nx[o[j]] ELSE nx[o[i]]
  BY DEF Unlinked
<1>1. /\ q \in Seq(Element) /\ Len(q) = Len(o) - 1 /\ Len(o) \in Nat
      /\ \A i \in 1 .. Len(o) - 1 : q[i] = IF i < j THEN o[i] ELSE o[i + 1]
  BY DEF Unlinked
<1>3. \A i, k \in 1 .. Len(q) : q[i] = q[k] => i = k
  BY <1>0, <1>1 DEF Chain
<1>4. \A i \in 1 .. Len(q) : my[q[i]] = IF i = Len(q) THEN NULL ELSE q[i + 1]
  <2> SUFFICES ASSUME NEW i \in 1 .. Len(q)
               PROVE  my[q[i]] = IF i = Len(q) THEN NULL ELSE q[i + 1]
    OBVIOUS
  <2>0. \A x \in 1 .. Len(o) : nx[o[x]] = IF x = Len(o) THEN NULL ELSE o[x + 1]
    BY <1>0 DEF Chain
  <2>1. CASE i < j - 1
    <3>0. /\ i \in 1 .. Len(o) /\ i # j /\ i # j - 1 /\ i # Len(o)
          /\ i \in 1 .. Len(o) - 1 /\ i + 1 \in 1 .. Len(o) - 1 /\ i < j /\ i + 1 < j /\ i # Len(q)
      BY <2>1, <1>0, <1>1
    <3>1. q[i] = o[i] /\ q[i + 1] = o[i + 1]
      BY Zenon, <1>1, <3>0
    <3>2. QED BY <1>0, <3>0, <3>1, <2>0
  <2>2. CASE i = j - 1
    BY <2>2, <1>0, <1>1 DEF Chain
  <2>3. CASE i >= j
    <3>1. i + 1 \in 1 .. Len(o) /\ i + 1 # j /\ i + 1 # j - 1 /\ q[i] = o[i + 1]
      BY <2>3, <1>0, <1>1
    <3>2. my[q[i]] = nx[o[i + 1]]
      BY <1>0, <3>1
    <3>3. nx[o[i + 1]] = IF i + 1 = Len(o) THEN NULL ELSE o[(i + 1) + 1]
      BY <3>1, <2>0
    <3>4. i # Len(q) => q[i + 1] = o[(i + 1) + 1]
      BY <2>3, <1>0, <1>1
    <3>5. QED BY <3>2, <3>3, <3>4, <1>0, <1>1
  <2>4. QED BY <2>1, <2>2, <2>3, <1>0, <1>1
<1>5. Cells(q) \subseteq Cells(o) \ {o[j]}
  BY <1>0, <1>1 DEF Cells, Chain
<1>7. ASSUME NEW i \in 1 .. Len(o), i # j PROVE o[i] \in Cells(q)
  <2>1. CASE i < j
    BY <2>1, <1>0, <1>1 DEF Cells
  <2>2. CASE i > j
    <3>1. i - 1 \in 1 .. Len(q) /\ q[i - 1] = o[i]
      BY <2>2, <1>0, <1>1
    <3>2. QED BY <3>1 DEF Cells
  <2>3. QED BY <1>7, <2>1, <2>2, <1>0, <1>1
<1>8. Cells(o) \ {o[j]} \subseteq Cells(q)
  BY <1>7 DEF Cells
<1>9. QED BY <1>3, <1>4, <1>5, <1>8 DEF Chain
-----------------------------------------------------------------------------
(* The steps.                                                                 *)

(* An element put into the list at position j, by a call that ends here.      *)
LEMMA InsertStep ==
    ASSUME Inv, NEW e \in Element, e \notin Cells(order), NEW j \in 1 .. Len(order) + 1,
           order' = S!Inserted(order, e, j),
           alloc' = Cells(order) \cup {e},
           next' \in [Element -> Element \cup {NULL}],
           next'[e] = IF j = Len(order) + 1 THEN NULL ELSE order[j],
           \A i \in 1 .. Len(order) : next'[order[i]] = IF i = j - 1 THEN e ELSE next[order[i]],
           first' = IF j = 1 THEN e ELSE first,
           last' = IF j = Len(order) + 1 THEN e ELSE last,
           numInList' = numInList + 1,
           element' = NULL
    PROVE  ListIsLinked' /\ order' \in Seq(Element)
<1>1. Chain(order, next)
  BY Zenon DEF Inv, ListIsLinked, Chain
<1>2. order \in Seq(Element) /\ Len(order) \in Nat
  BY DEF Inv, Types
<1>3. /\ order' \in Seq(Element) /\ Len(order') = Len(order) + 1
      /\ \A i \in 1 .. Len(order) + 1 :
            order'[i] = IF i < j THEN order[i] ELSE IF i = j THEN e ELSE order[i - 1]
  BY <1>2, InsertedIs DEF S!Inserted
<1>4. Chain(order', next') /\ Cells(order') = Cells(order) \cup {e}
  <2>1. LinkedIn(order, order', e, j, next, next')
    BY <1>1, <1>2, <1>3 DEF LinkedIn
  <2>2. QED BY Zenon, <2>1, ChainInserted
<1>5. first' = IF order' = <<>> THEN NULL ELSE order'[1]
  BY <1>2, <1>3 DEF Inv, ListIsLinked
<1>6. last' = IF order' = <<>> THEN NULL ELSE order'[Len(order')]
  BY <1>2, <1>3 DEF Inv, ListIsLinked
<1>7. numInList' = Len(order')
  BY <1>3 DEF Inv, ListIsLinked
<1>8. alloc' = Cells(order') \cup {}
  BY <1>4
<1>9. \A i \in 1 .. Len(order') : order'[i] # NULL
  BY <1>2, <1>3, ListAssumption
<1>10. QED BY Zenon, <1>4, <1>3, <1>5, <1>6, <1>7, <1>8, <1>9 DEF ListIsLinked, Chain, Cells

(* The element at position j taken out, by a call that ends here.             *)
LEMMA RemoveStep ==
    ASSUME Inv, NEW j \in 1 .. Len(order), op # "SortedInsert",
           order' = S!Without(order, j),
           alloc' = alloc \ {order[j]},
           \A i \in 1 .. Len(order) : i # j =>
                next'[order[i]] = IF i = j - 1 THEN next[order[j]] ELSE next[order[i]],
           first' = IF j = 1 THEN next[order[1]] ELSE first,
           last' = IF j = Len(order) THEN (IF j = 1 THEN NULL ELSE order[j - 1]) ELSE last,
           numInList' = numInList - 1,
           element' = NULL
    PROVE  ListIsLinked' /\ order' \in Seq(Element)
<1>1. Chain(order, next)
  BY DEF Inv, ListIsLinked, Chain
<1>2. order \in Seq(Element) /\ Len(order) \in Nat
  BY DEF Inv, Types
<1>3. /\ order' \in Seq(Element) /\ Len(order') = Len(order) - 1
      /\ \A i \in 1 .. Len(order) - 1 : order'[i] = IF i < j THEN order[i] ELSE order[i + 1]
  BY Zenon, <1>2, WithoutIs DEF S!Without
<1>4. Chain(order', next') /\ Cells(order') = Cells(order) \ {order[j]}
  <2>1. Unlinked(order, order', j, next, next')
    BY <1>1, <1>2, <1>3 DEF Unlinked
  <2>2. QED BY <2>1, ChainWithout
<1>5. first' = IF order' = <<>> THEN NULL ELSE order'[1]
  BY <1>1, <1>2, <1>3 DEF Inv, ListIsLinked, Chain
<1>6. last' = IF order' = <<>> THEN NULL ELSE order'[Len(order')]
  BY <1>2, <1>3 DEF Inv, ListIsLinked
<1>7. numInList' = Len(order')
  BY <1>3 DEF Inv, ListIsLinked
<1>8. alloc' = Cells(order') \cup {}
  BY Zenon, <1>4 DEF Inv, ListIsLinked, Cells
<1>9. \A i \in 1 .. Len(order') : order'[i] # NULL
  BY <1>2, <1>3, ListAssumption
<1>10. QED BY <1>4, <1>3, <1>5, <1>6, <1>7, <1>8, <1>9 DEF ListIsLinked, Chain, Cells

(* An element that is not allocated is not in the list.                       *)
LEMMA FreshElement ==
    ASSUME Inv, NEW e \in Element \ alloc
    PROVE  e \notin Cells(order)
BY DEF Inv, ListIsLinked, Cells

(* Between two calls every allocated element is in the list.                  *)
LEMMA AllLinked ==
    ASSUME Inv, op # "SortedInsert"
    PROVE  element = NULL /\ alloc = Cells(order)
BY DEF Inv, ListIsLinked, Cells

(* Append to an empty list, Prepend, SortedInsert of a least key.             *)
LEMMA PutFirstStep ==
    ASSUME Inv, Idle, NEW e \in Element \ alloc, NEW x \in Item, NEW k \in Key,
           PutFirst(e, x, k), UNCHANGED <<locals, ret, ok>>
    PROVE  Inv'
<1>1. element = NULL /\ alloc = Cells(order) /\ e \notin Cells(order) /\ op = "none"
  BY AllLinked, FreshElement DEF Idle
<1>2. order \in Seq(Element) /\ Len(order) \in Nat
  BY DEF Inv, Types
<1>3. UNCHANGED <<op, element, target, prev, ptr, ok>>
  BY DEF locals
<1>4. next'[e] = IF Len(order) = 0 THEN NULL ELSE order[1]
  BY <1>2 DEF PutFirst, New, Inv, Types, ListIsLinked
<1>5. \A i \in 1 .. Len(order) : next'[order[i]] = next[order[i]]
  BY Zenon, <1>1, <1>2 DEF PutFirst, New, Inv, Types, Cells
<1>6. last' = IF Len(order) = 0 THEN e ELSE last
  <2>1. IsEmpty <=> Len(order) = 0
    BY <1>2, ListAssumption DEF IsEmpty, Inv, ListIsLinked
  <2>2. QED BY <2>1 DEF PutFirst
<1>7. ListIsLinked' /\ order' \in Seq(Element)
  <2>1. 1 \in 1 .. Len(order) + 1
    BY <1>2
  <2>2. /\ order' = S!Inserted(order, e, 1) /\ first' = e /\ numInList' = numInList + 1
        /\ alloc' = Cells(order) \cup {e} /\ element' = NULL
        /\ next' \in [Element -> Element \cup {NULL}]
    <3>1. first \in Element \cup {NULL}
      BY <1>2 DEF Inv, ListIsLinked
    <3>2. QED BY <1>1, <1>3, <3>1 DEF PutFirst, New, Inv, Types
  <2>3. \A i \in 1 .. Len(order) : i # 1 - 1
    BY <1>2
  <2>4. QED BY InsertStep, <2>1, <2>2, <2>3, <1>1, <1>2, <1>4, <1>5, <1>6
<1>8. Types'
  <2>1. first \in Element \cup {NULL}
    BY <1>2 DEF Inv, ListIsLinked
  <2>2. QED BY <1>3, <1>7, <2>1 DEF PutFirst, New, Inv, Types
<1>9. QED BY <1>1, <1>3, <1>7, <1>8 DEF Inv

(* The positions of the list, and that empty lists have no first.             *)
LEMMA Ends ==
    ASSUME Inv
    PROVE  /\ order \in Seq(Element) /\ Len(order) \in Nat
           /\ IsEmpty <=> Len(order) = 0
           /\ Len(order) # 0 => first = order[1] /\ last = order[Len(order)]
           /\ Len(order) # 0 => (first = last <=> Len(order) = 1)
           /\ \A i \in 1 .. Len(order) : order[i] \in Element /\ order[i] # NULL
<1>1. order \in Seq(Element) /\ Len(order) \in Nat /\ NULL \notin Element
  BY ListAssumption DEF Inv, Types
<1>2. \A i \in 1 .. Len(order) : order[i] \in Element /\ order[i] # NULL
  BY <1>1
<1>3. Len(order) = 0 <=> order = <<>>
  BY <1>1
<1>4. Len(order) # 0 => first = order[1] /\ last = order[Len(order)]
  BY <1>1, <1>3 DEF Inv, ListIsLinked
<1>5. IsEmpty <=> Len(order) = 0
  BY <1>1, <1>2, <1>3, <1>4 DEF IsEmpty, Inv, ListIsLinked
<1>6. Len(order) # 0 => (first = last <=> Len(order) = 1)
  BY <1>1, <1>4 DEF Inv, ListIsLinked
<1>7. QED BY <1>1, <1>2, <1>4, <1>5, <1>6

(* Remove, SortedRemove, Remove(item) of the first one, ~List.                *)
LEMMA TakeFirstStep ==
    ASSUME Inv, op # "SortedInsert", Len(order) # 0, TakeFirst,
           UNCHANGED <<element, ok>>, op' \in {"none", "~List"}
    PROVE  Inv'
<1>1. /\ order \in Seq(Element) /\ Len(order) \in Nat
      /\ first = order[1] /\ last = order[Len(order)] /\ (first = last <=> Len(order) = 1)
  BY Ends
<1>2. element = NULL /\ alloc = Cells(order)
  BY AllLinked
<1>3. 1 \in 1 .. Len(order) /\ order[1] \in Element
  BY <1>1
<1>4. \A i \in 1 .. Len(order) : i # 1 =>
        next'[order[i]] = IF i = 1 - 1 THEN next[order[1]] ELSE next[order[i]]
  <2>1. \A i \in 1 .. Len(order) : i # 1 => order[i] # order[1] /\ order[i] \in Element /\ i # 1 - 1
    BY <1>1, <1>3 DEF Inv, ListIsLinked
  <2>2. next \in [Element -> Element \cup {NULL}] /\ next' = [next EXCEPT ![order[1]] = NULL]
    BY <1>1 DEF TakeFirst, Inv, Types
  <2>3. QED BY <2>1, <2>2
<1>5. first' = next[order[1]]
  BY <1>1, <1>3 DEF TakeFirst, Inv, ListIsLinked
<1>6. last' = IF 1 = Len(order) THEN NULL ELSE last
  <2>1. last' = IF first = last THEN NULL ELSE last
    BY DEF TakeFirst
  <2>2. QED BY <1>1, <2>1
<1>7. ListIsLinked' /\ order' \in Seq(Element)
  <2>1. order' = S!Without(order, 1)
    BY DEF TakeFirst
  <2>2. alloc' = alloc \ {order[1]} /\ numInList' = numInList - 1
    BY <1>1 DEF TakeFirst, Delete
  <2>3. QED BY Zenon, RemoveStep, <2>1, <2>2, <1>2, <1>3, <1>4, <1>5, <1>6
<1>8. Types'
  <2>1. next' \in [Element -> Element \cup {NULL}] /\ alloc' \subseteq Element
    BY Zenon DEF TakeFirst, Delete, Inv, Types
  <2>2. key' \in [Element -> Key] /\ item' \in [Element -> Item \cup {NULL}]
    BY Zenon, ListAssumption DEF TakeFirst, Delete, Inv, Types
  <2>3. QED BY <1>7, <2>1, <2>2 DEF Inv, Types
<1>9. QED BY <1>2, <1>7, <1>8 DEF Inv

(* Append.                                                                    *)
LEMMA AppendStep ==
    ASSUME Inv, NEW x \in Item, Append0(x)
    PROVE  Inv'
<1>1. PICK e \in Element \ alloc :
        IF IsEmpty
        THEN PutFirst(e, x, 0)
        ELSE /\ alloc' = alloc \cup {e}
             /\ item' = [item EXCEPT ![e] = x]
             /\ key'  = [key EXCEPT ![e] = 0]
             /\ next' = [next EXCEPT ![last] = e, ![e] = NULL]
             /\ last' = e
             /\ numInList' = numInList + 1
             /\ order' = S!Inserted(order, e, Len(order) + 1)
             /\ UNCHANGED first
  BY DEF Append0
<1>2. Idle /\ UNCHANGED <<locals, ret, ok>> /\ 0 \in Key
  BY ListAssumption DEF Append0
<1>3. CASE IsEmpty
  BY <1>1, <1>2, <1>3, PutFirstStep
<1>4. CASE ~IsEmpty
  <2>1. /\ order \in Seq(Element) /\ Len(order) \in Nat /\ Len(order) # 0 /\ last = order[Len(order)]
        /\ \A i \in 1 .. Len(order) : order[i] \in Element
    BY <1>4, Ends
  <2>2. element = NULL /\ alloc = Cells(order) /\ e \notin Cells(order) /\ op = "none"
    BY <1>2, AllLinked, FreshElement DEF Idle
  <2>3. UNCHANGED <<op, element, target, prev, ptr, ok>>
    BY <1>2 DEF locals
  <2>4. \A i \in 1 .. Len(order) : order[i] # e
    BY <2>2 DEF Cells
  <2>5. \A i \in 1 .. Len(order) : order[i] = last => i = Len(order)
    BY <2>1 DEF Inv, ListIsLinked
  <2>6. next'[e] = NULL /\ next' \in [Element -> Element \cup {NULL}]
    BY Zenon, <1>1, <1>4, <2>1 DEF Inv, Types
  <2>7. \A i \in 1 .. Len(order) : next'[order[i]] = IF i = (Len(order) + 1) - 1 THEN e ELSE next[order[i]]
    BY <1>1, <1>4, <2>1, <2>4, <2>5 DEF Inv, Types
  <2>8. ListIsLinked' /\ order' \in Seq(Element)
    <3>1. Len(order) + 1 \in 1 .. Len(order) + 1 /\ Len(order) + 1 # 1
      BY <2>1
    <3>2. /\ order' = S!Inserted(order, e, Len(order) + 1)
          /\ first' = first /\ last' = e /\ numInList' = numInList + 1
          /\ alloc' = Cells(order) \cup {e} /\ element' = NULL
      BY <1>1, <1>4, <2>2, <2>3
    <3>3. QED BY Zenon, InsertStep, <1>1, <2>2, <2>6, <2>7, <3>1, <3>2
  <2>9. Types'
    <3>1. alloc' \subseteq Element /\ key' \in [Element -> Key]
      BY <1>1, <1>4, ListAssumption DEF Inv, Types
    <3>2. item' \in [Element -> Item \cup {NULL}]
      BY <1>1, <1>4 DEF Inv, Types
    <3>3. QED BY Zenon, <2>3, <2>6, <2>8, <3>1, <3>2 DEF Inv, Types
  <2>10. QED BY <2>2, <2>3, <2>8, <2>9 DEF Inv
<1>5. QED BY <1>3, <1>4

(* Prepend.                                                                   *)
LEMMA PrependStep ==
    ASSUME Inv, NEW x \in Item, Prepend(x)
    PROVE  Inv'
BY PutFirstStep, ListAssumption DEF Prepend

(* SortedInsert: in front, or aside until its loop has found the place.       *)
LEMMA SortedInsertStep ==
    ASSUME Inv, NEW x \in Item, NEW k \in Key, SortedInsert(x, k)
    PROVE  Inv'
<1>1. PICK e \in Element \ alloc :
        IF IsEmpty \/ k < key[first]
        THEN PutFirst(e, x, k) /\ UNCHANGED <<locals, ret, ok>>
        ELSE /\ New(e, x, k, NULL)
             /\ op' = "SortedInsert"
             /\ element' = e
             /\ ptr' = first
             /\ UNCHANGED <<heads, target, prev, ret, ok, order>>
  BY DEF SortedInsert
<1>2. Idle
  BY DEF SortedInsert
<1>3. CASE IsEmpty \/ k < key[first]
  BY <1>1, <1>2, <1>3, PutFirstStep
<1>4. CASE ~(IsEmpty \/ k < key[first])
  <2>1. /\ order \in Seq(Element) /\ Len(order) \in Nat /\ Len(order) # 0 /\ first = order[1]
        /\ \A i \in 1 .. Len(order) : order[i] \in Element
    BY <1>4, Ends
  <2>2. element = NULL /\ alloc = Cells(order) /\ e \notin Cells(order)
    BY <1>2, AllLinked, FreshElement DEF Idle
  <2>3. \A i \in 1 .. Len(order) : order[i] # e
    BY Zenon, <2>2 DEF Cells
  <2>4. /\ alloc' = alloc \cup {e} /\ item' = [item EXCEPT ![e] = x] /\ key' = [key EXCEPT ![e] = k]
        /\ next' = [next EXCEPT ![e] = NULL] /\ op' = "SortedInsert" /\ element' = e /\ ptr' = order[1]
        /\ UNCHANGED <<first, last, numInList, order, ok>>
    BY <1>1, <1>4, <2>1 DEF New, heads
  <2>5. Types'
    BY Zenon, <2>4 DEF Inv, Types
  <2>6. \A i \in 1 .. Len(order) : next'[order[i]] = next[order[i]] /\ key'[order[i]] = key[order[i]]
    BY <2>1, <2>3, <2>4 DEF Inv, Types
  <2>7. e # NULL
    BY Zenon, ListAssumption
  <2>8. ListIsLinked'
    <3>1. alloc' = {order'[i] : i \in 1 .. Len(order')} \cup (IF element' = NULL THEN {} ELSE {element'})
      BY <2>2, <2>4, <2>7 DEF Cells
    <3>2. QED BY Zenon, <2>3, <2>4, <2>6, <3>1 DEF Inv, ListIsLinked
  <2>9. Placing'
    <3>1. item'[e] = x /\ next'[e] = NULL /\ key'[e] = k
      BY <2>4 DEF Inv, Types
    <3>2. key'[order[1]] <= k
      <4>1. key[order[1]] \in Int /\ k \in Int
        BY <2>1, ListAssumption DEF Inv, Types
      <4>2. QED BY <4>1, <1>4, <2>1, <2>6
    <3>3. 1 \in 1 .. Len(order) /\ \A i \in 1 .. 1 : i = 1
      BY <2>1
    <3>4. QED BY <2>4, <3>1, <3>2, <3>3 DEF Placing
  <2>10. QED BY <2>4, <2>5, <2>7, <2>8, <2>9 DEF Inv
<1>5. QED BY <1>3, <1>4

(* Where the next pointer of an element leads.                                *)
LEMMA NextOf ==
    ASSUME Inv, NEW p \in 1 .. Len(order)
    PROVE  /\ next[order[p]] = IF p = Len(order) THEN NULL ELSE order[p + 1]
           /\ next[order[p]] = NULL <=> p = Len(order)
           /\ \A i \in 1 .. Len(order) : order[i] = order[p] => i = p
<1>1. next[order[p]] = IF p = Len(order) THEN NULL ELSE order[p + 1]
  BY DEF Inv, ListIsLinked
<1>2. p # Len(order) => order[p + 1] # NULL
  BY Ends
<1>3. QED BY <1>1, <1>2 DEF Inv, ListIsLinked

(* One iteration of the loop of SortedInsert.                                 *)
LEMMA SortedInsertLoopStep ==
    ASSUME Inv, SortedInsertLoop
    PROVE  Inv'
<1>1. op = "SortedInsert" /\ element # NULL /\ Placing
  BY DEF SortedInsertLoop, Inv
<1>2. PICK p \in 1 .. Len(order) : order[p] = ptr /\ \A i \in 1 .. p : key[order[i]] <= key[element]
  BY <1>1 DEF Placing
<1>3. /\ order \in Seq(Element) /\ Len(order) \in Nat /\ last = order[Len(order)]
      /\ \A i \in 1 .. Len(order) : order[i] \in Element
  BY Ends
<1>4. /\ next[ptr] = IF p = Len(order) THEN NULL ELSE order[p + 1]
      /\ next[ptr] = NULL <=> p = Len(order)
      /\ \A i \in 1 .. Len(order) : order[i] = ptr => i = p
  BY <1>2, NextOf
<1>5. /\ element \in Element /\ next[element] = NULL /\ item[element] \in Item
      /\ alloc = Cells(order) \cup {element}
      /\ \A i \in 1 .. Len(order) : order[i] # element
  BY <1>1 DEF Inv, Types, ListIsLinked, Placing, Cells
<1>6. next \in [Element -> Element \cup {NULL}]
  BY DEF Inv, Types
<1>7. ASSUME LinkAfter
      PROVE  /\ order' = S!Inserted(order, element, p + 1)
             /\ op' = "none" /\ element' = NULL /\ numInList' = numInList + 1
             /\ UNCHANGED <<alloc, key, item, first, ok>>
  BY <1>4, <1>7 DEF LinkAfter, Return
<1>8. ASSUME LinkAfter,
             next' \in [Element -> Element \cup {NULL}],
             next'[element] = IF p = Len(order) THEN NULL ELSE order[p + 1],
             \A i \in 1 .. Len(order) : next'[order[i]] = IF i = p THEN element ELSE next[order[i]],
             last' = IF p = Len(order) THEN element ELSE last
      PROVE  Inv'
  <2>1. /\ p + 1 \in 1 .. Len(order) + 1 /\ p + 1 # 1 /\ (p + 1) - 1 = p
        /\ (p + 1 = Len(order) + 1 <=> p = Len(order))
    BY <1>3
  <2>2. element \notin Cells(order)
    BY Zenon, <1>5 DEF Cells
  <2>3. \A i \in 1 .. Len(order) : next'[order[i]] = IF i = (p + 1) - 1 THEN element ELSE next[order[i]]
    BY <1>8, <2>1
  <2>4. next'[element] = IF p + 1 = Len(order) + 1 THEN NULL ELSE order[p + 1]
    BY <1>8, <2>1
  <2>5. last' = IF p + 1 = Len(order) + 1 THEN element ELSE last
    BY Zenon, <1>8, <2>1
  <2>6. first' = IF p + 1 = 1 THEN element ELSE first
    BY Zenon, <1>8, <1>7, <2>1
  <2>7. ListIsLinked' /\ order' \in Seq(Element)
    BY Zenon, InsertStep, <1>5, <1>7, <1>8, <2>1, <2>2, <2>3, <2>4, <2>5, <2>6
  <2>8. Types'
    BY Zenon, <1>7, <1>8, <2>7 DEF Inv, Types
  <2>9. QED BY <1>7, <1>8, <2>7, <2>8 DEF Inv
<1>9. CASE next[ptr] = NULL
  <2>1. /\ next' = [next EXCEPT ![last] = element] /\ last' = element /\ LinkAfter
        /\ p = Len(order)
    BY Zenon, <1>4, <1>9 DEF SortedInsertLoop
  <2>2. /\ next' \in [Element -> Element \cup {NULL}]
        /\ next'[element] = NULL
        /\ \A i \in 1 .. Len(order) : next'[order[i]] = IF i = p THEN element ELSE next[order[i]]
    BY Zenon, <1>2, <1>3, <1>4, <1>5, <1>6, <2>1
  <2>3. QED BY <1>8, <2>1, <2>2
<1>10. CASE next[ptr] # NULL /\ key[element] < key[next[ptr]]
  <2>1. /\ next' = [next EXCEPT ![element] = next[ptr], ![ptr] = element] /\ last' = last /\ LinkAfter
        /\ p # Len(order)
    BY <1>4, <1>10 DEF SortedInsertLoop
  <2>2. ptr \in Element /\ ptr # element /\ next[ptr] \in Element \cup {NULL}
    BY <1>2, <1>3, <1>5, <1>6
  <2>3. /\ next' \in [Element -> Element \cup {NULL}]
        /\ next'[element] = next[ptr]
        /\ \A i \in 1 .. Len(order) : next'[order[i]] = IF i = p THEN element ELSE next[order[i]]
    BY <1>2, <1>3, <1>4, <1>5, <1>6, <2>1, <2>2
  <2>4. QED BY Zenon, <1>4, <1>8, <2>1, <2>3
<1>11. CASE next[ptr] # NULL /\ ~(key[element] < key[next[ptr]])
  <2>1. /\ ptr' = next[ptr]
        /\ UNCHANGED <<cells, heads, op, element, target, prev, ret, ok, order>>
    BY Zenon, <1>11 DEF SortedInsertLoop
  <2>2. /\ ptr' = order[p + 1] /\ p + 1 \in 1 .. Len(order)
        /\ UNCHANGED <<alloc, next, key, item, first, last, numInList, op, element, ok, order>>
    BY <1>3, <1>4, <1>11, <2>1 DEF cells, heads
  <2>3. key[order[p + 1]] <= key[element]
    <3>1. key[order[p + 1]] \in Int /\ key[element] \in Int
      BY Zenon, <1>3, <1>5, <2>2, ListAssumption DEF Inv, Types
    <3>2. QED BY <3>1, <1>11, <2>1, <2>2
  <2>4. \A i \in 1 .. p + 1 : i \in 1 .. p \/ i = p + 1
    OBVIOUS
  <2>5. Placing'
    BY <1>2, <1>5, <2>2, <2>3, <2>4 DEF Placing
  <2>6. Types' /\ ListIsLinked'
    BY <2>2 DEF Inv, Types, ListIsLinked
  <2>7. QED BY <1>1, <2>2, <2>5, <2>6 DEF Inv
<1>12. QED BY <1>9, <1>10, <1>11

(* Remove and SortedRemove.                                                   *)
LEMMA RemoveFirstStep ==
    ASSUME Inv, op # "SortedInsert", op # "Remove", SortedRemove,
           UNCHANGED <<element, ok>>, op' \in {"none", "~List"}
    PROVE  Inv'
<1>1. CASE IsEmpty
  <2>1. UNCHANGED <<alloc, next, key, item, first, last, numInList, order>>
    BY Zenon, <1>1 DEF SortedRemove, cells, heads
  <2>2. Types' /\ ListIsLinked'
    BY <2>1 DEF Inv, Types, ListIsLinked
  <2>3. QED BY <2>2, AllLinked DEF Inv
<1>2. CASE ~IsEmpty
  BY <1>2, Ends, TakeFirstStep DEF SortedRemove
<1>3. QED BY <1>1, <1>2

(* An item that is not found: nothing moves.                                  *)
LEMMA FailStep ==
    ASSUME Inv, ok' = FALSE,
           UNCHANGED <<alloc, next, key, item, first, last, numInList, order>>,
           UNCHANGED <<op, element, target, prev, ptr>>
    PROVE  Inv'
<1>1. ok' \in BOOLEAN
  BY Zenon
<1>2. ListIsLinked'
  BY DEF Inv, ListIsLinked
<1>3. Types'
  BY Zenon, <1>1 DEF Inv, Types
<1>4. Placing' = Placing /\ Looking' = Looking
  BY Zenon DEF Placing, Looking
<1>5. QED BY <1>2, <1>3, <1>4 DEF Inv

(* Remove(item) before its loop.                                              *)
LEMMA RemoveItemStep ==
    ASSUME Inv, NEW x \in Item, RemoveItem(x)
    PROVE  Inv'
<1>1. op = "none"
  BY DEF RemoveItem, Idle
<1>2. CASE IsEmpty
  <2>1. /\ ok' = FALSE /\ UNCHANGED <<alloc, next, key, item, first, last, numInList, order>>
        /\ UNCHANGED <<op, element, target, prev, ptr>>
    BY <1>2 DEF RemoveItem, cells, heads, locals
  <2>2. QED BY Zenon, <1>1, <2>1, FailStep
<1>3. CASE ~IsEmpty /\ x = item[first]
  <2>1. TakeFirst /\ UNCHANGED <<op, element, ok>>
    BY Zenon, <1>3 DEF RemoveItem, locals
  <2>2. QED BY <1>1, <1>3, <2>1, Ends, TakeFirstStep
<1>4. CASE ~IsEmpty /\ x # item[first]
  <2>1. /\ op' = "Remove" /\ target' = x /\ prev' = first /\ ptr' = next[first]
        /\ UNCHANGED <<alloc, next, key, item, first, last, numInList, order, element, ok>>
    BY <1>4 DEF RemoveItem, cells, heads
  <2>2. Types' /\ ListIsLinked'
    BY <2>1 DEF Inv, Types, ListIsLinked
  <2>3. Len(order) \in Nat /\ Len(order) # 0 /\ first = order[1]
    BY Zenon, <1>4, Ends
  <2>4. Looking'
    <3>1. 1 \in 1 .. Len(order) /\ 2 \in 2 .. Len(order) + 1 /\ (2 = Len(order) + 1 <=> 1 = Len(order))
      BY <2>3
    <3>2. next[order[1]] = IF 1 = Len(order) THEN NULL ELSE order[1 + 1]
      BY <3>1, NextOf
    <3>3. /\ prev' = order[2 - 1]
          /\ ptr' = IF 2 = Len(order) + 1 THEN NULL ELSE order[2]
          /\ \A i \in 1 .. 2 - 1 : item[order[i]] # x
      BY <1>4, <2>1, <2>3, <3>1, <3>2
    <3>4. QED BY <2>1, <3>1, <3>3 DEF Looking
  <2>5. element = NULL
    BY <1>1, AllLinked
  <2>6. QED BY <2>1, <2>2, <2>4, <2>5 DEF Inv
<1>5. QED BY <1>2, <1>3, <1>4

(* One iteration of the loop of Remove(item).                                 *)
LEMMA RemoveItemLoopStep ==
    ASSUME Inv, RemoveItemLoop
    PROVE  Inv'
<1>1. op = "Remove" /\ Looking /\ element = NULL /\ alloc = Cells(order)
  BY AllLinked DEF RemoveItemLoop, Inv
<1>2. PICK p \in 2 .. Len(order) + 1 :
        /\ prev = order[p - 1]
        /\ ptr = IF p = Len(order) + 1 THEN NULL ELSE order[p]
        /\ \A i \in 1 .. p - 1 : item[order[i]] # target
  BY <1>1 DEF Looking
<1>3. /\ order \in Seq(Element) /\ Len(order) \in Nat
      /\ \A i \in 1 .. Len(order) : order[i] \in Element /\ order[i] # NULL
  BY Ends
<1>4. ptr = NULL <=> p = Len(order) + 1
  BY <1>2, <1>3
<1>5. CASE ptr = NULL
  <2>1. /\ ok' = FALSE /\ UNCHANGED <<alloc, next, key, item, first, last, numInList, order>>
        /\ UNCHANGED <<op, element, target, prev, ptr>>
    BY Zenon, <1>5 DEF RemoveItemLoop, cells, heads, locals
  <2>2. QED BY Zenon, <2>1, FailStep
<1>6. ASSUME ptr # NULL
      PROVE  /\ p \in 1 .. Len(order) /\ p - 1 \in 1 .. Len(order) /\ p # 1 /\ ptr = order[p]
             /\ next[ptr] = IF p = Len(order) THEN NULL ELSE order[p + 1]
             /\ next[ptr] = NULL <=> p = Len(order)
             /\ \A i \in 1 .. Len(order) : order[i] = ptr => i = p
             /\ \A i \in 1 .. Len(order) : order[i] = prev => i = p - 1
  <2>1. p \in 1 .. Len(order) /\ p - 1 \in 1 .. Len(order) /\ p # 1 /\ ptr = order[p]
    BY <1>2, <1>3, <1>4, <1>6
  <2>2. QED BY Zenon, <1>2, <2>1, NextOf
<1>7. CASE ptr # NULL /\ target = item[ptr]
  <2>1. /\ next' = [next EXCEPT ![prev] = next[ptr], ![ptr] = NULL]
        /\ last' = IF next[ptr] = NULL THEN prev ELSE last
        /\ Delete(ptr) /\ numInList' = numInList - 1
        /\ \E i \in 1 .. Len(order) : order[i] = ptr /\ order' = S!Without(order, i)
        /\ op' = "none" /\ element' = NULL
        /\ UNCHANGED <<first, ok>>
    BY <1>7 DEF RemoveItemLoop, Return
  <2>2. order' = S!Without(order, p)
    BY Zenon, <1>6, <1>7, <2>1
  <2>3. prev \in Element /\ ptr \in Element /\ next \in [Element -> Element \cup {NULL}]
    BY <1>2, <1>3, <1>6, <1>7 DEF Inv, Types
  <2>4. next[ptr] \in Element \cup {NULL}
    BY Zenon, <2>3
  <2>5. \A i \in 1 .. Len(order) : i # p =>
          next'[order[i]] = IF i = p - 1 THEN next[order[p]] ELSE next[order[i]]
    <3> SUFFICES ASSUME NEW i \in 1 .. Len(order), i # p
                 PROVE  next'[order[i]] = IF i = p - 1 THEN next[order[p]] ELSE next[order[i]]
      BY Zenon
    <3>1. order[i] \in Element /\ order[i] # ptr /\ (order[i] = prev <=> i = p - 1) /\ ptr = order[p]
      BY Zenon, <1>2, <1>3, <1>6, <1>7
    <3>2. QED BY <2>1, <2>3, <3>1
  <2>6. ListIsLinked' /\ order' \in Seq(Element)
    <3>1. alloc' = alloc \ {order[p]}
      BY Zenon, <1>6, <1>7, <2>1 DEF Delete
    <3>2. last' = IF p = Len(order) THEN (IF p = 1 THEN NULL ELSE order[p - 1]) ELSE last
      BY <1>2, <1>6, <1>7, <2>1
    <3>3. first' = IF p = 1 THEN next[order[1]] ELSE first
      BY Zenon, <1>6, <1>7, <2>1
    <3>4. QED BY Zenon, RemoveStep, <1>1, <1>6, <1>7, <2>1, <2>2, <2>5, <3>1, <3>2, <3>3
  <2>7. Types'
    <3>1. next' \in [Element -> Element \cup {NULL}]
      BY Zenon, <2>1, <2>3, <2>4
    <3>2. /\ key' \in [Element -> Key] /\ item' \in [Element -> Item \cup {NULL}]
          /\ alloc' \subseteq Element
      BY <2>1, ListAssumption DEF Delete, Inv, Types
    <3>3. QED BY <2>1, <2>6, <3>1, <3>2 DEF Inv, Types
  <2>8. QED BY Zenon, <2>1, <2>6, <2>7 DEF Inv
<1>8. CASE ptr # NULL /\ target # item[ptr]
  <2>1. /\ prev' = ptr /\ ptr' = next[ptr]
        /\ UNCHANGED <<alloc, next, key, item, first, last, numInList>>
        /\ UNCHANGED <<op, element, target, ok, order>>
    BY Zenon, <1>8 DEF RemoveItemLoop, cells, heads
  <2>2. Types' /\ ListIsLinked'
    BY <2>1 DEF Inv, Types, ListIsLinked
  <2>3. Looking'
    <3>1. /\ p + 1 \in 2 .. Len(order) + 1 /\ (p + 1) - 1 = p
          /\ (p + 1 = Len(order) + 1 <=> p = Len(order))
          /\ \A i \in 1 .. (p + 1) - 1 : i \in 1 .. p - 1 \/ i = p
      BY <1>3, <1>6, <1>8
    <3>2. /\ prev' = order[(p + 1) - 1]
          /\ ptr' = IF p + 1 = Len(order) + 1 THEN NULL ELSE order[p + 1]
          /\ \A i \in 1 .. (p + 1) - 1 : item[order[i]] # target
      BY Zenon, <1>2, <1>6, <1>8, <2>1, <3>1
    <3>3. target \in Item
      BY <1>1 DEF Looking
    <3>4. QED BY Zenon, <2>1, <3>1, <3>2, <3>3 DEF Looking
  <2>4. QED BY Zenon, <1>1, <2>1, <2>2, <2>3 DEF Inv
<1>9. QED BY <1>5, <1>7, <1>8

(* No step breaks the invariant.                                              *)
LEMMA StepKeepsInv ==
    ASSUME Inv, [Next]_vars
    PROVE  Inv'
<1>1. CASE \E x \in Item : Append0(x) \/ Prepend(x) \/ RemoveItem(x)
  BY <1>1, AppendStep, PrependStep, RemoveItemStep
<1>2. CASE \E x \in Item, k \in Key : SortedInsert(x, k)
  BY <1>2, SortedInsertStep
<1>3. CASE Remove
  <2>1. op = "none" /\ SortedRemove /\ UNCHANGED <<op, element, ok>>
    BY <1>3 DEF Remove, Idle, locals
  <2>2. QED BY <2>1, RemoveFirstStep
<1>4. CASE SortedInsertLoop
  BY <1>4, SortedInsertLoopStep
<1>5. CASE RemoveItemLoop
  BY <1>5, RemoveItemLoopStep
<1>6. CASE Destroy
  <2>1. /\ op = "none" /\ op' = "~List"
        /\ UNCHANGED <<alloc, next, key, item, first, last, numInList, order, element, ok>>
    BY Zenon, <1>6 DEF Destroy, Idle, cells, heads
  <2>2. Types' /\ ListIsLinked'
    BY <2>1 DEF Inv, Types, ListIsLinked
  <2>3. QED BY <2>1, <2>2 DEF Inv
<1>7. CASE DestroyLoop
  <2>1. op = "~List" /\ SortedRemove /\ UNCHANGED <<element, ok>> /\ op' \in {"none", "~List"}
    BY <1>7 DEF DestroyLoop
  <2>2. QED BY <2>1, RemoveFirstStep
<1>8. CASE UNCHANGED vars
  <2>1. /\ UNCHANGED <<alloc, next, key, item, first, last, numInList, order>>
        /\ UNCHANGED <<op, element, target, prev, ptr, ok>>
    BY Zenon, <1>8 DEF vars, cells, heads, locals
  <2>2. Types' /\ ListIsLinked'
    BY <2>1 DEF Inv, Types, ListIsLinked
  <2>3. Placing' = Placing
    BY Zenon, <2>1 DEF Placing
  <2>4. Looking' = Looking
    BY <2>1 DEF Looking
  <2>5. QED BY Zenon, <2>1, <2>2, <2>3, <2>4 DEF Inv
<1>9. QED BY <1>1, <1>2, <1>3, <1>4, <1>5, <1>6, <1>7, <1>8 DEF Next, Stopped

(* A new list.                                                                *)
LEMMA InitHasInv ==
    ASSUME Init
    PROVE  Inv
<1>1. Types
  BY ListAssumption DEF Init, Types
<1>2. ListIsLinked
  BY DEF Init, ListIsLinked
<1>3. QED BY Zenon, <1>1, <1>2 DEF Init, Inv

(* Whatever is called on a list, of any length: the links, first, last and    *)
(* numInList are right at every step of every operation of list.cc.           *)
THEOREM AlwaysLinked == Spec => []ListIsLinked
<1>1. Inv => ListIsLinked
  BY Zenon DEF Inv
<1>2. QED BY <1>1, InitHasInv, StepKeepsInv, PTL DEF Spec
-----------------------------------------------------------------------------
(* The refinement.  Entries is the sequence that the elements stand for.      *)
Entries == [i \in 1 .. Len(order) |-> [item |-> item[order[i]], key |-> key[order[i]]]]

(* What the entries are, one by one.                                          *)
LEMMA EntriesAre ==
    ASSUME Inv
    PROVE  /\ Len(Entries) = Len(order) /\ Len(Entries) \in Nat
           /\ \A i \in 1 .. Len(order) :
                Entries[i].item = item[order[i]] /\ Entries[i].key = key[order[i]]
<1>1. Len(order) \in Nat
  BY Zenon, Ends
<1>2. QED BY <1>1 DEF Entries

(* Cells that keep their items and keys stand for the same entries.           *)
LEMMA SameEntries ==
    ASSUME Inv, order' = order,
           \A i \in 1 .. Len(order) : item'[order[i]] = item[order[i]] /\ key'[order[i]] = key[order[i]]
    PROVE  Entries' = Entries
BY Zenon DEF Entries

(* Element e goes to position j, with an item and a key.                      *)
Enters(e, x, k, j) ==
    /\ j \in 1 .. Len(order) + 1
    /\ order' = S!Inserted(order, e, j)
    /\ item'[e] = x /\ key'[e] = k
    /\ \A i \in 1 .. Len(order) : item'[order[i]] = item[order[i]] /\ key'[order[i]] = key[order[i]]

(* An element put in at position j is an entry inserted there.                *)
LEMMA MoreEntries ==
    ASSUME Inv, NEW e \in Element, NEW x, NEW k, NEW j, Enters(e, x, k, j)
    PROVE  Entries' = S!Inserted(Entries, [item |-> x, key |-> k], j)
<1>1. order \in Seq(Element) /\ Len(order) \in Nat
  BY Ends
<1>0. j \in 1 .. Len(order) + 1
  BY DEF Enters
<1>a. order' = S!Inserted(order, e, j) /\ item'[e] = x /\ key'[e] = k
  BY Zenon DEF Enters
<1>b. \A i \in 1 .. Len(order) : item'[order[i]] = item[order[i]] /\ key'[order[i]] = key[order[i]]
  BY DEF Enters
<1>2. /\ Len(order') = Len(order) + 1
      /\ \A i \in 1 .. Len(order) + 1 :
            order'[i] = IF i < j THEN order[i] ELSE IF i = j THEN e ELSE order[i - 1]
  <2>1. /\ Len(S!Inserted(order, e, j)) = Len(order) + 1
        /\ \A i \in 1 .. Len(order) + 1 :
            S!Inserted(order, e, j)[i] = IF i < j THEN order[i] ELSE IF i = j THEN e ELSE order[i - 1]
    BY <1>0, <1>1, InsertedIs
  <2>2. order' = S!Inserted(order, e, j)
    BY Zenon, <1>a
  <2>3. QED BY <2>1, <2>2, Zenon
<1>3. Len(Entries) = Len(order)
  BY Zenon, EntriesAre
<1>4. S!Inserted(Entries, [item |-> x, key |-> k], j) =
        [i \in 1 .. Len(order) + 1 |->
            IF i < j THEN Entries[i] ELSE IF i = j THEN [item |-> x, key |-> k] ELSE Entries[i - 1]]
  BY <1>3 DEF S!Inserted
<1>5. Entries' = [i \in 1 .. Len(order) + 1 |-> [item |-> item'[order'[i]], key |-> key'[order'[i]]]]
  <2>1. Entries' = [i \in 1 .. Len(order') |-> [item |-> item'[order'[i]], key |-> key'[order'[i]]]]
    BY Zenon DEF Entries
  <2>2. Len(order') = Len(order) + 1
    BY Zenon, <1>2
  <2>3. QED BY <2>1, <2>2, Zenon
<1>6. ASSUME NEW i \in 1 .. Len(order) + 1
      PROVE  [item |-> item'[order'[i]], key |-> key'[order'[i]]] =
                IF i < j THEN Entries[i] ELSE IF i = j THEN [item |-> x, key |-> k] ELSE Entries[i - 1]
  <2>1. CASE i < j
    <3>0. i \in 1 .. Len(order)
      BY <1>0, <1>1, <2>1
    <3>1. i \in 1 .. Len(order) /\ order'[i] = order[i]
      BY Zenon, <1>2, <2>1, <3>0
    <3>2. QED BY <1>b, <2>1, <3>1 DEF Entries
  <2>2. CASE i = j
    <3>1. order'[i] = e /\ ~(i < j)
      BY <1>0, <1>1, <1>2, <2>2
    <3>2. QED BY Zenon, <1>a, <2>2, <3>1
  <2>3. CASE i > j
    <3>0. i - 1 \in 1 .. Len(order) /\ ~(i < j) /\ i # j
      BY <1>0, <1>1, <2>3
    <3>1. order'[i] = order[i - 1]
      BY Zenon, <1>2, <3>0
    <3>2. QED BY <1>b, <3>0, <3>1 DEF Entries
  <2>4. i < j \/ i = j \/ i > j
    BY <1>0, <1>1
  <2>5. QED BY Zenon, <2>1, <2>2, <2>3, <2>4
<1>7. QED BY Zenon, <1>4, <1>5, <1>6

(* An element taken out at position j is an entry removed there.              *)
LEMMA LessEntries ==
    ASSUME Inv, NEW j \in 1 .. Len(order),
           order' = S!Without(order, j),
           \A i \in 1 .. Len(order) : i # j =>
                item'[order[i]] = item[order[i]] /\ key'[order[i]] = key[order[i]]
    PROVE  Entries' = S!Without(Entries, j)
<1>1. order \in Seq(Element) /\ Len(order) \in Nat
  BY Zenon, Ends
<1>2. /\ Len(order') = Len(order) - 1
      /\ \A i \in 1 .. Len(order) - 1 : order'[i] = IF i < j THEN order[i] ELSE order[i + 1]
  BY <1>1, WithoutIs DEF S!Without
<1>3. Len(Entries) = Len(order)
  BY EntriesAre
<1>4. S!Without(Entries, j) =
        [i \in 1 .. Len(order) - 1 |-> IF i < j THEN Entries[i] ELSE Entries[i + 1]]
  BY <1>3 DEF S!Without
<1>5. Entries' = [i \in 1 .. Len(order) - 1 |-> [item |-> item'[order'[i]], key |-> key'[order'[i]]]]
  <2>1. Entries' = [i \in 1 .. Len(order') |-> [item |-> item'[order'[i]], key |-> key'[order'[i]]]]
    BY DEF Entries
  <2>2. Len(order') = Len(order) - 1
    BY Zenon, <1>2
  <2>3. QED BY <2>1, <2>2, Zenon
<1>6. ASSUME NEW i \in 1 .. Len(order) - 1
      PROVE  [item |-> item'[order'[i]], key |-> key'[order'[i]]] =
                IF i < j THEN Entries[i] ELSE Entries[i + 1]
  <2>1. CASE i < j
    <3>1. i \in 1 .. Len(order) /\ order'[i] = order[i] /\ i # j
      BY <1>1, <1>2, <2>1
    <3>2. QED BY Zenon, <2>1, <3>1 DEF Entries
  <2>2. CASE ~(i < j)
    <3>1. i + 1 \in 1 .. Len(order) /\ order'[i] = order[i + 1] /\ i + 1 # j
      BY <1>1, <1>2, <2>2
    <3>2. QED BY Zenon, <2>2, <3>1 DEF Entries
  <2>3. QED BY Zenon, <2>1, <2>2
<1>7. QED BY Zenon, <1>4, <1>5, <1>6

(* PutFirst, whoever calls it.                                                *)
LEMMA PutFirstEntries ==
    ASSUME Inv, Idle, NEW e \in Element \ alloc, NEW x \in Item, NEW k \in Key, PutFirst(e, x, k)
    PROVE  Entries' = S!Inserted(Entries, [item |-> x, key |-> k], 1)
<1>1. order \in Seq(Element) /\ Len(order) \in Nat /\ \A i \in 1 .. Len(order) : order[i] \in Element
  BY Zenon, Ends
<1>2. \A i \in 1 .. Len(order) : order[i] # e
  BY FreshElement DEF Cells
<1>3. item' = [item EXCEPT ![e] = x] /\ key' = [key EXCEPT ![e] = k] /\ order' = S!Inserted(order, e, 1)
  BY Zenon DEF PutFirst, New
<1>4. /\ item'[e] = x /\ key'[e] = k
      /\ \A i \in 1 .. Len(order) : item'[order[i]] = item[order[i]] /\ key'[order[i]] = key[order[i]]
  BY <1>1, <1>2, <1>3 DEF Inv, Types
<1>5. 1 \in 1 .. Len(order) + 1
  BY <1>1
<1>6. Enters(e, x, k, 1)
  BY Zenon, <1>3, <1>4, <1>5 DEF Enters
<1>7. QED BY <1>6, MoreEntries

(* TakeFirst, whoever calls it.                                               *)
LEMMA TakeFirstEntries ==
    ASSUME Inv, ~IsEmpty, TakeFirst
    PROVE  /\ Entries # <<>> /\ 1 \in 1 .. Len(Entries)
           /\ Entries' = S!Without(Entries, 1)
           /\ Entries[1] = [item |-> item[first], key |-> key[first]]
<1>1. /\ order \in Seq(Element) /\ Len(order) \in Nat /\ Len(order) # 0 /\ first = order[1]
      /\ \A i \in 1 .. Len(order) : order[i] \in Element
  BY Ends
<1>2. 1 \in 1 .. Len(order)
  BY <1>1
<1>3. \A i \in 1 .. Len(order) : i # 1 => order[i] # order[1]
  BY Zenon, <1>2 DEF Inv, ListIsLinked
<1>4. item' = [item EXCEPT ![order[1]] = NULL] /\ key' = [key EXCEPT ![order[1]] = 0]
  BY Zenon, <1>1 DEF TakeFirst, Delete
<1>5. \A i \in 1 .. Len(order) : i # 1 =>
            item'[order[i]] = item[order[i]] /\ key'[order[i]] = key[order[i]]
  BY <1>1, <1>3, <1>4 DEF Inv, Types
<1>6. order' = S!Without(order, 1)
  BY Zenon DEF TakeFirst
<1>7. Entries' = S!Without(Entries, 1)
  BY Zenon, <1>2, <1>5, <1>6, LessEntries
<1>8. Len(Entries) = Len(order)
  BY Zenon, EntriesAre
<1>9. Entries[1] = [item |-> item[first], key |-> key[first]]
  BY Zenon, <1>1, <1>2 DEF Entries
<1>10. QED BY <1>1, <1>2, <1>7, <1>8, <1>9

(* SortedInsert of ListSpec.                                                  *)
LEMMA AbstractInsert ==
    ASSUME ok, NEW x \in Item, NEW k \in Key, NEW j \in 1 .. Len(Entries) + 1,
           \A i \in 1 .. j - 1 : Entries[i].key <= k,
           j <= Len(Entries) => k < Entries[j].key,
           Entries' = S!Inserted(Entries, [item |-> x, key |-> k], j),
           UNCHANGED <<ret, ok>>
    PROVE  S!Next
<1>1. S!SortedPosition(Entries, k, j)
  BY Zenon DEF S!SortedPosition
<1>2. S!SortedInsert(x, k)
  BY Zenon, <1>1 DEF S!SortedInsert, Entries
<1>3. QED BY Zenon, <1>2 DEF S!Next

(* Append of ListSpec.                                                        *)
LEMMA AbstractAppend ==
    ASSUME ok, NEW x \in Item,
           Entries' = S!Inserted(Entries, [item |-> x, key |-> 0], Len(Entries) + 1),
           UNCHANGED <<ret, ok>>
    PROVE  S!Next
<1>1. S!Append0(x)
  BY Zenon DEF S!Append0, Entries
<1>2. QED BY Zenon, <1>1 DEF S!Next

(* Prepend of ListSpec.                                                       *)
LEMMA AbstractPrepend ==
    ASSUME ok, NEW x \in Item,
           Entries' = S!Inserted(Entries, [item |-> x, key |-> 0], 1),
           UNCHANGED <<ret, ok>>
    PROVE  S!Next
<1>1. S!Prepend(x)
  BY DEF S!Prepend, Entries
<1>2. QED BY <1>1 DEF S!Next

(* Remove(item) of ListSpec.                                                  *)
LEMMA AbstractRemoveItem ==
    ASSUME ok, NEW x \in Item, NEW j \in 1 .. Len(Entries),
           Entries[j].item = x,
           \A i \in 1 .. j - 1 : Entries[i].item # x,
           Entries' = S!Without(Entries, j),
           UNCHANGED <<ret, ok>>
    PROVE  S!Next
<1>1. S!RemoveItem(x)
  BY Zenon DEF S!RemoveItem, Entries
<1>2. QED BY Zenon, <1>1 DEF S!Next

(* Remove(item) of ListSpec, of an item that is not there.                    *)
LEMMA AbstractMiss ==
    ASSUME ok, NEW x \in Item,
           \A i \in 1 .. Len(Entries) : Entries[i].item # x,
           ok' = FALSE, Entries' = Entries, ret' = ret
    PROVE  S!Next
<1>1. S!Miss(x)
  BY Zenon DEF S!Miss, Entries
<1>2. QED BY <1>1 DEF S!Next

(* No step of ListSpec.                                                       *)
LEMMA AbstractStutter ==
    ASSUME Entries' = Entries, UNCHANGED <<ret, ok>>
    PROVE  UNCHANGED S!vars
BY DEF S!vars, Entries

(* Remove() and SortedRemove().                                               *)
LEMMA SortedRemoveRefines ==
    ASSUME Inv, ok, SortedRemove, ok' = ok
    PROVE  S!Next
<1>1. CASE IsEmpty
  <2>1. ret' = NULL /\ UNCHANGED <<order, item, key>>
    BY <1>1 DEF SortedRemove, cells
  <2>2. Len(order) = 0
    BY Zenon, <1>1, Ends
  <2>3. Entries = <<>>
    BY <2>2 DEF Entries
  <2>4. Entries' = Entries
    BY Zenon, <2>1 DEF Entries
  <2>5. S!RemoveNone
    BY <2>1, <2>3, <2>4 DEF S!RemoveNone, Entries
  <2>6. QED BY <2>5 DEF S!Next
<1>2. CASE ~IsEmpty
  <2>1. ret' = [item |-> item[first], key |-> key[first]] /\ TakeFirst
    BY Zenon, <1>2 DEF SortedRemove
  <2>2. /\ Entries # <<>> /\ Entries' = S!Without(Entries, 1)
        /\ Entries[1] = [item |-> item[first], key |-> key[first]]
    BY Zenon, <1>2, <2>1, TakeFirstEntries
  <2>3. S!RemoveFirst
    BY Zenon, <2>1, <2>2 DEF S!RemoveFirst, Entries
  <2>4. QED BY Zenon, <2>3 DEF S!Next
<1>3. QED BY <1>1, <1>2

(* Append.                                                                    *)
LEMMA AppendRefines ==
    ASSUME Inv, NEW x \in Item, Append0(x)
    PROVE  S!Next
<1>1. PICK e \in Element \ alloc :
        IF IsEmpty
        THEN PutFirst(e, x, 0)
        ELSE /\ item' = [item EXCEPT ![e] = x]
             /\ key'  = [key EXCEPT ![e] = 0]
             /\ order' = S!Inserted(order, e, Len(order) + 1)
  BY Zenon DEF Append0
<1>2. Idle /\ ok /\ UNCHANGED <<ret, ok>> /\ 0 \in Key
  BY ListAssumption DEF Append0, Idle
<1>3. /\ order \in Seq(Element) /\ Len(order) \in Nat /\ (IsEmpty <=> Len(order) = 0)
      /\ \A i \in 1 .. Len(order) : order[i] \in Element
  BY Zenon, Ends
<1>4. Len(Entries) = Len(order)
  BY Zenon, EntriesAre
<1>5. Entries' = S!Inserted(Entries, [item |-> x, key |-> 0], Len(order) + 1)
  <2>1. CASE IsEmpty
    <3>1. Entries' = S!Inserted(Entries, [item |-> x, key |-> 0], 1)
      BY <1>1, <1>2, <2>1, PutFirstEntries
    <3>2. Len(order) + 1 = 1
      BY <1>3, <2>1
    <3>3. QED BY Zenon, <3>1, <3>2
  <2>2. CASE ~IsEmpty
    <3>1. \A i \in 1 .. Len(order) : order[i] # e
      BY Zenon, FreshElement DEF Cells
    <3>2. /\ item'[e] = x /\ key'[e] = 0
          /\ \A i \in 1 .. Len(order) : item'[order[i]] = item[order[i]] /\ key'[order[i]] = key[order[i]]
      BY <1>1, <1>3, <2>2, <3>1 DEF Inv, Types
    <3>3. Len(order) + 1 \in 1 .. Len(order) + 1
      BY <1>3
    <3>4. Enters(e, x, 0, Len(order) + 1)
      BY <1>1, <2>2, <3>2, <3>3 DEF Enters
    <3>5. QED BY Zenon, <3>4, MoreEntries
  <2>3. QED BY <2>1, <2>2
<1>6. QED BY Zenon, <1>2, <1>4, <1>5, AbstractAppend

(* SortedInsert before its loop.                                              *)
LEMMA SortedInsertRefines ==
    ASSUME Inv, NEW x \in Item, NEW k \in Key, SortedInsert(x, k)
    PROVE  S!Next \/ UNCHANGED S!vars
<1>1. PICK e \in Element \ alloc :
        IF IsEmpty \/ k < key[first]
        THEN PutFirst(e, x, k) /\ UNCHANGED <<ret, ok>>
        ELSE /\ item' = [item EXCEPT ![e] = x]
             /\ key' = [key EXCEPT ![e] = k]
             /\ UNCHANGED <<ret, ok, order>>
  BY DEF SortedInsert, New
<1>2. Idle /\ ok
  BY DEF SortedInsert, Idle
<1>3. /\ order \in Seq(Element) /\ Len(order) \in Nat /\ (IsEmpty <=> Len(order) = 0)
      /\ (Len(order) # 0 => first = order[1])
      /\ \A i \in 1 .. Len(order) : order[i] \in Element
  BY Ends
<1>4. CASE IsEmpty \/ k < key[first]
  <2>1. Entries' = S!Inserted(Entries, [item |-> x, key |-> k], 1) /\ UNCHANGED <<ret, ok>>
    BY Zenon, <1>1, <1>2, <1>4, PutFirstEntries
  <2>2. /\ Len(Entries) = Len(order)
        /\ \A i \in 1 .. Len(order) : Entries[i].key = key[order[i]]
    BY Zenon, EntriesAre
  <2>3. 1 <= Len(Entries) => k < Entries[1].key
    BY <1>3, <1>4, <2>2
  <2>4. 1 \in 1 .. Len(Entries) + 1 /\ 1 .. 1 - 1 = {}
    BY <1>3, <2>2
  <2>5. S!Next
    BY <1>2, <2>1, <2>3, <2>4, AbstractInsert
  <2>6. QED BY Zenon, <2>5
<1>5. CASE ~(IsEmpty \/ k < key[first])
  <2>1. \A i \in 1 .. Len(order) : order[i] # e
    BY Zenon, FreshElement DEF Cells
  <2>2. \A i \in 1 .. Len(order) : item'[order[i]] = item[order[i]] /\ key'[order[i]] = key[order[i]]
    BY Zenon, <1>1, <1>3, <1>5, <2>1 DEF Inv, Types
  <2>3. Entries' = Entries /\ UNCHANGED <<ret, ok>>
    BY Zenon, <1>1, <1>5, <2>2, SameEntries
  <2>4. QED BY Zenon, <2>3, AbstractStutter
<1>6. QED BY Zenon, <1>4, <1>5

(* One iteration of its loop: the element goes where its key belongs, after   *)
(* all that have the same one.                                                *)
LEMMA SortedInsertLoopRefines ==
    ASSUME Inv, SortedInsertLoop
    PROVE  S!Next \/ UNCHANGED S!vars
<1>1. op = "SortedInsert" /\ element # NULL /\ Placing /\ ok
  BY DEF SortedInsertLoop, Inv
<1>2. PICK p \in 1 .. Len(order) : order[p] = ptr /\ \A i \in 1 .. p : key[order[i]] <= key[element]
  BY <1>1 DEF Placing
<1>3. Len(order) \in Nat /\ Len(Entries) = Len(order)
      /\ \A i \in 1 .. Len(order) : Entries[i].key = key[order[i]]
  BY Zenon, Ends, EntriesAre
<1>4. /\ next[ptr] = IF p = Len(order) THEN NULL ELSE order[p + 1]
      /\ next[ptr] = NULL <=> p = Len(order)
      /\ \A i \in 1 .. Len(order) : order[i] = ptr => i = p
  BY <1>2, NextOf
<1>5. element \in Element /\ item[element] \in Item /\ key[element] \in Key
  BY Zenon, <1>1 DEF Inv, Types, Placing
<1>6. ASSUME LinkAfter, p = Len(order) \/ key[element] < key[order[p + 1]]
      PROVE  S!Next
  <2>1. order' = S!Inserted(order, element, p + 1) /\ UNCHANGED <<key, item, ret, ok>>
    BY <1>4, <1>6 DEF LinkAfter
  <2>0. Len(order) \in Nat /\ Len(Entries) = Len(order)
    BY <1>3
  <2>2. p + 1 \in 1 .. Len(order) + 1 /\ (p + 1) - 1 = p
    BY <2>0
  <2>3. Entries' = S!Inserted(Entries, [item |-> item[element], key |-> key[element]], p + 1)
    <3>1. Enters(element, item[element], key[element], p + 1)
      BY Zenon, <1>5, <2>1, <2>2 DEF Enters
    <3>2. QED BY Zenon, <1>5, <3>1, MoreEntries
  <2>4. \A i \in 1 .. (p + 1) - 1 : Entries[i].key <= key[element]
    <3>1. \A i \in 1 .. (p + 1) - 1 : i \in 1 .. p /\ i \in 1 .. Len(order)
      BY <2>0
    <3>2. QED BY <1>2, <1>3, <3>1
  <2>5. p + 1 <= Len(Entries) => key[element] < Entries[p + 1].key
    <3>1. p + 1 <= Len(Entries) => p # Len(order) /\ p + 1 \in 1 .. Len(order)
      BY <2>0
    <3>2. QED BY <1>3, <1>6, <3>1
  <2>6. QED BY Zenon, <1>1, <1>3, <1>5, <2>1, <2>2, <2>3, <2>4, <2>5, AbstractInsert
<1>7. CASE next[ptr] = NULL
  BY Zenon, <1>4, <1>6, <1>7 DEF SortedInsertLoop
<1>8. CASE next[ptr] # NULL /\ key[element] < key[next[ptr]]
  <2>1. LinkAfter /\ key[element] < key[order[p + 1]]
    BY Zenon, <1>4, <1>8 DEF SortedInsertLoop
  <2>2. QED BY <1>6, <2>1
<1>9. CASE next[ptr] # NULL /\ ~(key[element] < key[next[ptr]])
  <2>1. UNCHANGED <<item, key, order, ret, ok>>
    BY <1>9 DEF SortedInsertLoop, cells
  <2>2. Entries' = Entries
    BY <2>1, SameEntries
  <2>3. QED BY <2>1, <2>2, AbstractStutter
<1>10. QED BY <1>7, <1>8, <1>9

(* Remove(item) before its loop.                                              *)
LEMMA RemoveItemRefines ==
    ASSUME Inv, NEW x \in Item, RemoveItem(x)
    PROVE  S!Next \/ UNCHANGED S!vars
<1>1. ok
  BY DEF RemoveItem, Idle
<1>2. /\ Len(order) \in Nat /\ Len(Entries) = Len(order)
      /\ (IsEmpty <=> Len(order) = 0)
  BY Ends, EntriesAre
<1>3. CASE IsEmpty
  <2>1. ok' = FALSE /\ UNCHANGED <<item, key, order, ret>>
    BY Zenon, <1>3 DEF RemoveItem, cells
  <2>2. Entries' = Entries
    BY <2>1, SameEntries
  <2>3. 1 .. Len(Entries) = {}
    BY <1>2, <1>3
  <2>4. QED BY Zenon, <1>1, <2>1, <2>2, <2>3, AbstractMiss
<1>4. CASE ~IsEmpty /\ x = item[first]
  <2>1. TakeFirst /\ UNCHANGED <<ret, ok>>
    BY Zenon, <1>4 DEF RemoveItem
  <2>2. /\ 1 \in 1 .. Len(Entries) /\ Entries' = S!Without(Entries, 1)
        /\ Entries[1] = [item |-> item[first], key |-> key[first]]
    BY Zenon, <1>4, <2>1, TakeFirstEntries
  <2>3. Entries[1].item = x /\ 1 .. 1 - 1 = {}
    BY <1>4, <2>2
  <2>4. QED BY <1>1, <2>1, <2>2, <2>3, AbstractRemoveItem
<1>5. CASE ~IsEmpty /\ x # item[first]
  <2>1. UNCHANGED <<item, key, order, ret, ok>>
    BY Zenon, <1>5 DEF RemoveItem, cells
  <2>2. Entries' = Entries
    BY <2>1, SameEntries
  <2>3. QED BY Zenon, <2>1, <2>2, AbstractStutter
<1>6. QED BY <1>3, <1>4, <1>5

(* One iteration of its loop: the first of the item's entries goes.           *)
LEMMA RemoveItemLoopRefines ==
    ASSUME Inv, RemoveItemLoop
    PROVE  S!Next \/ UNCHANGED S!vars
<1>1. op = "Remove" /\ Looking /\ ok
  BY Zenon DEF RemoveItemLoop, Inv
<1>2. PICK p \in 2 .. Len(order) + 1 :
        /\ prev = order[p - 1]
        /\ ptr = IF p = Len(order) + 1 THEN NULL ELSE order[p]
        /\ \A i \in 1 .. p - 1 : item[order[i]] # target
  BY Zenon, <1>1 DEF Looking
<1>3. /\ order \in Seq(Element) /\ Len(order) \in Nat /\ Len(Entries) = Len(order)
      /\ \A i \in 1 .. Len(order) : order[i] \in Element /\ order[i] # NULL
      /\ \A i \in 1 .. Len(order) : Entries[i].item = item[order[i]]
  BY Zenon, Ends, EntriesAre
<1>4. target \in Item
  BY Zenon, <1>1 DEF Looking
<1>5. CASE ptr = NULL
  <2>1. ok' = FALSE /\ UNCHANGED <<item, key, order, ret>>
    BY Zenon, <1>5 DEF RemoveItemLoop, cells
  <2>2. Entries' = Entries
    BY <2>1, SameEntries
  <2>3. p - 1 = Len(order)
    BY <1>2, <1>3, <1>5
  <2>4. \A i \in 1 .. Len(Entries) : Entries[i].item # target
    BY Zenon, <1>2, <1>3, <2>3
  <2>5. QED BY Zenon, <1>1, <1>4, <2>1, <2>2, <2>4, AbstractMiss
<1>6. CASE ptr # NULL /\ target = item[ptr]
  <2>1. p \in 1 .. Len(order) /\ ptr = order[p]
    BY <1>2, <1>3, <1>6
  <2>2. \A i \in 1 .. Len(order) : order[i] = ptr => i = p
    BY Zenon, <2>1, NextOf
  <2>3. /\ item' = [item EXCEPT ![ptr] = NULL] /\ key' = [key EXCEPT ![ptr] = 0]
        /\ order' = S!Without(order, p)
        /\ UNCHANGED <<ret, ok>>
    BY Zenon, <1>6, <2>2 DEF RemoveItemLoop, Delete
  <2>4. \A i \in 1 .. Len(order) : i # p =>
            item'[order[i]] = item[order[i]] /\ key'[order[i]] = key[order[i]]
    BY Zenon, <1>3, <2>2, <2>3 DEF Inv, Types
  <2>5. Entries' = S!Without(Entries, p)
    BY Zenon, <2>1, <2>3, <2>4, LessEntries
  <2>6. Entries[p].item = target
    BY Zenon, <1>3, <1>6, <2>1
  <2>7. \A i \in 1 .. p - 1 : Entries[i].item # target
    <3>1. \A i \in 1 .. p - 1 : i \in 1 .. Len(order)
      BY <1>3, <2>1
    <3>2. QED BY Zenon, <1>2, <1>3, <3>1
  <2>8. QED BY Zenon, <1>1, <1>3, <1>4, <2>1, <2>3, <2>5, <2>6, <2>7, AbstractRemoveItem
<1>7. CASE ptr # NULL /\ target # item[ptr]
  <2>1. UNCHANGED <<item, key, order, ret, ok>>
    BY Zenon, <1>7 DEF RemoveItemLoop, cells
  <2>2. Entries' = Entries
    BY <2>1, SameEntries
  <2>3. QED BY Zenon, <2>1, <2>2, AbstractStutter
<1>8. QED BY Zenon, <1>5, <1>6, <1>7

(* Every step of list.cc is a step of ListSpec, or changes nothing of it.     *)
LEMMA StepRefines ==
    ASSUME Inv, [Next]_vars
    PROVE  [S!Next]_(S!vars)
<1>1. ASSUME NEW x \in Item, Prepend(x) PROVE S!Next
  <2>1. Idle /\ ok /\ UNCHANGED <<ret, ok>> /\ 0 \in Key
    BY Zenon, <1>1, ListAssumption DEF Prepend, Idle
  <2>2. Entries' = S!Inserted(Entries, [item |-> x, key |-> 0], 1)
    BY <1>1, <2>1, PutFirstEntries DEF Prepend
  <2>3. QED BY <2>1, <2>2, AbstractPrepend
<1>2. CASE \E x \in Item : Append0(x) \/ Prepend(x) \/ RemoveItem(x)
  BY <1>1, <1>2, AppendRefines, RemoveItemRefines
<1>3. CASE \E x \in Item, k \in Key : SortedInsert(x, k)
  BY <1>3, SortedInsertRefines
<1>4. CASE Remove \/ DestroyLoop
  <2>1. ok /\ SortedRemove /\ ok' = ok
    BY <1>4 DEF Remove, DestroyLoop, Idle
  <2>2. QED BY <2>1, SortedRemoveRefines
<1>5. CASE SortedInsertLoop
  BY <1>5, SortedInsertLoopRefines
<1>6. CASE RemoveItemLoop
  BY <1>6, RemoveItemLoopRefines
<1>7. CASE Destroy \/ UNCHANGED vars
  <2>1. UNCHANGED <<item, key, order, ret, ok>>
    BY Zenon, <1>7 DEF Destroy, vars, cells
  <2>2. Entries' = Entries
    BY <2>1, SameEntries
  <2>3. QED BY Zenon, <2>1, <2>2, AbstractStutter
<1>8. QED BY Zenon, <1>2, <1>3, <1>4, <1>5, <1>6, <1>7 DEF Next, Stopped

(* The linked elements of list.cc, of any number, behave as the sequence of   *)
(* entries ListSpec describes: each call takes effect at once, in one of its  *)
(* steps, and the others change nothing that a caller can see.                *)
THEOREM ListImplementsListSpec == Spec => ImplementsListSpec
<1>1. Init => S!Init
  <2>1. Init => Len(order) = 0 /\ ret = NULL /\ ok = TRUE
    BY Zenon DEF Init
  <2>2. Len(order) = 0 => Entries = <<>>
    BY DEF Entries
  <2>3. QED BY <2>1, <2>2 DEF S!Init, Entries
<1>2. QED BY <1>1, InitHasInv, StepKeepsInv, StepRefines, PTL DEF Spec, ImplementsListSpec, S!Spec
=============================================================================
