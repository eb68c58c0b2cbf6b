---------------------------- MODULE CJSONListProofs ----------------------------
(***************************************************************************)
(* cJSON's lists: what the calls that add, insert, detach and replace an   *)
(* item make of the lists of a heap, however long they are.                *)
(***************************************************************************)
EXTENDS CJSONList, SequencesExt, WellFoundedInduction, TLAPS

(***************************************************************************)
(* One link at a time.                                                     *)
(***************************************************************************)
Next(h, p) == h[p].next
Prev(h, p) == h[p].prev
Child(h, p) == h[p].child

\* From h to g nothing changes but the child of parent and the links of items.
OnlyLinks(h, g, parent, items) ==
  /\ g \in HeapType
  /\ \A p \in Heap :
       /\ DOMAIN g[p] = DOMAIN h[p]
       /\ \A f \in DOMAIN h[p] :
            g[p][f] # h[p][f] => (f = "child" /\ p = parent) \/ (f \in {"next", "prev"} /\ p \in items)

Itemtype ==
  [kind : {"item"}, type : STRING, ref : BOOLEAN, constKey : BOOLEAN, value : Int, number : Int,
   key : Int, next : Int, prev : Int, child : Int]

LEMMA ItemIs ==
  ASSUME NEW h \in HeapType, NEW p, IsItem(h, p)
  PROVE  h[p] \in Itemtype
<1>1. h[p] \in Blocktype BY DEF HeapType, IsItem
<1>2. h[p].kind = "item" BY DEF IsItem
<1> QED BY <1>1, <1>2 DEF Blocktype, Itemtype, Free, Corrupt

LEMMA ItemFits ==
  ASSUME NEW h \in HeapType, NEW p \in Heap, NEW b \in Itemtype
  PROVE  [h EXCEPT ![p] = b] \in HeapType
<1>1. b \in Blocktype BY DEF Blocktype, Itemtype
<1> QED BY <1>1 DEF HeapType

\* g is h but for the field f of item x, which is v.
Sets(h, g, x, f, v) ==
  /\ g \in HeapType
  /\ \A p \in Heap : /\ DOMAIN g[p] = DOMAIN h[p]
                     /\ \A e \in DOMAIN h[p] : g[p][e] # h[p][e] => p = x /\ e = f
  /\ \A p \in Heap : /\ IsItem(g, p) <=> IsItem(h, p)
                     /\ Next(g, p) = IF p = x /\ f = "next" THEN v ELSE Next(h, p)
                     /\ Prev(g, p) = IF p = x /\ f = "prev" THEN v ELSE Prev(h, p)
                     /\ Child(g, p) = IF p = x /\ f = "child" THEN v ELSE Child(h, p)

LEMMA SetsNext ==
  ASSUME NEW h \in HeapType, NEW x, IsItem(h, x), NEW v \in Int
  PROVE  Sets(h, [h EXCEPT ![x].next = v], x, "next", v)
<1> DEFINE b == [h[x] EXCEPT !.next = v]
           g == [h EXCEPT ![x] = b]
<1>1. h[x] \in Itemtype /\ x \in Heap BY ItemIs DEF IsItem
<1>2. b \in Itemtype /\ DOMAIN b = DOMAIN h[x] /\ b.next = v
      /\ b.prev = h[x].prev /\ b.child = h[x].child /\ b.kind = h[x].kind
  BY <1>1 DEF Itemtype
<1>3. \A f \in DOMAIN h[x] : b[f] # h[x][f] => f = "next" BY <1>1 DEF Itemtype
<1> HIDE DEF b
<1>4. g \in HeapType BY <1>1, <1>2, ItemFits
<1>5. \A p \in Heap : g[p] = IF p = x THEN b ELSE h[p] BY <1>1 DEF HeapType
<1> HIDE DEF g
<1>6. \A p \in Heap : /\ DOMAIN g[p] = DOMAIN h[p]
                      /\ \A e \in DOMAIN h[p] : g[p][e] # h[p][e] => p = x /\ e = "next"
  BY <1>1, <1>2, <1>3, <1>5
<1>7. \A p \in Heap : /\ IsItem(g, p) <=> IsItem(h, p)
                      /\ Next(g, p) = IF p = x THEN v ELSE Next(h, p)
                      /\ Prev(g, p) = Prev(h, p) /\ Child(g, p) = Child(h, p)
  BY <1>1, <1>2, <1>5 DEF IsItem, Next, Prev, Child
<1>8. Sets(h, g, x, "next", v) BY <1>4, <1>6, <1>7 DEF Sets
<1> QED BY <1>8 DEF g, b

LEMMA SetsPrev ==
  ASSUME NEW h \in HeapType, NEW x, IsItem(h, x), NEW v \in Int
  PROVE  Sets(h, [h EXCEPT ![x].prev = v], x, "prev", v)
<1> DEFINE b == [h[x] EXCEPT !.prev = v]
           g == [h EXCEPT ![x] = b]
<1>1. h[x] \in Itemtype /\ x \in Heap BY ItemIs DEF IsItem
<1>2. b \in Itemtype /\ DOMAIN b = DOMAIN h[x] /\ b.prev = v
      /\ b.next = h[x].next /\ b.child = h[x].child /\ b.kind = h[x].kind
  BY <1>1 DEF Itemtype
<1>3. \A f \in DOMAIN h[x] : b[f] # h[x][f] => f = "prev" BY <1>1 DEF Itemtype
<1> HIDE DEF b
<1>4. g \in HeapType BY <1>1, <1>2, ItemFits
<1>5. \A p \in Heap : g[p] = IF p = x THEN b ELSE h[p] BY <1>1 DEF HeapType
<1> HIDE DEF g
<1>6. \A p \in Heap : /\ DOMAIN g[p] = DOMAIN h[p]
                      /\ \A e \in DOMAIN h[p] : g[p][e] # h[p][e] => p = x /\ e = "prev"
  BY <1>1, <1>2, <1>3, <1>5
<1>7. \A p \in Heap : /\ IsItem(g, p) <=> IsItem(h, p)
                      /\ Prev(g, p) = IF p = x THEN v ELSE Prev(h, p)
                      /\ Next(g, p) = Next(h, p) /\ Child(g, p) = Child(h, p)
  BY <1>1, <1>2, <1>5 DEF IsItem, Next, Prev, Child
<1>8. Sets(h, g, x, "prev", v) BY <1>4, <1>6, <1>7 DEF Sets
<1> QED BY <1>8 DEF g, b

LEMMA SetsChild ==
  ASSUME NEW h \in HeapType, NEW x, IsItem(h, x), NEW v \in Int
  PROVE  Sets(h, [h EXCEPT ![x].child = v], x, "child", v)
<1> DEFINE b == [h[x] EXCEPT !.child = v]
           g == [h EXCEPT ![x] = b]
<1>1. h[x] \in Itemtype /\ x \in Heap BY ItemIs DEF IsItem
<1>2. b \in Itemtype /\ DOMAIN b = DOMAIN h[x] /\ b.child = v
      /\ b.prev = h[x].prev /\ b.next = h[x].next /\ b.kind = h[x].kind
  BY <1>1 DEF Itemtype
<1>3. \A f \in DOMAIN h[x] : b[f] # h[x][f] => f = "child" BY <1>1 DEF Itemtype
<1> HIDE DEF b
<1>4. g \in HeapType BY <1>1, <1>2, ItemFits
<1>5. \A p \in Heap : g[p] = IF p = x THEN b ELSE h[p] BY <1>1 DEF HeapType
<1> HIDE DEF g
<1>6. \A p \in Heap : /\ DOMAIN g[p] = DOMAIN h[p]
                      /\ \A e \in DOMAIN h[p] : g[p][e] # h[p][e] => p = x /\ e = "child"
  BY <1>1, <1>2, <1>3, <1>5
<1>7. \A p \in Heap : /\ IsItem(g, p) <=> IsItem(h, p)
                      /\ Child(g, p) = IF p = x THEN v ELSE Child(h, p)
                      /\ Prev(g, p) = Prev(h, p) /\ Next(g, p) = Next(h, p)
  BY <1>1, <1>2, <1>5 DEF IsItem, Next, Prev, Child
<1>8. Sets(h, g, x, "child", v) BY <1>4, <1>6, <1>7 DEF Sets
<1> QED BY <1>8 DEF g, b

LEMMA SameLinks ==
  ASSUME NEW h \in HeapType, NEW parent, NEW items
  PROVE  OnlyLinks(h, h, parent, items)
BY DEF OnlyLinks

LEMMA SetsThen ==
  ASSUME NEW h, NEW g, NEW k, NEW parent, NEW items, NEW x, NEW f, NEW v,
         OnlyLinks(h, g, parent, items), Sets(g, k, x, f, v),
         f \in {"next", "prev"}, x \in items
  PROVE  OnlyLinks(h, k, parent, items)
<1> SUFFICES ASSUME NEW p \in Heap
             PROVE  /\ DOMAIN k[p] = DOMAIN h[p]
                    /\ \A e \in DOMAIN h[p] :
                         k[p][e] # h[p][e] => (e = "child" /\ p = parent) \/ (e \in {"next", "prev"} /\ p \in items)
  BY DEF OnlyLinks, Sets
<1>1. DOMAIN g[p] = DOMAIN h[p] /\ DOMAIN k[p] = DOMAIN g[p] BY DEF OnlyLinks, Sets
<1>2. \A e \in DOMAIN h[p] : g[p][e] # h[p][e] => (e = "child" /\ p = parent) \/ (e \in {"next", "prev"} /\ p \in items)
  BY DEF OnlyLinks
<1>3. \A e \in DOMAIN h[p] : k[p][e] # g[p][e] => p = x /\ e = f BY <1>1 DEF Sets
<1> QED BY <1>1, <1>2, <1>3

LEMMA SetsHead ==
  ASSUME NEW h, NEW g, NEW k, NEW parent, NEW items, NEW v,
         OnlyLinks(h, g, parent, items), Sets(g, k, parent, "child", v)
  PROVE  OnlyLinks(h, k, parent, items)
<1> SUFFICES ASSUME NEW p \in Heap
             PROVE  /\ DOMAIN k[p] = DOMAIN h[p]
                    /\ \A e \in DOMAIN h[p] :
                         k[p][e] # h[p][e] => (e = "child" /\ p = parent) \/ (e \in {"next", "prev"} /\ p \in items)
  BY DEF OnlyLinks, Sets
<1>1. DOMAIN g[p] = DOMAIN h[p] /\ DOMAIN k[p] = DOMAIN g[p] BY DEF OnlyLinks, Sets
<1>2. \A e \in DOMAIN h[p] : g[p][e] # h[p][e] => (e = "child" /\ p = parent) \/ (e \in {"next", "prev"} /\ p \in items)
  BY DEF OnlyLinks
<1>3. \A e \in DOMAIN h[p] : k[p][e] # g[p][e] => p = parent /\ e = "child" BY <1>1 DEF Sets
<1> QED BY <1>1, <1>2, <1>3

LEMMA LinksKeep ==
  ASSUME NEW h \in HeapType, NEW g, NEW parent, NEW items, OnlyLinks(h, g, parent, items),
         NEW p, IsItem(h, p)
  PROVE  /\ IsItem(g, p)
         /\ p # parent => Child(g, p) = Child(h, p)
         /\ p \notin items => Next(g, p) = Next(h, p) /\ Prev(g, p) = Prev(h, p)
<1>1. h[p] \in Itemtype /\ p \in Heap BY ItemIs DEF IsItem
<1>2. {"kind", "child", "next", "prev"} \subseteq DOMAIN h[p] BY <1>1 DEF Itemtype
<1> QED BY <1>1, <1>2 DEF OnlyLinks, IsItem, Child, Next, Prev

(***************************************************************************)
(* Lists.                                                                  *)
(***************************************************************************)
\* An item that is in no list.
Loose(h, lists, item) ==
  /\ IsItem(h, item)
  /\ \A p \in DOMAIN lists : \A i \in DOMAIN lists[p] : lists[p][i] # item

LEMMA OtherList ==
  ASSUME NEW h \in HeapType, NEW g, NEW parent, NEW items, OnlyLinks(h, g, parent, items),
         NEW p, IsItem(h, p), p # parent, NEW kids \in Seq(Heap), IsList(h, p, kids),
         \A i \in DOMAIN kids : kids[i] \notin items
  PROVE  IsItem(g, p) /\ IsList(g, p, kids)
<1> DEFINE n == Len(kids)
<1>1. n \in Nat /\ DOMAIN kids = 1..n OBVIOUS
<1>2. IsItem(g, p) /\ Child(g, p) = Child(h, p) BY LinksKeep
<1>3. \A i \in 1..n : IsItem(h, kids[i]) BY DEF IsList
<1>4. \A i \in 1..n : /\ IsItem(g, kids[i])
                      /\ Next(g, kids[i]) = Next(h, kids[i]) /\ Prev(g, kids[i]) = Prev(h, kids[i])
  BY <1>1, <1>3, LinksKeep
<1> QED BY <1>2, <1>4 DEF IsList, Child, Next, Prev

\* One list changes, the others stay.
LEMMA OneListChanges ==
  ASSUME NEW h \in HeapType, NEW parents, NEW lists \in [parents -> Seq(Heap)], AreLists(h, lists),
         NEW parent \in parents, NEW items, NEW g, OnlyLinks(h, g, parent, items),
         \A p \in parents \ {parent} : \A i \in DOMAIN lists[p] : lists[p][i] \notin items,
         NEW kids \in Seq(Heap), IsList(g, parent, kids),
         \A i \in DOMAIN kids : kids[i] \in items
  PROVE  AreLists(g, [lists EXCEPT ![parent] = kids])
<1> DEFINE new == [lists EXCEPT ![parent] = kids]
<1>1. /\ DOMAIN new = parents /\ DOMAIN lists = parents
      /\ new[parent] = kids /\ \A p \in parents \ {parent} : new[p] = lists[p]
  OBVIOUS
<1>2. \A p \in parents : IsItem(h, p) /\ IsList(h, p, lists[p]) /\ lists[p] \in Seq(Heap)
  BY <1>1 DEF AreLists
<1> HIDE DEF new
<1>3. IsItem(g, parent) BY <1>2, LinksKeep
<1>4. \A p \in parents \ {parent} : IsItem(g, p) /\ IsList(g, p, lists[p])
  BY <1>2, OtherList
<1>5. \A p, q \in parents : \A i \in DOMAIN lists[p], j \in DOMAIN lists[q] : lists[p][i] = lists[q][j] => p = q
  BY <1>1 DEF AreLists
<1>6. ASSUME NEW p \in parents, NEW q \in parents, NEW i \in DOMAIN new[p], NEW j \in DOMAIN new[q],
             new[p][i] = new[q][j], p # q
      PROVE  FALSE
  <2>1. CASE p = parent BY <1>1, <1>6, <2>1
  <2>2. CASE q = parent BY <1>1, <1>6, <2>2
  <2>3. CASE p # parent /\ q # parent BY <1>1, <1>5, <1>6, <2>3
  <2> QED BY <2>1, <2>2, <2>3
<1>7. AreLists(g, new) BY <1>1, <1>3, <1>4, <1>6 DEF AreLists
<1> QED BY <1>7 DEF new

\* A list as its links show it.
IsListOf(h, p, kids, n) ==
  /\ n \in Nat /\ DOMAIN kids = 1..n
  /\ \A i \in 1..n : kids[i] \in Heap /\ IsItem(h, kids[i])
  /\ Child(h, p) = IF n = 0 THEN NULL ELSE kids[1]
  /\ \A i \in 1..n : Next(h, kids[i]) = IF i = n THEN NULL ELSE kids[i + 1]
  /\ \A i \in 1..n : Prev(h, kids[i]) = IF i = 1 THEN kids[n] ELSE kids[i - 1]
  /\ \A i, j \in 1..n : kids[i] = kids[j] => i = j

LEMMA ListIs ==
  ASSUME NEW h, NEW p, NEW kids \in Seq(Heap)
  PROVE  IsList(h, p, kids) <=> IsListOf(h, p, kids, Len(kids))
<1>1. Len(kids) \in Nat /\ DOMAIN kids = 1..Len(kids) /\ \A i \in 1..Len(kids) : kids[i] \in Heap OBVIOUS
<1> QED BY <1>1 DEF IsList, IsListOf, Child, Next, Prev

LEMMA HeapIs ==
  /\ NULL \in Int /\ NULL \notin Heap
  /\ \A p \in Heap : p \in Int
BY HeapAssumption DEF NULL, Heap

\* The first item of a list.
LEMMA AddFirst ==
  ASSUME NEW h \in HeapType, NEW array, IsItem(h, array), NEW item, IsItem(h, item), item # array,
         IsList(h, array, <<>>), NEW g, g = add_item_to_array(h, array, item).h
  PROVE  /\ add_item_to_array(h, array, item).r = TRUE
         /\ OnlyLinks(h, g, array, {item}) /\ IsList(g, array, <<item>>)
<1>1. array \in Heap /\ item \in Heap /\ array # NULL /\ item # NULL /\ item \in Int BY HeapIs DEF IsItem
<1>2. h[array].child = NULL BY DEF IsList
<1> DEFINE g1 == [h EXCEPT ![array].child = item]
           g2 == [g1 EXCEPT ![item].prev = item]
           g3 == [g2 EXCEPT ![item].next = NULL]
<1>3. add_item_to_array(h, array, item) = Ok(g3, TRUE)
  BY <1>1, <1>2 DEF add_item_to_array
<1>4. Sets(h, g1, array, "child", item) BY <1>1, SetsChild
<1> HIDE DEF g1
<1>5. g1 \in HeapType /\ IsItem(g1, item) BY <1>1, <1>4 DEF Sets
<1>6. Sets(g1, g2, item, "prev", item) BY <1>1, <1>5, SetsPrev
<1> HIDE DEF g2
<1>7. g2 \in HeapType /\ IsItem(g2, item) BY <1>1, <1>5, <1>6 DEF Sets
<1>8. Sets(g2, g3, item, "next", NULL) BY <1>1, <1>7, SetsNext, HeapIs
<1> HIDE DEF g3
<1>9. add_item_to_array(h, array, item).r = TRUE /\ g = g3 BY <1>3 DEF Ok
<1>10. OnlyLinks(h, g3, array, {item})
  <2>1. OnlyLinks(h, h, array, {item}) BY SameLinks
  <2>2. OnlyLinks(h, g1, array, {item}) BY <1>4, <2>1, SetsHead
  <2>3. OnlyLinks(h, g2, array, {item}) BY <1>6, <2>2, SetsThen
  <2> QED BY <1>8, <2>3, SetsThen
<1>11. /\ Child(g3, array) = item /\ Next(g3, item) = NULL /\ Prev(g3, item) = item /\ IsItem(g3, item)
  BY <1>1, <1>4, <1>6, <1>8, <1>5 DEF Sets
<1>12. IsList(g3, array, <<item>>)
  <2>1. <<item>> \in Seq(Heap) /\ Len(<<item>>) = 1 /\ <<item>>[1] = item BY <1>1
  <2>2. \A i \in 1..1 : i = 1 OBVIOUS
  <2> QED BY <2>1, <2>2, <1>11 DEF IsList, Child, Next, Prev
<1> QED BY <1>9, <1>10, <1>12

\* The next ones.
LEMMA AddLast ==
  ASSUME NEW h \in HeapType, NEW array, IsItem(h, array), NEW item, IsItem(h, item), item # array,
         Next(h, item) = NULL,
         NEW kids \in Seq(Heap), IsList(h, array, kids), NEW n, n = Len(kids), n # 0,
         \A i \in 1..n : kids[i] # item,
         NEW items, item \in items, \A i \in 1..n : kids[i] \in items,
         NEW g, g = add_item_to_array(h, array, item).h
  PROVE  /\ add_item_to_array(h, array, item).r = TRUE
         /\ OnlyLinks(h, g, array, items) /\ IsList(g, array, Append(kids, item))
<1>1. array \in Heap /\ item \in Heap /\ array # NULL /\ item # NULL /\ item \in Int BY HeapIs DEF IsItem
<1>2. /\ n \in Nat /\ DOMAIN kids = 1..n
      /\ \A i \in 1..n : kids[i] \in Heap /\ IsItem(h, kids[i])
      /\ Child(h, array) = kids[1]
      /\ \A i \in 1..n : Next(h, kids[i]) = IF i = n THEN NULL ELSE kids[i + 1]
      /\ \A i \in 1..n : Prev(h, kids[i]) = IF i = 1 THEN kids[n] ELSE kids[i - 1]
      /\ \A i, j \in 1..n : kids[i] = kids[j] => i = j
  <2>1. /\ n \in Nat /\ DOMAIN kids = 1..n
        /\ \A i \in 1..n : kids[i] \in Heap /\ IsItem(h, kids[i])
        /\ Child(h, array) = IF n = 0 THEN NULL ELSE kids[1]
        /\ \A i \in 1..n : Next(h, kids[i]) = IF i = n THEN NULL ELSE kids[i + 1]
        /\ \A i \in 1..n : Prev(h, kids[i]) = IF i = 1 THEN kids[n] ELSE kids[i - 1]
        /\ \A i, j \in 1..n : kids[i] = kids[j] => i = j
      <3>1. IsListOf(h, array, kids, n) BY ListIs
    <3> QED BY <3>1 DEF IsListOf
  <2> QED BY <2>1, n # 0
<1>3. 1 \in 1..n /\ n \in 1..n BY <1>2
<1> DEFINE first == kids[1]
           last == kids[n]
<1>4. /\ first \in Heap /\ IsItem(h, first) /\ first \in items /\ first # item /\ first # NULL
      /\ last \in Heap /\ IsItem(h, last) /\ last \in items /\ last # item /\ last # NULL /\ last \in Int
      /\ h[array].child = first /\ h[first].prev = last
  BY <1>2, <1>3, HeapIs DEF Child, Prev
<1> DEFINE g1 == [h EXCEPT ![last].next = item]
           g2 == [g1 EXCEPT ![item].prev = last]
           g3 == [g2 EXCEPT ![first].prev = item]
<1>5. add_item_to_array(h, array, item) = Ok(g3, TRUE)
  BY <1>1, <1>4 DEF add_item_to_array, suffix_object
<1> HIDE DEF first, last
<1>6. Sets(h, g1, last, "next", item) BY <1>1, <1>4, SetsNext
<1> HIDE DEF g1
<1>7. g1 \in HeapType /\ IsItem(g1, item) /\ IsItem(g1, first) BY <1>1, <1>4, <1>6 DEF Sets
<1>8. Sets(g1, g2, item, "prev", last) BY <1>4, <1>7, SetsPrev
<1> HIDE DEF g2
<1>9. g2 \in HeapType /\ IsItem(g2, first) BY <1>4, <1>7, <1>8 DEF Sets
<1>10. Sets(g2, g3, first, "prev", item) BY <1>1, <1>9, SetsPrev
<1> HIDE DEF g3
<1>11. add_item_to_array(h, array, item).r = TRUE /\ g = g3 BY <1>5 DEF Ok
<1>12. OnlyLinks(h, g3, array, items)
  <2>1. OnlyLinks(h, h, array, items) BY SameLinks
  <2>2. OnlyLinks(h, g1, array, items) BY <1>4, <1>6, <2>1, SetsThen
  <2>3. OnlyLinks(h, g2, array, items) BY <1>8, <2>2, SetsThen
  <2> QED BY <1>4, <1>10, <2>3, SetsThen
<1>13. \A p \in Heap : /\ IsItem(h, p) => IsItem(g3, p)
                       /\ Child(g3, p) = Child(h, p)
                       /\ Next(g3, p) = IF p = last THEN item ELSE Next(h, p)
                       /\ Prev(g3, p) = IF p = first THEN item ELSE IF p = item THEN last ELSE Prev(h, p)
  BY <1>6, <1>8, <1>10 DEF Sets
<1> DEFINE new == Append(kids, item)
<1>14. /\ new \in Seq(Heap) /\ Len(new) = n + 1 /\ n + 1 \in Nat /\ 1..(n + 1) = 1..n \cup {n + 1}
       /\ \A i \in 1..n : new[i] = kids[i]
       /\ new[n + 1] = item
  BY <1>1, <1>2
<1> HIDE DEF new
<1>15. \A i \in 1..(n + 1) : IsItem(g3, new[i]) BY <1>1, <1>2, <1>13, <1>14
<1>16. Child(g3, array) = new[1] BY <1>1, <1>2, <1>3, <1>13, <1>14
<1>17. \A i \in 1..(n + 1) : Next(g3, new[i]) = IF i = n + 1 THEN NULL ELSE new[i + 1]
  <2>1. Next(g3, item) = NULL BY <1>1, <1>4, <1>13
  <2>2. Next(g3, kids[n]) = item BY <1>4, <1>13 DEF last
  <2>3. \A i \in 1..n : i # n => i + 1 \in 1..n /\ Next(g3, kids[i]) = kids[i + 1]
    BY <1>2, <1>3, <1>13 DEF last
  <2>4. \A i \in 1..n : i # n + 1 BY <1>2
  <2> QED BY <1>14, <2>1, <2>2, <2>3, <2>4
<1>18. \A i \in 1..(n + 1) : Prev(g3, new[i]) = IF i = 1 THEN new[n + 1] ELSE new[i - 1]
  <2>1. Prev(g3, item) = kids[n] BY <1>1, <1>4, <1>13 DEF last
  <2>2. Prev(g3, kids[1]) = item BY <1>4, <1>13 DEF first
  <2>3. \A i \in 1..n : i # 1 => i - 1 \in 1..n /\ Prev(g3, kids[i]) = kids[i - 1]
    BY <1>2, <1>3, <1>13 DEF first
  <2>4. (n + 1) - 1 = n /\ n + 1 # 1 BY <1>2, n # 0
  <2> QED BY <1>3, <1>14, <2>1, <2>2, <2>3, <2>4
<1>19. \A i, j \in 1..(n + 1) : new[i] = new[j] => i = j BY <1>2, <1>14
<1>20. IsList(g3, array, new)
  <2>1. n + 1 # 0 BY <1>2
  <2> QED BY <1>14, <1>15, <1>16, <1>17, <1>18, <1>19, <2>1 DEF IsList, Child, Next, Prev
<1> QED BY <1>11, <1>12, <1>20 DEF new

\* From h to g the list of parent has become kids, and nothing has changed but the
\* links that this takes: every other list, and what the items hold, stays.
Becomes(h, g, lists, parent, item, kids) ==
  /\ OnlyLinks(h, g, parent, Range(lists[parent]) \cup {item})
  /\ AreLists(g, [lists EXCEPT ![parent] = kids])

\* What is in the list of parent, and item, is in no other list.
LEMMA Apart ==
  ASSUME NEW h, NEW parents, NEW lists \in [parents -> Seq(Heap)], AreLists(h, lists),
         NEW parent \in parents, NEW item, Loose(h, lists, item) \/ item \in Range(lists[parent])
  PROVE  \A p \in parents \ {parent} : \A i \in DOMAIN lists[p] :
           lists[p][i] \notin Range(lists[parent]) \cup {item}
<1> SUFFICES ASSUME NEW p \in parents \ {parent}, NEW i \in DOMAIN lists[p],
                    lists[p][i] \in Range(lists[parent]) \cup {item}
             PROVE  FALSE
  OBVIOUS
<1>1. DOMAIN lists = parents OBVIOUS
<1>2. \A j \in DOMAIN lists[parent] : lists[p][i] # lists[parent][j] BY <1>1 DEF AreLists
<1>3. lists[p][i] \notin Range(lists[parent]) BY <1>2 DEF Range
<1>4. Loose(h, lists, item) => lists[p][i] # item BY <1>1 DEF Loose
<1> QED BY <1>3, <1>4

LEMMA BecomesIf ==
  ASSUME NEW h \in HeapType, NEW parents, NEW lists \in [parents -> Seq(Heap)], AreLists(h, lists),
         NEW parent \in parents, NEW item, Loose(h, lists, item) \/ item \in Range(lists[parent]),
         NEW g, OnlyLinks(h, g, parent, Range(lists[parent]) \cup {item}),
         NEW kids \in Seq(Heap), IsList(g, parent, kids),
         \A i \in DOMAIN kids : kids[i] \in Range(lists[parent]) \cup {item}
  PROVE  Becomes(h, g, lists, parent, item, kids)
<1> DEFINE items == Range(lists[parent]) \cup {item}
<1>1. items = Range(lists[parent]) \cup {item} OBVIOUS
<1>2. OnlyLinks(h, g, parent, items) /\ \A i \in DOMAIN kids : kids[i] \in items OBVIOUS
<1>3. \A p \in parents \ {parent} : \A i \in DOMAIN lists[p] : lists[p][i] \notin items
  BY Apart
<1> HIDE DEF items
<1>4. AreLists(g, [lists EXCEPT ![parent] = kids]) BY <1>2, <1>3, OneListChanges
<1> QED BY <1>1, <1>2, <1>4 DEF Becomes

\* add_item_to_array appends: for lists of any length, an item that is in no list
\* becomes the last of the array's; whatever else is in the heap stays as it is.  Only
\* in an empty list is its next reset: in others one that is not NULL would stay, and
\* lead on from the last.
THEOREM AddAppends ==
  ASSUME NEW h \in HeapType, NEW parents, NEW lists \in [parents -> Seq(Heap)], AreLists(h, lists),
         NEW array \in parents, NEW item, Loose(h, lists, item), item # array,
         lists[array] # <<>> => h[item].next = NULL
  PROVE  LET c == add_item_to_array(h, array, item)
         IN c.r = TRUE /\ Becomes(h, c.h, lists, array, item, Append(lists[array], item))
<1> DEFINE c == add_item_to_array(h, array, item)
           kids == lists[array]
           items == Range(kids) \cup {item}
           n == Len(kids)
<1>1. /\ IsItem(h, array) /\ IsList(h, array, kids) /\ kids \in Seq(Heap)
      /\ IsItem(h, item) /\ \A i \in DOMAIN kids : kids[i] # item
  BY DEF AreLists, Loose
<1>2. n \in Nat /\ DOMAIN kids = 1..n /\ item \in items /\ \A i \in 1..n : kids[i] \in items
  BY <1>1 DEF Range
<1>3. item \in Heap /\ (kids # <<>> => Next(h, item) = NULL) BY <1>1 DEF Next, IsItem
<1>4. c.r = TRUE /\ OnlyLinks(h, c.h, array, items) /\ IsList(c.h, array, Append(kids, item))
  <2>1. CASE n = 0
    <3>1. kids = <<>> BY <1>1, <2>1
    <3>2. Append(kids, item) = <<item>> /\ items = {item} BY <3>1 DEF Range
    <3>3. IsList(h, array, <<>>) BY <1>1, <3>1
    <3> HIDE DEF kids, items
    <3> QED BY <1>1, <3>2, <3>3, AddFirst
  <2>2. CASE n # 0
    <3>1. Next(h, item) = NULL BY <1>3, <2>2
    <3> HIDE DEF kids, items
    <3> QED BY <1>1, <1>2, <1>3, <2>2, <3>1, AddLast
  <2> QED BY <2>1, <2>2
<1>5. Append(kids, item) \in Seq(Heap) /\ \A i \in DOMAIN Append(kids, item) : Append(kids, item)[i] \in items
  BY <1>1, <1>2, <1>3
<1>6. Becomes(h, c.h, lists, array, item, Append(kids, item)) BY <1>4, <1>5, BecomesIf
<1> QED BY <1>4, <1>6

(***************************************************************************)
(* The item at an index.                                                   *)
(***************************************************************************)
LEMMA NatInd ==
  ASSUME NEW S, S \subseteq Nat, 0 \in S, \A n \in S : n + 1 \in S
  PROVE  \A n \in Nat : n \in S
<1> DEFINE R == OpToRel(<, Nat)
           T == Nat \ S
<1>1. IsWellFoundedOn(R, Nat) BY NatLessThanWellFounded
<1>2. \A i, j \in Nat : <<j, i>> \in R <=> j < i BY DEF OpToRel
<1> HIDE DEF R
<1> SUFFICES ASSUME T # {} PROVE FALSE OBVIOUS
<1>3. PICK x \in T : \A y \in T : ~(<<y, x>> \in R)
  <2>1. T \subseteq Nat OBVIOUS
  <2> HIDE DEF T
  <2> QED BY <1>1, <2>1, WFMin
<1>4. x \in Nat /\ x \notin S /\ x # 0 BY <1>3
<1>5. x - 1 \in Nat /\ x - 1 < x /\ (x - 1) + 1 = x BY <1>4
<1>6. x - 1 \notin S BY <1>4, <1>5
<1>7. x - 1 \in T BY <1>5, <1>6
<1> QED BY <1>2, <1>3, <1>4, <1>5, <1>7

\* Where the loop of get_array_item is after n steps.
IsAt(at, h, array) ==
  at = [n \in Nat |-> IF n = 0 THEN h[array].child
                      ELSE IF at[n - 1] = NULL THEN NULL ELSE h[at[n - 1]].next]
Nth(kids, n) == IF n < Len(kids) THEN kids[n + 1] ELSE NULL

LEMMA NthNext ==
  ASSUME NEW h, NEW array, NEW kids \in Seq(Heap), IsList(h, array, kids), NEW n \in Nat
  PROVE  /\ Nth(kids, 0) = h[array].child
         /\ Nth(kids, n + 1) = IF Nth(kids, n) = NULL THEN NULL ELSE h[Nth(kids, n)].next
<1> DEFINE N == Len(kids)
<1>1. N \in Nat /\ DOMAIN kids = 1..N OBVIOUS
<1>2. \A i \in 1..N : kids[i] # NULL BY <1>1, HeapIs
<1>3. h[array].child = IF N = 0 THEN NULL ELSE kids[1] BY DEF IsList
<1>4. \A i \in 1..N : h[kids[i]].next = IF i = N THEN NULL ELSE kids[i + 1] BY DEF IsList
<1>5. Nth(kids, 0) = h[array].child BY <1>1, <1>3 DEF Nth
<1>6. CASE n < N
  <2> HIDE DEF N
  <2>1. n + 1 \in 1..N BY <1>1, <1>6
  <2>4. n + 1 < N <=> n + 1 # N BY <1>1, <1>6
  <2>2. Nth(kids, n) = kids[n + 1] BY <1>6 DEF Nth, N
  <2>3. Nth(kids, n + 1) = IF n + 1 = N THEN NULL ELSE kids[(n + 1) + 1] BY <2>4 DEF Nth, N
  <2> QED BY <1>2, <1>4, <1>5, <2>1, <2>2, <2>3
<1>7. CASE ~(n < N)
  <2>1. ~(n + 1 < N) BY <1>1, <1>7
  <2> QED BY <1>5, <1>7, <2>1 DEF Nth
<1> QED BY <1>6, <1>7

\* get_array_item finds the items of a list by their index, and none at any other.
THEOREM NthItem ==
  ASSUME NEW h, NEW array \in Heap, NEW kids \in Seq(Heap), IsList(h, array, kids), NEW index \in Int
  PROVE  get_array_item(h, array, index) = IF index \in 0..(Len(kids) - 1) THEN kids[index + 1] ELSE NULL
<1> DEFINE step(at, n) == IF n = 0 THEN h[array].child
                          ELSE IF at[n - 1] = NULL THEN NULL ELSE h[at[n - 1]].next
           f == [n \in Nat |-> Nth(kids, n)]
           at == CHOOSE g : IsAt(g, h, array)
           K == {n \in Nat : at[n] = Nth(kids, n)}
<1>1. \A n \in Nat : n # 0 => n - 1 \in Nat /\ (n - 1) + 1 = n OBVIOUS
<1>2. IsAt(f, h, array)
  <2>1. ASSUME NEW n \in Nat PROVE f[n] = step(f, n)
    <3>1. CASE n = 0 BY <3>1, NthNext
    <3>2. CASE n # 0
      <4>1. f[n] = Nth(kids, n) /\ f[n - 1] = Nth(kids, n - 1) BY <1>1, <3>2
      <4>2. Nth(kids, n) = IF Nth(kids, n - 1) = NULL THEN NULL ELSE h[Nth(kids, n - 1)].next
        <5>1. n - 1 \in Nat /\ (n - 1) + 1 = n BY <1>1, <3>2
        <5>2. Nth(kids, (n - 1) + 1) = IF Nth(kids, n - 1) = NULL THEN NULL ELSE h[Nth(kids, n - 1)].next
          BY <5>1, NthNext
        <5> QED BY <5>1, <5>2
      <4> HIDE DEF f
      <4> QED BY <3>2, <4>1, <4>2
    <3> QED BY <3>1, <3>2
  <2>2. f = [n \in Nat |-> f[n]] OBVIOUS
  <2> HIDE DEF f
  <2> QED BY <2>1, <2>2 DEF IsAt
<1>3. IsAt(at, h, array) BY <1>2
<1>4. get_array_item(h, array, index) = IF index < 0 THEN NULL ELSE at[index]
  <2>1. array # NULL BY HeapIs
  <2>2. get_array_item(h, array, index) = IF array = NULL \/ index < 0 THEN NULL ELSE at[index]
    BY Zenon DEF get_array_item, IsAt
  <2> HIDE DEF at
  <2> QED BY <2>1, <2>2
<1> HIDE DEF at
<1>5. \A n \in Nat : at[n] = step(at, n)
  <2>1. at = [n \in Nat |-> step(at, n)] BY <1>3 DEF IsAt
  <2> HIDE DEF step
  <2> QED BY <2>1
<1>6. 0 \in K BY <1>5, NthNext
<1>7. ASSUME NEW n \in K PROVE n + 1 \in K
  <2>1. n \in Nat /\ at[n] = Nth(kids, n) /\ n + 1 \in Nat /\ n + 1 # 0 /\ (n + 1) - 1 = n OBVIOUS
  <2>2. at[n + 1] = IF at[n] = NULL THEN NULL ELSE h[at[n]].next BY <1>5, <2>1
  <2> QED BY <2>1, <2>2, NthNext
<1>8. K \subseteq Nat OBVIOUS
<1>9. \A n \in Nat : n \in K
  <2> HIDE DEF K
  <2> QED BY <1>6, <1>7, <1>8, NatInd
<1>10. Len(kids) \in Nat OBVIOUS
<1>11. CASE index < 0 BY <1>4, <1>10, <1>11
<1>12. CASE ~(index < 0)
  <2>1. index \in Nat /\ (index < Len(kids) <=> index \in 0..(Len(kids) - 1)) BY <1>10, <1>12
  <2>2. at[index] = Nth(kids, index) BY <1>9, <2>1
  <2> QED BY <1>4, <1>12, <2>1, <2>2 DEF Nth
<1> QED BY <1>11, <1>12

(***************************************************************************)
(* Insertion.                                                              *)
(***************************************************************************)
\* s with x before its k-th.
IsInserted(new, s, x, n, k) ==
  /\ Len(new) = n + 1
  /\ \A i \in 1..(k - 1) : new[i] = s[i]
  /\ new[k] = x
  /\ \A i \in (k + 1)..(n + 1) : new[i] = s[i - 1]

LEMMA InsertAtIs ==
  ASSUME NEW S, NEW s \in Seq(S), NEW x \in S, NEW k \in 1..Len(s)
  PROVE  InsertAt(s, k, x) \in Seq(S) /\ IsInserted(InsertAt(s, k, x), s, x, Len(s), k)
<1> DEFINE n == Len(s)
           new == InsertAt(s, k, x)
<1>1. n \in Nat /\ DOMAIN s = 1..n OBVIOUS
<1> DEFINE a == SubSeq(s, 1, k - 1)
           b == SubSeq(s, k, n)
<1>2. k \in Nat /\ 1 <= k /\ k <= n /\ k - 1 \in Nat BY <1>1
<1>3. a \in Seq(S) /\ Len(a) = k - 1 /\ \A i \in 1..(k - 1) : a[i] = s[i] BY <1>1, <1>2
<1>4. b \in Seq(S) /\ Len(b) = n - k + 1 /\ \A i \in 1..(n - k + 1) : b[i] = s[k + i - 1] BY <1>1, <1>2
<1>5. new = a \o <<x>> \o b BY DEF InsertAt
<1> HIDE DEF a, b, new
<1> DEFINE c == a \o <<x>>
<1>6. c \in Seq(S) /\ Len(c) = k /\ c[k] = x /\ \A i \in 1..(k - 1) : c[i] = s[i] BY <1>2, <1>3
<1>7. new = c \o b BY <1>5
<1> HIDE DEF c
<1>8. new \in Seq(S) /\ Len(new) = n + 1
  <2>0. c \in Seq(S) /\ b \in Seq(S) BY <1>4, <1>6
  <2>1. new \in Seq(S) /\ Len(new) = Len(c) + Len(b) BY <1>7, <2>0
  <2>2. Len(c) = k /\ Len(b) = n - k + 1 BY <1>4, <1>6
  <2>3. k + (n - k + 1) = n + 1 BY <1>1, <1>2
  <2> QED BY <2>1, <2>2, <2>3
<1>9. \A i \in 1..k : new[i] = c[i] BY <1>1, <1>2, <1>4, <1>6, <1>7
<1>10. \A i \in (k + 1)..(n + 1) : new[i] = b[i - k] BY <1>1, <1>2, <1>4, <1>6, <1>7
<1>11. \A i \in (k + 1)..(n + 1) : i - k \in 1..(n - k + 1) /\ k + (i - k) - 1 = i - 1 BY <1>1, <1>2
<1>12. \A i \in (k + 1)..(n + 1) : b[i - k] = s[i - 1] BY <1>4, <1>11
<1>13. \A i \in 1..(k - 1) : i \in 1..k BY <1>2
<1>14. k \in 1..k BY <1>2
<1>15. new \in Seq(S) /\ IsInserted(new, s, x, n, k)
  <2> HIDE DEF n
  <2> QED BY <1>6, <1>8, <1>9, <1>10, <1>12, <1>13, <1>14 DEF IsInserted
<1> QED BY <1>15 DEF new

LEMMA InsertBefore ==
  ASSUME NEW h \in HeapType, NEW array, IsItem(h, array), NEW item, IsItem(h, item),
         NEW kids \in Seq(Heap), IsList(h, array, kids), NEW n, n = Len(kids),
         \A i \in 1..n : kids[i] # item,
         NEW items, item \in items, \A i \in 1..n : kids[i] \in items,
         NEW k \in 1..n, NEW g, g = cJSON_InsertItemInArray(h, array, k - 1, item).h,
         NEW new, new = InsertAt(kids, k, item)
  PROVE  /\ cJSON_InsertItemInArray(h, array, k - 1, item).r = TRUE
         /\ OnlyLinks(h, g, array, items) /\ IsList(g, array, new)
<1>1. array \in Heap /\ item \in Heap /\ array # NULL /\ item # NULL /\ item \in Int BY HeapIs DEF IsItem
<1>2. /\ n \in Nat /\ DOMAIN kids = 1..n
      /\ \A i \in 1..n : kids[i] \in Heap /\ IsItem(h, kids[i])
      /\ Child(h, array) = IF n = 0 THEN NULL ELSE kids[1]
      /\ \A i \in 1..n : Next(h, kids[i]) = IF i = n THEN NULL ELSE kids[i + 1]
      /\ \A i \in 1..n : Prev(h, kids[i]) = IF i = 1 THEN kids[n] ELSE kids[i - 1]
      /\ \A i, j \in 1..n : kids[i] = kids[j] => i = j
  <2>1. IsListOf(h, array, kids, n) BY ListIs
  <2> QED BY <2>1 DEF IsListOf
<1>3. k \in Nat /\ 1 <= k /\ k <= n /\ 1 \in 1..n /\ n \in 1..n /\ n # 0 /\ (k # 1 => k - 1 \in 1..n) BY <1>2
<1> DEFINE after == kids[k]
           before == IF k = 1 THEN kids[n] ELSE kids[k - 1]
<1>4. /\ after \in Heap /\ IsItem(h, after) /\ after \in items /\ after # item /\ after # NULL /\ after \in Int
      /\ before \in Heap /\ IsItem(h, before) /\ before \in items /\ before # item /\ before # NULL /\ before \in Int
      /\ h[after].prev = before
      /\ after = h[array].child <=> k = 1
  <2>1. h[array].child = kids[1] BY <1>2, <1>3 DEF Child
  <2>2. kids[k] = kids[1] <=> k = 1 BY <1>2, <1>3
  <2>3. h[kids[k]].prev = before BY <1>2 DEF Prev
  <2>4. after \in Heap /\ IsItem(h, after) /\ after \in items /\ after # item BY <1>2
  <2>5. before \in Heap /\ IsItem(h, before) /\ before \in items /\ before # item BY <1>2, <1>3
  <2> HIDE DEF before
  <2> QED BY <2>1, <2>2, <2>3, <2>4, <2>5, HeapIs
<1>5. get_array_item(h, array, k - 1) = after
  <2>1. k - 1 \in Int /\ k - 1 \in 0..(Len(kids) - 1) /\ (k - 1) + 1 = k BY <1>3
  <2>2. get_array_item(h, array, k - 1) = IF k - 1 \in 0..(Len(kids) - 1) THEN kids[(k - 1) + 1] ELSE NULL
    BY <1>1, <2>1, NthItem
  <2> QED BY <2>1, <2>2
<1> HIDE DEF after, before
<1> DEFINE g1 == [h EXCEPT ![item].next = after]
           g2 == [g1 EXCEPT ![item].prev = before]
           g3 == [g2 EXCEPT ![after].prev = item]
           g4 == IF k = 1 THEN [g3 EXCEPT ![array].child = item] ELSE [g3 EXCEPT ![before].next = item]
<1>6. cJSON_InsertItemInArray(h, array, k - 1, item) = Ok(g4, TRUE)
  <2>1. ~(k - 1 < 0) BY <1>3
  <2> QED BY <1>1, <1>4, <1>5, <2>1 DEF cJSON_InsertItemInArray
<1>7. Sets(h, g1, item, "next", after) BY <1>1, <1>4, SetsNext
<1> HIDE DEF g1
<1>8. g1 \in HeapType /\ \A p \in Heap : IsItem(g1, p) <=> IsItem(h, p) BY <1>7 DEF Sets
<1>9. Sets(g1, g2, item, "prev", before) BY <1>1, <1>4, <1>8, SetsPrev
<1> HIDE DEF g2
<1>10. g2 \in HeapType /\ \A p \in Heap : IsItem(g2, p) <=> IsItem(h, p) BY <1>8, <1>9 DEF Sets
<1>11. Sets(g2, g3, after, "prev", item) BY <1>1, <1>4, <1>10, SetsPrev
<1> HIDE DEF g3
<1>12. g3 \in HeapType /\ \A p \in Heap : IsItem(g3, p) <=> IsItem(h, p) BY <1>10, <1>11 DEF Sets
<1>13. /\ k = 1 => Sets(g3, g4, array, "child", item)
       /\ k # 1 => Sets(g3, g4, before, "next", item)
  BY <1>1, <1>4, <1>12, SetsNext, SetsChild
<1> HIDE DEF g4
<1>14. cJSON_InsertItemInArray(h, array, k - 1, item).r = TRUE /\ g = g4 BY <1>6 DEF Ok
<1>15. OnlyLinks(h, g4, array, items)
  <2>1. OnlyLinks(h, h, array, items) BY SameLinks
  <2>2. OnlyLinks(h, g1, array, items) BY <1>7, <2>1, SetsThen
  <2>3. OnlyLinks(h, g2, array, items) BY <1>9, <2>2, SetsThen
  <2>4. OnlyLinks(h, g3, array, items) BY <1>4, <1>11, <2>3, SetsThen
  <2> QED BY <1>4, <1>13, <2>4, SetsThen, SetsHead
<1>16. \A p \in Heap : /\ IsItem(h, p) => IsItem(g4, p)
                       /\ Child(g4, p) = IF k = 1 /\ p = array THEN item ELSE Child(h, p)
                       /\ Next(g4, p) = IF k # 1 /\ p = before THEN item
                                        ELSE IF p = item THEN after ELSE Next(h, p)
                       /\ Prev(g4, p) = IF p = after THEN item ELSE IF p = item THEN before ELSE Prev(h, p)
  BY <1>7, <1>9, <1>11, <1>13 DEF Sets
<1>17. /\ new \in Seq(Heap) /\ Len(new) = n + 1
       /\ \A i \in 1..(k - 1) : new[i] = kids[i]
       /\ new[k] = item
       /\ \A i \in (k + 1)..(n + 1) : new[i] = kids[i - 1]
  <2>1. new \in Seq(Heap) /\ IsInserted(new, kids, item, n, k) BY <1>1, InsertAtIs
  <2> QED BY <2>1 DEF IsInserted
<1>18. \A i \in 1..(n + 1) : i \in 1..(k - 1) \/ i = k \/ i \in (k + 1)..(n + 1) BY <1>2, <1>3
<1>19. /\ \A i \in 1..(k - 1) : i \in 1..n /\ i # n /\ i # k
       /\ \A i \in (k + 1)..(n + 1) : i - 1 \in 1..n /\ i # 1
       /\ n + 1 \in (k + 1)..(n + 1) /\ k # n + 1
  <2>1. \A i \in 1..(k - 1) : i \in 1..n /\ i # n /\ i # k BY <1>2, <1>3
  <2>2. \A i \in (k + 1)..(n + 1) : i - 1 \in 1..n /\ i # 1 BY <1>2, <1>3
  <2>3. n + 1 \in (k + 1)..(n + 1) /\ k # n + 1 BY <1>2, <1>3
  <2> QED BY <2>1, <2>2, <2>3
<1>20. ASSUME NEW i \in 1..(n + 1) PROVE IsItem(g4, new[i])
  <2>1. \A j \in 1..n : IsItem(g4, kids[j]) BY <1>2, <1>16
  <2>2. IsItem(g4, item) BY <1>1, <1>16
  <2>3. CASE i \in 1..(k - 1) BY <1>17, <1>19, <2>1, <2>3
  <2>4. CASE i = k BY <1>17, <2>2, <2>4
  <2>5. CASE i \in (k + 1)..(n + 1) BY <1>17, <1>19, <2>1, <2>5
  <2> QED BY <1>18, <2>3, <2>4, <2>5
<1>21. Child(g4, array) = new[1]
  <2>1. k # 1 => 1 \in 1..(k - 1) BY <1>3
  <2> QED BY <1>1, <1>2, <1>3, <1>16, <1>17, <2>1
<1>22. \A i \in 1..n : kids[i] \in Heap /\ kids[i] # item BY <1>2
<1>23. ASSUME NEW i \in 1..(n + 1) PROVE Next(g4, new[i]) = IF i = n + 1 THEN NULL ELSE new[i + 1]
  <2>1. CASE i \in 1..(k - 1) /\ i = k - 1
    <3>1. k # 1 /\ i + 1 = k /\ i # n + 1 BY <1>2, <1>3, <2>1
    <3>2. new[i] = before BY <1>17, <2>1, <3>1 DEF before
    <3> QED BY <1>4, <1>16, <1>17, <3>1, <3>2
  <2>2. CASE i \in 1..(k - 1) /\ i # k - 1
    <3>1. i + 1 \in 1..(k - 1) /\ k # 1 /\ i # n + 1 BY <1>2, <1>3, <2>2
    <3>2. new[i] = kids[i] /\ new[i + 1] = kids[i + 1] BY <1>17, <2>2, <3>1
    <3>3. kids[i] # before BY <1>2, <1>3, <1>19, <2>2, <3>1 DEF before
    <3>4. Next(h, kids[i]) = kids[i + 1] BY <1>2, <1>19, <2>2
    <3> QED BY <1>16, <1>19, <1>22, <2>2, <3>1, <3>2, <3>3, <3>4
  <2>3. CASE i = k
    <3>1. k + 1 \in (k + 1)..(n + 1) /\ (k + 1) - 1 = k BY <1>2, <1>3
    <3>2. new[i] = item /\ new[i + 1] = after BY <1>17, <2>3, <3>1 DEF after
    <3> QED BY <1>1, <1>4, <1>16, <1>19, <2>3, <3>2
  <2>4. CASE i \in (k + 1)..(n + 1)
    <3>1. new[i] = kids[i - 1] /\ i - 1 \in 1..n BY <1>17, <1>19, <2>4
    <3>2. i # n + 1 => i + 1 \in (k + 1)..(n + 1) /\ (i + 1) - 1 = i /\ (i - 1) + 1 = i BY <1>2, <1>3, <2>4
    <3>3. i # n + 1 => new[i + 1] = kids[i] BY <1>17, <3>2
    <3>4. k # 1 => kids[i - 1] # before
      <4>1. i - 1 # k - 1 BY <1>2, <1>3, <2>4
      <4> QED BY <1>2, <1>3, <3>1, <4>1 DEF before
    <3>5. i = n + 1 <=> i - 1 = n BY <1>2, <2>4
    <3>6. Next(h, kids[i - 1]) = IF i - 1 = n THEN NULL ELSE kids[(i - 1) + 1] BY <1>2, <3>1
    <3>7. Next(g4, kids[i - 1]) = Next(h, kids[i - 1]) BY <1>16, <1>22, <3>1, <3>4
    <3> QED BY <3>1, <3>2, <3>3, <3>5, <3>6, <3>7
  <2> QED BY <1>18, <2>1, <2>2, <2>3, <2>4
<1>24. ASSUME NEW i \in 1..(n + 1) PROVE Prev(g4, new[i]) = IF i = 1 THEN new[n + 1] ELSE new[i - 1]
  <2>1. new[n + 1] = kids[n]
    <3>1. (n + 1) - 1 = n BY <1>2
    <3> QED BY <1>17, <1>19, <3>1
  <2>2. CASE i \in 1..(k - 1)
    <3>1. new[i] = kids[i] /\ kids[i] # after /\ i \in 1..n BY <1>2, <1>17, <1>19, <2>2 DEF after
    <3>2. i # 1 => new[i - 1] = kids[i - 1]
      <4>1. i # 1 => i - 1 \in 1..(k - 1) BY <1>3, <2>2
      <4> QED BY <1>17, <4>1
    <3>3. Prev(g4, new[i]) = Prev(h, kids[i]) BY <1>16, <1>22, <3>1
    <3> QED BY <1>2, <2>1, <3>1, <3>2, <3>3
  <2>3. CASE i = k
    <3>1. Prev(g4, new[i]) = before BY <1>1, <1>4, <1>16, <1>17, <2>3
    <3>2. k # 1 => new[k - 1] = kids[k - 1]
      <4>1. k # 1 => k - 1 \in 1..(k - 1) BY <1>3
      <4> QED BY <1>17, <4>1
    <3> QED BY <2>1, <2>3, <3>1, <3>2 DEF before
  <2>4. CASE i \in (k + 1)..(n + 1) /\ i = k + 1
    <3>1. i - 1 = k /\ i # 1 BY <1>2, <1>3, <2>4
    <3>2. new[i] = after BY <1>17, <2>4, <3>1 DEF after
    <3> QED BY <1>4, <1>16, <1>17, <3>1, <3>2
  <2>5. CASE i \in (k + 1)..(n + 1) /\ i # k + 1
    <3>1. i - 1 \in (k + 1)..(n + 1) /\ i - 1 # k /\ i - 1 # 1 /\ i # 1 BY <1>2, <1>3, <2>5
    <3>2. new[i] = kids[i - 1] /\ i - 1 \in 1..n /\ new[i - 1] = kids[(i - 1) - 1] BY <1>17, <1>19, <2>5, <3>1
    <3>3. kids[i - 1] # after BY <1>2, <3>1, <3>2 DEF after
    <3>4. Prev(g4, new[i]) = Prev(h, kids[i - 1]) BY <1>16, <1>22, <3>2, <3>3
    <3>5. Prev(h, kids[i - 1]) = kids[(i - 1) - 1] BY <1>2, <3>1, <3>2
    <3> QED BY <3>1, <3>2, <3>4, <3>5
  <2> QED BY <1>18, <2>2, <2>3, <2>4, <2>5
<1>25. ASSUME NEW i \in 1..(n + 1), NEW j \in 1..(n + 1), new[i] = new[j] PROVE i = j
  <2>1. ASSUME NEW a \in 1..(n + 1), a # k
        PROVE  \E b \in 1..n : new[a] = kids[b] /\ (a < k => b = a) /\ (a > k => b = a - 1)
    <3>1. CASE a \in 1..(k - 1)
      <4>1. a \in 1..n /\ ~(a > k) BY <1>3, <1>19, <3>1
      <4> QED BY <1>17, <3>1, <4>1
    <3>2. CASE a \in (k + 1)..(n + 1)
      <4>1. a - 1 \in 1..n /\ ~(a < k) BY <1>2, <1>3, <1>19, <3>2
      <4> QED BY <1>17, <3>2, <4>1
    <3> QED BY <1>18, <2>1, <3>1, <3>2
  <2>2. CASE i = k \/ j = k BY <1>17, <1>22, <1>25, <2>1, <2>2
  <2>3. CASE i # k /\ j # k
    <3>1. PICK b \in 1..n : new[i] = kids[b] /\ (i < k => b = i) /\ (i > k => b = i - 1) BY <2>1, <2>3
    <3>2. PICK d \in 1..n : new[j] = kids[d] /\ (j < k => d = j) /\ (j > k => d = j - 1) BY <2>1, <2>3
    <3>3. b = d BY <1>2, <1>25, <3>1, <3>2
    <3>4. i \in Int /\ j \in Int /\ k \in Int BY <1>2, <1>3
    <3> QED BY <2>3, <3>1, <3>2, <3>3, <3>4
  <2> QED BY <2>2, <2>3
<1>26. IsList(g4, array, new)
  <2>1. n + 1 # 0 BY <1>2
  <2> QED BY <1>17, <1>20, <1>21, <1>23, <1>24, <1>25, <2>1 DEF IsList, Child, Next, Prev
<1> QED BY <1>14, <1>15, <1>26

\* cJSON_InsertItemInArray puts an item that is in no list where it is asked to, before
\* the item that has been there, or, when there is none, at the end.
THEOREM InsertInserts ==
  ASSUME NEW h \in HeapType, NEW parents, NEW lists \in [parents -> Seq(Heap)], AreLists(h, lists),
         NEW array \in parents, NEW item, Loose(h, lists, item), item # array, NEW which \in Nat,
         which >= Len(lists[array]) => h[item].next = NULL
  PROVE  LET c == cJSON_InsertItemInArray(h, array, which, item)
             kids == lists[array]
         IN /\ c.r = TRUE
            /\ Becomes(h, c.h, lists, array, item,
                       IF which < Len(kids) THEN InsertAt(kids, which + 1, item) ELSE Append(kids, item))
<1> DEFINE c == cJSON_InsertItemInArray(h, array, which, item)
           kids == lists[array]
           items == Range(kids) \cup {item}
           n == Len(kids)
           k == which + 1
           new == InsertAt(kids, k, item)
<1>1. /\ IsItem(h, array) /\ IsList(h, array, kids) /\ kids \in Seq(Heap)
      /\ IsItem(h, item) /\ \A i \in DOMAIN kids : kids[i] # item
  BY DEF AreLists, Loose
<1>2. n \in Nat /\ DOMAIN kids = 1..n /\ item \in items /\ \A i \in 1..n : kids[i] \in items
  BY <1>1 DEF Range
<1>3. item \in Heap /\ array \in Heap BY <1>1 DEF IsItem
<1>4. CASE which < n
  <2>1. k \in 1..n /\ k - 1 = which BY <1>2, <1>4
  <2>2. c.r = TRUE /\ OnlyLinks(h, c.h, array, items) /\ IsList(c.h, array, new)
    <3>1. c = cJSON_InsertItemInArray(h, array, k - 1, item) BY <2>1
    <3>2. /\ cJSON_InsertItemInArray(h, array, k - 1, item).r = TRUE
          /\ OnlyLinks(h, cJSON_InsertItemInArray(h, array, k - 1, item).h, array, items)
          /\ IsList(cJSON_InsertItemInArray(h, array, k - 1, item).h, array, new)
      <4> HIDE DEF kids, items, k, c
      <4> QED BY <1>1, <1>2, <2>1, InsertBefore
    <3> HIDE DEF c, new, items
    <3> QED BY <3>1, <3>2
  <2>3. new \in Seq(Heap) /\ IsInserted(new, kids, item, n, k) BY <1>1, <1>3, <2>1, InsertAtIs
  <2>4. \A i \in DOMAIN new : new[i] \in items
    <3> HIDE DEF new, items, n, k, kids
    <3>1. DOMAIN new = 1..(n + 1) BY <2>3 DEF IsInserted
    <3>2. ASSUME NEW i \in 1..(n + 1) PROVE new[i] \in items
      <4>1. CASE i \in 1..(k - 1)
        <5>1. i \in 1..n BY <1>2, <2>1, <4>1
        <5> QED BY <1>2, <2>3, <4>1, <5>1 DEF IsInserted
      <4>2. CASE i = k BY <1>2, <2>3, <4>2 DEF IsInserted
      <4>3. CASE i \in (k + 1)..(n + 1)
        <5>1. i - 1 \in 1..n BY <1>2, <2>1, <4>3
        <5> QED BY <1>2, <2>3, <4>3, <5>1 DEF IsInserted
      <4>4. i \in 1..(k - 1) \/ i = k \/ i \in (k + 1)..(n + 1) BY <1>2, <2>1
      <4> QED BY <4>1, <4>2, <4>3, <4>4
    <3> QED BY <3>1, <3>2
  <2>5. Becomes(h, c.h, lists, array, item, new)
    <3> HIDE DEF new, c
    <3> QED BY <2>2, <2>3, <2>4, BecomesIf
  <2> HIDE DEF c, new
  <2> QED BY <1>4, <2>2, <2>5 DEF new, c
<1>5. CASE ~(which < n)
  <2>1. get_array_item(h, array, which) = NULL
    <3>1. which \in Int /\ which \notin 0..(n - 1) BY <1>2, <1>5
    <3> QED BY <1>1, <1>3, <3>1, NthItem
  <2>2. c = add_item_to_array(h, array, item)
    <3>1. ~(which < 0) /\ item # NULL BY <1>3, HeapIs
    <3> QED BY <2>1, <3>1 DEF cJSON_InsertItemInArray
  <2>3. h[item].next = NULL BY <1>2, <1>5
  <2>4. /\ add_item_to_array(h, array, item).r = TRUE
        /\ Becomes(h, add_item_to_array(h, array, item).h, lists, array, item, Append(kids, item))
    BY <2>3, AddAppends
  <2> HIDE DEF c
  <2> QED BY <1>5, <2>2, <2>4 DEF c
<1> QED BY <1>4, <1>5

(***************************************************************************)
(* Detachment.                                                             *)
(***************************************************************************)
\* s without its k-th.
IsRemoved(new, s, n, k) ==
  /\ Len(new) = n - 1
  /\ \A i \in 1..(k - 1) : new[i] = s[i]
  /\ \A i \in k..(n - 1) : new[i] = s[i + 1]

LEMMA RemoveAtIs ==
  ASSUME NEW S, NEW s \in Seq(S), NEW k \in 1..Len(s)
  PROVE  RemoveAt(s, k) \in Seq(S) /\ IsRemoved(RemoveAt(s, k), s, Len(s), k)
<1> DEFINE n == Len(s)
           new == RemoveAt(s, k)
           a == SubSeq(s, 1, k - 1)
           b == SubSeq(s, k + 1, n)
<1>1. n \in Nat /\ DOMAIN s = 1..n OBVIOUS
<1>2. k \in Nat /\ 1 <= k /\ k <= n /\ k - 1 \in Nat BY <1>1
<1>3. a \in Seq(S) /\ Len(a) = k - 1 /\ \A i \in 1..(k - 1) : a[i] = s[i] BY <1>1, <1>2
<1>4. b \in Seq(S) /\ Len(b) = n - k /\ \A i \in 1..(n - k) : b[i] = s[(k + 1) + i - 1]
  <2>1. b \in Seq(S) BY <1>1, <1>2
  <2>2. Len(b) = IF k + 1 <= n THEN n - (k + 1) + 1 ELSE 0 BY <1>1, <1>2
  <2>3. Len(b) = n - k
    <3>1. CASE k + 1 <= n
      <4>1. n - (k + 1) + 1 = n - k BY <1>1, <1>2
      <4> QED BY <2>2, <3>1, <4>1
    <3>2. CASE ~(k + 1 <= n)
      <4> HIDE DEF n
      <4>1. k = n BY <1>1, <1>2, <3>2
      <4>2. n - k = 0 BY <1>1, <4>1
      <4> QED BY <2>2, <3>2, <4>2
    <3> QED BY <3>1, <3>2
  <2>4. \A i \in 1..(n - (k + 1) + 1) : b[i] = s[(k + 1) + i - 1] BY <1>1, <1>2
  <2>5. n - (k + 1) + 1 = n - k BY <1>1, <1>2
  <2> QED BY <2>1, <2>3, <2>4, <2>5
<1>5. new = a \o b BY DEF RemoveAt
<1> HIDE DEF a, b, new
<1>6. new \in Seq(S) /\ Len(new) = Len(a) + Len(b)
  <2>1. a \in Seq(S) /\ b \in Seq(S) BY <1>3, <1>4
  <2> QED BY <1>5, <2>1
<1>7. Len(new) = n - 1
  <2>1. Len(a) = k - 1 /\ Len(b) = n - k BY <1>3, <1>4
  <2>2. (k - 1) + (n - k) = n - 1 BY <1>1, <1>2
  <2> QED BY <1>6, <2>1, <2>2
<1>8. \A i \in 1..(k - 1) : new[i] = a[i] BY <1>3, <1>4, <1>5
<1>9. \A i \in k..(n - 1) : new[i] = b[i - (k - 1)]
  <2> HIDE DEF n
  <2> QED BY <1>1, <1>2, <1>3, <1>4, <1>5
<1>10. \A i \in k..(n - 1) : i - (k - 1) \in 1..(n - k) /\ (k + 1) + (i - (k - 1)) - 1 = i + 1 BY <1>1, <1>2
<1>11. \A i \in k..(n - 1) : b[i - (k - 1)] = s[i + 1] BY <1>4, <1>10
<1>12. new \in Seq(S) /\ IsRemoved(new, s, n, k)
  <2> HIDE DEF n
  <2> QED BY <1>3, <1>6, <1>7, <1>8, <1>9, <1>11 DEF IsRemoved
<1> QED BY <1>12 DEF new

\* Those before and behind the k-th: the last before the first, none behind the last.
Before(kids, n, k) == IF k = 1 THEN kids[n] ELSE kids[k - 1]
Behind(kids, n, k) == IF k = n THEN NULL ELSE kids[k + 1]

\* The links when the k-th is out.
IsDetached(h, g, parent, kids, n, k) ==
  \A p \in Heap :
    /\ IsItem(h, p) => IsItem(g, p)
    /\ Child(g, p) = IF k = 1 /\ p = parent THEN Behind(kids, n, k) ELSE Child(h, p)
    /\ Next(g, p) = IF p = kids[k] THEN NULL
                    ELSE IF k # 1 /\ p = Before(kids, n, k) THEN Behind(kids, n, k) ELSE Next(h, p)
    /\ Prev(g, p) = IF p = kids[k] THEN NULL
                    ELSE IF (k # n /\ p = Behind(kids, n, k)) \/ (k = n /\ k # 1 /\ p = kids[1])
                    THEN Before(kids, n, k) ELSE Prev(h, p)

Detaches(h, c, parent, kids, k, items) ==
  /\ c.r = kids[k] /\ OnlyLinks(h, c.h, parent, items)
  /\ IsDetached(h, c.h, parent, kids, Len(kids), k)

LEMMA DetachLinks ==
  ASSUME NEW h \in HeapType, NEW parent, IsItem(h, parent),
         NEW kids \in Seq(Heap), IsList(h, parent, kids), NEW k \in 1..Len(kids),
         NEW items, Range(kids) \subseteq items
  PROVE  Detaches(h, cJSON_DetachItemViaPointer(h, parent, kids[k]), parent, kids, k, items)
<1> DEFINE n == Len(kids)
           c == cJSON_DetachItemViaPointer(h, parent, kids[k])
           next == Behind(kids, n, k)
           prev == Before(kids, n, k)
<1>0. n = Len(kids) /\ k \in 1..n /\ c = cJSON_DetachItemViaPointer(h, parent, kids[k])
  OBVIOUS
<1>21. \A i \in 1..n : kids[i] \in items BY DEF Range
<1> HIDE DEF n, c
<1> USE <1>0, <1>21
<1>1. parent \in Heap /\ parent # NULL BY HeapIs DEF IsItem
<1>2. /\ n \in Nat /\ DOMAIN kids = 1..n
      /\ \A i \in 1..n : kids[i] \in Heap /\ IsItem(h, kids[i])
      /\ Child(h, parent) = IF n = 0 THEN NULL ELSE kids[1]
      /\ \A i \in 1..n : Next(h, kids[i]) = IF i = n THEN NULL ELSE kids[i + 1]
      /\ \A i \in 1..n : Prev(h, kids[i]) = IF i = 1 THEN kids[n] ELSE kids[i - 1]
      /\ \A i, j \in 1..n : kids[i] = kids[j] => i = j
  <2>1. IsListOf(h, parent, kids, n) BY ListIs
  <2> QED BY <2>1 DEF IsListOf
<1>3. k \in Nat /\ 1 \in 1..n /\ n \in 1..n /\ n # 0 /\ (k # 1 => k - 1 \in 1..n) /\ (k # n => k + 1 \in 1..n)
  BY <1>2
<1> DEFINE item == kids[k]
           first == kids[1]
<1>4. /\ item \in Heap /\ IsItem(h, item) /\ item \in items /\ item # NULL
      /\ first \in Heap /\ IsItem(h, first) /\ first \in items /\ first # NULL
      /\ first = item <=> k = 1
      /\ h[item].next = next /\ h[item].prev = prev /\ h[parent].child = first
  BY <1>2, <1>3, HeapIs DEF Next, Prev, Child, Behind, Before
<1>5. /\ prev \in Heap /\ IsItem(h, prev) /\ prev \in items /\ prev # NULL /\ prev \in Int
      /\ next = NULL <=> k = n
      /\ k # n => next \in Heap /\ IsItem(h, next) /\ next \in items
      /\ next \in Int /\ NULL \in Int
      /\ k # 1 => prev # item
  <2>1. \E i \in 1..n : prev = kids[i] /\ (k # 1 => i # k) BY <1>3 DEF Before
  <2>2. k # n => \E i \in 1..n : next = kids[i] BY <1>3 DEF Behind
  <2>3. k # 1 => prev # item BY <1>2, <2>1
  <2>4. /\ prev \in Heap /\ IsItem(h, prev) /\ prev \in items BY <1>2, <2>1
  <2>5. k # n => next \in Heap /\ IsItem(h, next) /\ next \in items BY <1>2, <2>2
  <2>6. k = n => next = NULL BY DEF Behind
  <2> HIDE DEF item, next, prev
  <2> QED BY <2>3, <2>4, <2>5, <2>6, HeapIs
<1> HIDE DEF item, first, next, prev
<1> DEFINE h1 == IF k = 1 THEN h ELSE [h EXCEPT ![prev].next = next]
           h2 == IF k = n THEN h1 ELSE [h1 EXCEPT ![next].prev = prev]
           h3 == IF k = 1 THEN [h2 EXCEPT ![parent].child = next]
                 ELSE IF k = n THEN [h2 EXCEPT ![first].prev = prev] ELSE h2
           h4 == [h3 EXCEPT ![item].prev = NULL]
           h5 == [h4 EXCEPT ![item].next = NULL]
<1>6. /\ k = 1 => h1 = h
      /\ k # 1 => Sets(h, h1, prev, "next", next)
  BY <1>5, SetsNext
<1> HIDE DEF h1
<1>7. h1 \in HeapType /\ \A p \in Heap : IsItem(h1, p) <=> IsItem(h, p) BY <1>6 DEF Sets
<1>8. /\ k = n => h2 = h1
      /\ k # n => Sets(h1, h2, next, "prev", prev)
  BY <1>5, <1>7, SetsPrev
<1> HIDE DEF h2
<1>9. h2 \in HeapType /\ \A p \in Heap : IsItem(h2, p) <=> IsItem(h, p) BY <1>7, <1>8 DEF Sets
<1>10. /\ k = 1 => Sets(h2, h3, parent, "child", next)
       /\ k # 1 /\ k = n => Sets(h2, h3, first, "prev", prev)
       /\ k # 1 /\ k # n => h3 = h2
  BY <1>1, <1>4, <1>5, <1>9, SetsPrev, SetsChild
<1>11. k # 1 => h2[parent].child = first
  <2>1. \A p \in Heap : Child(h1, p) = Child(h, p) BY <1>6 DEF Sets
  <2>2. \A p \in Heap : Child(h2, p) = Child(h1, p) BY <1>8 DEF Sets
  <2> QED BY <1>1, <1>4, <2>1, <2>2 DEF Child
<1>12. c = Ok(h5, item)
  <2>1. c = cJSON_DetachItemViaPointer(h, parent, item) BY DEF item
  <2>2. ~(parent = NULL \/ item = NULL \/ (item # h[parent].child /\ h[item].prev = NULL))
    BY <1>1, <1>4, <1>5
  <2>3. item = h[parent].child <=> k = 1 BY <1>4
  <2>4. h1 = IF item = h[parent].child THEN h ELSE [h EXCEPT ![h[item].prev].next = h[item].next]
    BY <1>4, <2>3 DEF h1
  <2>5. h2 = IF h[item].next = NULL THEN h1 ELSE [h1 EXCEPT ![h[item].next].prev = h[item].prev]
    BY <1>4, <1>5 DEF h2
  <2>6. h3 = IF item = h[parent].child THEN [h2 EXCEPT ![parent].child = h[item].next]
             ELSE IF h[item].next = NULL THEN [h2 EXCEPT ![h2[parent].child].prev = h[item].prev] ELSE h2
    BY <1>4, <1>5, <1>11, <2>3
  <2> DEFINE r1 == IF item = h[parent].child THEN h ELSE [h EXCEPT ![h[item].prev].next = h[item].next]
             r2 == IF h[item].next = NULL THEN r1 ELSE [r1 EXCEPT ![h[item].next].prev = h[item].prev]
             r3 == IF item = h[parent].child THEN [r2 EXCEPT ![parent].child = h[item].next]
                   ELSE IF h[item].next = NULL THEN [r2 EXCEPT ![r2[parent].child].prev = h[item].prev] ELSE r2
             r == [r3 EXCEPT ![item].prev = NULL, ![item].next = NULL]
  <2>9. cJSON_DetachItemViaPointer(h, parent, item) =
          IF parent = NULL \/ item = NULL \/ (item # h[parent].child /\ h[item].prev = NULL)
          THEN Failed(h) ELSE Ok(r, item)
    BY Zenon DEF cJSON_DetachItemViaPointer
  <2> HIDE DEF r
  <2>10. cJSON_DetachItemViaPointer(h, parent, item) = Ok(r, item) BY <2>2, <2>9
  <2>11. h1 = r1 BY <2>4
  <2> HIDE DEF r1
  <2>12. h2 = r2 BY <2>5, <2>11
  <2> HIDE DEF r2
  <2>13. h3 = r3 BY <2>6, <2>12
  <2> HIDE DEF r3, h3, h4, h5
  <2>7. cJSON_DetachItemViaPointer(h, parent, item) = Ok([h3 EXCEPT ![item].prev = NULL, ![item].next = NULL], item)
    BY <2>10, <2>13 DEF r
  <2>8. [h3 EXCEPT ![item].prev = NULL, ![item].next = NULL] = h5 BY DEF h4, h5
  <2> QED BY <2>1, <2>7, <2>8
<1> HIDE DEF h3
<1>13. h3 \in HeapType /\ \A p \in Heap : IsItem(h3, p) <=> IsItem(h, p) BY <1>9, <1>10 DEF Sets
<1>14. Sets(h3, h4, item, "prev", NULL) BY <1>4, <1>5, <1>13, SetsPrev
<1> HIDE DEF h4
<1>15. h4 \in HeapType /\ \A p \in Heap : IsItem(h4, p) <=> IsItem(h, p) BY <1>13, <1>14 DEF Sets
<1>16. Sets(h4, h5, item, "next", NULL) BY <1>4, <1>5, <1>15, SetsNext
<1> HIDE DEF h5
<1>17. c.r = item /\ c.h = h5 BY <1>12 DEF Ok
<1>18. OnlyLinks(h, h5, parent, items)
  <2>1. OnlyLinks(h, h, parent, items) BY SameLinks
  <2>2. OnlyLinks(h, h1, parent, items) BY <1>5, <1>6, <2>1, SetsThen
  <2>3. OnlyLinks(h, h2, parent, items) BY <1>5, <1>8, <2>2, SetsThen
  <2>4. OnlyLinks(h, h3, parent, items)
    <3>1. CASE k = 1 BY <1>10, <2>3, <3>1, SetsHead
    <3>2. CASE k # 1 /\ k = n BY <1>4, <1>10, <2>3, <3>2, SetsThen
    <3>3. CASE k # 1 /\ k # n BY <1>10, <2>3, <3>3
    <3> QED BY <3>1, <3>2, <3>3
  <2>5. OnlyLinks(h, h4, parent, items) BY <1>4, <1>14, <2>4, SetsThen
  <2> QED BY <1>4, <1>16, <2>5, SetsThen
<1>19. ASSUME NEW p \in Heap
       PROVE  /\ IsItem(h, p) => IsItem(h5, p)
              /\ Child(h5, p) = IF k = 1 /\ p = parent THEN next ELSE Child(h, p)
              /\ Next(h5, p) = IF p = item THEN NULL
                               ELSE IF k # 1 /\ p = prev THEN next ELSE Next(h, p)
              /\ Prev(h5, p) = IF p = item THEN NULL
                               ELSE IF (k # n /\ p = next) \/ (k = n /\ k # 1 /\ p = first) THEN prev
                               ELSE Prev(h, p)
  <2>1. /\ Child(h1, p) = Child(h, p) /\ Prev(h1, p) = Prev(h, p)
        /\ Next(h1, p) = IF k # 1 /\ p = prev THEN next ELSE Next(h, p)
    BY <1>6 DEF Sets
  <2>2. /\ Child(h2, p) = Child(h1, p) /\ Next(h2, p) = Next(h1, p)
        /\ Prev(h2, p) = IF k # n /\ p = next THEN prev ELSE Prev(h1, p)
    BY <1>8 DEF Sets
  <2>3. /\ Child(h3, p) = IF k = 1 /\ p = parent THEN next ELSE Child(h2, p)
        /\ Next(h3, p) = Next(h2, p)
        /\ Prev(h3, p) = IF k = n /\ k # 1 /\ p = first THEN prev ELSE Prev(h2, p)
    BY <1>10 DEF Sets
  <2>4. /\ Child(h4, p) = Child(h3, p) /\ Next(h4, p) = Next(h3, p)
        /\ Prev(h4, p) = IF p = item THEN NULL ELSE Prev(h3, p)
    BY <1>14 DEF Sets
  <2>5. /\ Child(h5, p) = Child(h4, p) /\ Prev(h5, p) = Prev(h4, p)
        /\ Next(h5, p) = IF p = item THEN NULL ELSE Next(h4, p)
        /\ IsItem(h5, p) <=> IsItem(h4, p)
    BY <1>16 DEF Sets
  <2>6. IsItem(h, p) => IsItem(h5, p) BY <1>15, <2>5
  <2>7. Child(h5, p) = IF k = 1 /\ p = parent THEN next ELSE Child(h, p) BY <2>1, <2>2, <2>3, <2>4, <2>5
  <2>8. Next(h5, p) = IF p = item THEN NULL ELSE IF k # 1 /\ p = prev THEN next ELSE Next(h, p)
    BY <2>1, <2>2, <2>3, <2>4, <2>5
  <2>9. Prev(h5, p) = IF p = item THEN NULL
                      ELSE IF (k # n /\ p = next) \/ (k = n /\ k # 1 /\ p = first) THEN prev
                      ELSE Prev(h, p)
    <3>1. CASE p = item BY <2>4, <2>5, <3>1
    <3>2. CASE p # item /\ k = n /\ k # 1 /\ p = first BY <2>3, <2>4, <2>5, <3>2
    <3>3. CASE p # item /\ ~(k = n /\ k # 1 /\ p = first)
      <4>1. Prev(h5, p) = Prev(h2, p) BY <2>3, <2>4, <2>5, <3>3
      <4>2. CASE k # n /\ p = next
        <5>1. Prev(h2, p) = prev BY <2>2, <4>2
        <5> QED BY <3>3, <4>1, <4>2, <5>1
      <4>3. CASE ~(k # n /\ p = next)
        <5>1. Prev(h2, p) = Prev(h, p) BY <2>1, <2>2, <4>3
        <5> QED BY <3>3, <4>1, <4>3, <5>1
      <4> QED BY <4>2, <4>3
    <3> QED BY <3>1, <3>2, <3>3
  <2> QED BY <2>6, <2>7, <2>8, <2>9
<1>20. IsDetached(h, h5, parent, kids, n, k) BY <1>19 DEF IsDetached, item, first, next, prev
<1> QED BY <1>17, <1>18, <1>20 DEF Detaches, item

LEMMA DetachList ==
  ASSUME NEW h \in HeapType, NEW parent, IsItem(h, parent),
         NEW kids \in Seq(Heap), IsList(h, parent, kids), NEW n, n = Len(kids), NEW k \in 1..n,
         NEW c, c = cJSON_DetachItemViaPointer(h, parent, kids[k]),
         NEW new, new = RemoveAt(kids, k)
  PROVE  IsList(c.h, parent, new)
<1> DEFINE next == Behind(kids, n, k)
           prev == Before(kids, n, k)
           g == c.h
           item == kids[k]
<1>1. \A p \in Heap :
        /\ IsItem(h, p) => IsItem(g, p)
        /\ Child(g, p) = IF k = 1 /\ p = parent THEN next ELSE Child(h, p)
        /\ Next(g, p) = IF p = item THEN NULL
                        ELSE IF k # 1 /\ p = prev THEN next ELSE Next(h, p)
        /\ Prev(g, p) = IF p = item THEN NULL
                        ELSE IF (k # n /\ p = next) \/ (k = n /\ k # 1 /\ p = kids[1]) THEN prev
                        ELSE Prev(h, p)
  <2>1. IsDetached(h, c.h, parent, kids, n, k)
    <3>1. k \in 1..Len(kids) /\ Range(kids) \subseteq Range(kids) OBVIOUS
    <3>2. Detaches(h, c, parent, kids, k, Range(kids)) BY <3>1, DetachLinks
    <3> QED BY <3>2 DEF Detaches
  <2> QED BY <2>1 DEF IsDetached
<1>2. /\ n \in Nat /\ DOMAIN kids = 1..n
      /\ \A i \in 1..n : kids[i] \in Heap /\ IsItem(h, kids[i])
      /\ Child(h, parent) = IF n = 0 THEN NULL ELSE kids[1]
      /\ \A i \in 1..n : Next(h, kids[i]) = IF i = n THEN NULL ELSE kids[i + 1]
      /\ \A i \in 1..n : Prev(h, kids[i]) = IF i = 1 THEN kids[n] ELSE kids[i - 1]
      /\ \A i, j \in 1..n : kids[i] = kids[j] => i = j
  <2>1. IsListOf(h, parent, kids, n) BY ListIs
  <2> QED BY <2>1 DEF IsListOf
<1>3. k \in Nat /\ 1 <= k /\ k <= n /\ 1 \in 1..n /\ n \in 1..n /\ n # 0 BY <1>2
<1>4. parent \in Heap BY DEF IsItem
<1>5. new \in Seq(Heap) /\ IsRemoved(new, kids, n, k) BY RemoveAtIs
<1> HIDE DEF g, item, next, prev
<1>6. /\ Len(new) = n - 1 /\ n - 1 \in Nat
      /\ \A i \in 1..(k - 1) : new[i] = kids[i]
      /\ \A i \in k..(n - 1) : new[i] = kids[i + 1]
  BY <1>3, <1>5 DEF IsRemoved
\* Those that keep both their neighbours, and those that do not.
<1>7. \A i \in 1..n : i # k => kids[i] # item BY <1>2 DEF item
<1>8. \A i \in 1..n : i # k /\ i # k - 1 => Next(g, kids[i]) = Next(h, kids[i])
  <2>1. \A i \in 1..n : k # 1 /\ i # k - 1 => kids[i] # prev
    <3>1. k # 1 => k - 1 \in 1..n BY <1>3
    <3> QED BY <1>2, <3>1 DEF prev, Before
  <2> QED BY <1>1, <1>2, <1>7, <2>1
<1>9. k # 1 => Next(g, kids[k - 1]) = next
  <2>1. k # 1 => k - 1 \in 1..n /\ k - 1 # k /\ kids[k - 1] = prev BY <1>3 DEF prev, Before
  <2> QED BY <1>1, <1>2, <1>7, <2>1
<1>10. k # n => Prev(g, kids[k + 1]) = prev
  <2>1. k # n => k + 1 \in 1..n /\ k + 1 # k /\ kids[k + 1] = next BY <1>3 DEF next, Behind
  <2> QED BY <1>1, <1>2, <1>7, <2>1
<1>11. k = n /\ k # 1 => Prev(g, kids[1]) = prev BY <1>1, <1>2, <1>3, <1>7
<1>12. \A i \in 1..n : i # k /\ i # k + 1 /\ ~(k = n /\ i = 1) => Prev(g, kids[i]) = Prev(h, kids[i])
  <2>1. \A i \in 1..n : k # n /\ i # k + 1 => kids[i] # next
    <3>1. k # n => k + 1 \in 1..n BY <1>3
    <3> QED BY <1>2, <3>1 DEF next, Behind
  <2>2. \A i \in 1..n : i # 1 => kids[i] # kids[1] BY <1>2, <1>3
  <2> QED BY <1>1, <1>2, <1>7, <2>1, <2>2
<1>13. /\ \A i \in 1..(n - 1) : i \in 1..(k - 1) \/ i \in k..(n - 1)
       /\ \A i \in 1..(k - 1) : i \in 1..n /\ i # k /\ i # n
       /\ \A i \in k..(n - 1) : i + 1 \in 1..n /\ i + 1 # k /\ i + 1 # k - 1 /\ k # n
  <2>1. \A i \in 1..(n - 1) : i \in 1..(k - 1) \/ i \in k..(n - 1) BY <1>2, <1>3
  <2>2. \A i \in 1..(k - 1) : i \in 1..n /\ i # k /\ i # n BY <1>2, <1>3
  <2>3. \A i \in k..(n - 1) : i + 1 \in 1..n /\ i + 1 # k /\ i + 1 # k - 1 /\ k # n BY <1>2, <1>3
  <2> QED BY <2>1, <2>2, <2>3
<1>14. ASSUME NEW i \in 1..(n - 1) PROVE IsItem(g, new[i])
  <2>1. \A j \in 1..n : IsItem(g, kids[j]) BY <1>1, <1>2
  <2>2. CASE i \in 1..(k - 1) BY <1>6, <1>13, <2>1, <2>2
  <2>3. CASE i \in k..(n - 1) BY <1>6, <1>13, <2>1, <2>3
  <2> QED BY <1>13, <2>2, <2>3
<1>15. Child(g, parent) = IF n - 1 = 0 THEN NULL ELSE new[1]
  <2>1. CASE k = 1 /\ n = 1
    <3>1. next = NULL /\ n - 1 = 0 BY <2>1 DEF next, Behind
    <3> QED BY <1>1, <1>4, <2>1, <3>1
  <2>2. CASE k = 1 /\ n # 1
    <3>1. 1 \in k..(n - 1) /\ n - 1 # 0 BY <1>2, <1>3, <2>2
    <3>2. new[1] = kids[1 + 1] BY <1>6, <3>1
    <3>3. next = kids[1 + 1] BY <2>2 DEF next, Behind
    <3> QED BY <1>1, <1>4, <2>2, <3>1, <3>2, <3>3
  <2>3. CASE k # 1
    <3>1. 1 \in 1..(k - 1) /\ n - 1 # 0 BY <1>2, <1>3, <2>3
    <3>2. new[1] = kids[1] BY <1>6, <3>1
    <3> QED BY <1>1, <1>2, <1>3, <1>4, <2>3, <3>1, <3>2
  <2> QED BY <2>1, <2>2, <2>3
<1>16. ASSUME NEW i \in 1..(n - 1) PROVE Next(g, new[i]) = IF i = n - 1 THEN NULL ELSE new[i + 1]
  <2>1. CASE i \in 1..(k - 1) /\ i = k - 1
    <3>1. k # 1 /\ new[i] = kids[k - 1] BY <1>3, <1>6, <2>1
    <3>2. Next(g, new[i]) = next BY <1>9, <3>1
    <3>3. i = n - 1 <=> k = n BY <1>2, <1>3, <2>1
    <3>4. k # n => i + 1 = k /\ k \in k..(n - 1) BY <1>2, <1>3, <2>1
    <3>5. k # n => new[i + 1] = kids[k + 1] BY <1>6, <3>4
    <3> QED BY <3>2, <3>3, <3>5 DEF next, Behind
  <2>2. CASE i \in 1..(k - 1) /\ i # k - 1
    <3>1. i + 1 \in 1..(k - 1) /\ i # n - 1 BY <1>2, <1>3, <2>2
    <3>2. new[i] = kids[i] /\ new[i + 1] = kids[i + 1] BY <1>6, <2>2, <3>1
    <3>3. Next(g, kids[i]) = Next(h, kids[i]) BY <1>8, <1>13, <2>2
    <3>4. Next(h, kids[i]) = kids[i + 1] BY <1>2, <1>13, <2>2
    <3> QED BY <3>1, <3>2, <3>3, <3>4
  <2>3. CASE i \in k..(n - 1)
    <3>1. new[i] = kids[i + 1] /\ i + 1 \in 1..n BY <1>6, <1>13, <2>3
    <3>2. Next(g, kids[i + 1]) = Next(h, kids[i + 1]) BY <1>8, <1>13, <2>3
    <3>3. Next(h, kids[i + 1]) = IF i + 1 = n THEN NULL ELSE kids[(i + 1) + 1] BY <1>2, <3>1
    <3>4. i + 1 = n <=> i = n - 1 BY <1>2, <2>3
    <3>5. i # n - 1 => i + 1 \in k..(n - 1) BY <1>2, <1>3, <2>3
    <3>6. i # n - 1 => new[i + 1] = kids[(i + 1) + 1] BY <1>6, <3>5
    <3> QED BY <3>1, <3>2, <3>3, <3>4, <3>6
  <2> QED BY <1>13, <2>1, <2>2, <2>3
<1>17. ASSUME NEW i \in 1..(n - 1) PROVE Prev(g, new[i]) = IF i = 1 THEN new[n - 1] ELSE new[i - 1]
  <2>1. k # n => new[n - 1] = kids[n]
    <3>1. k # n => n - 1 \in k..(n - 1) /\ (n - 1) + 1 = n BY <1>2, <1>3
    <3> QED BY <1>6, <3>1
  <2>2. CASE i \in 1..(k - 1) /\ i = 1 /\ k = n
    <3>1. k # 1 /\ new[1] = kids[1] BY <1>3, <1>6, <2>2
    <3>2. n - 1 \in 1..(k - 1) BY <1>2, <1>3, <2>2, <3>1
    <3>3. new[n - 1] = kids[k - 1] BY <1>6, <2>2, <3>2
    <3>4. prev = kids[k - 1] BY <3>1 DEF prev, Before
    <3> QED BY <1>11, <2>2, <3>1, <3>3, <3>4
  <2>3. CASE i \in 1..(k - 1) /\ i = 1 /\ k # n
    <3>1. new[1] = kids[1] /\ 1 # k + 1 BY <1>3, <1>6, <2>3
    <3>2. Prev(g, kids[1]) = Prev(h, kids[1]) BY <1>3, <1>12, <1>13, <2>3, <3>1
    <3>3. Prev(h, kids[1]) = kids[n] BY <1>2, <1>3
    <3> QED BY <2>1, <2>3, <3>1, <3>2, <3>3
  <2>4. CASE i \in 1..(k - 1) /\ i # 1
    <3>1. i - 1 \in 1..(k - 1) /\ i # k + 1 BY <1>3, <2>4
    <3>2. new[i] = kids[i] /\ new[i - 1] = kids[i - 1] BY <1>6, <2>4, <3>1
    <3>3. Prev(g, kids[i]) = Prev(h, kids[i]) BY <1>12, <1>13, <2>4, <3>1
    <3>4. Prev(h, kids[i]) = kids[i - 1] BY <1>2, <1>13, <2>4
    <3> QED BY <2>4, <3>2, <3>3, <3>4
  <2>5. CASE i \in k..(n - 1) /\ i = k
    <3>1. new[i] = kids[k + 1] /\ k # n BY <1>6, <1>13, <2>5
    <3>2. Prev(g, new[i]) = prev BY <1>10, <3>1
    <3>3. k # 1 => new[k - 1] = kids[k - 1]
      <4>1. k # 1 => k - 1 \in 1..(k - 1) BY <1>3
      <4> QED BY <1>6, <4>1
    <3> QED BY <2>1, <2>5, <3>1, <3>2, <3>3 DEF prev, Before
  <2>6. CASE i \in k..(n - 1) /\ i # k
    <3>1. i - 1 \in k..(n - 1) /\ i # 1 /\ (i - 1) + 1 = i /\ (i + 1) - 1 = i /\ i + 1 # k + 1 /\ i + 1 # 1
      BY <1>2, <1>3, <2>6
    <3>2. new[i] = kids[i + 1] /\ new[i - 1] = kids[i] /\ i + 1 \in 1..n BY <1>6, <1>13, <2>6, <3>1
    <3>3. Prev(g, kids[i + 1]) = Prev(h, kids[i + 1]) BY <1>12, <1>13, <2>6, <3>1
    <3>4. Prev(h, kids[i + 1]) = kids[(i + 1) - 1] BY <1>2, <3>1, <3>2
    <3> QED BY <3>1, <3>2, <3>3, <3>4
  <2> QED BY <1>13, <2>2, <2>3, <2>4, <2>5, <2>6
<1>18. ASSUME NEW i \in 1..(n - 1), NEW j \in 1..(n - 1), new[i] = new[j] PROVE i = j
  <2>1. ASSUME NEW a \in 1..(n - 1)
        PROVE  \E b \in 1..n : new[a] = kids[b] /\ (a < k => b = a) /\ (~(a < k) => b = a + 1)
    <3>1. CASE a \in 1..(k - 1)
      <4>1. a \in 1..n /\ a < k BY <1>3, <1>13, <3>1
      <4> QED BY <1>6, <3>1, <4>1
    <3>2. CASE a \in k..(n - 1)
      <4>1. a + 1 \in 1..n /\ ~(a < k) BY <1>2, <1>3, <1>13, <3>2
      <4> QED BY <1>6, <3>2, <4>1
    <3> QED BY <1>13, <3>1, <3>2
  <2>2. PICK b \in 1..n : new[i] = kids[b] /\ (i < k => b = i) /\ (~(i < k) => b = i + 1) BY <2>1
  <2>3. PICK d \in 1..n : new[j] = kids[d] /\ (j < k => d = j) /\ (~(j < k) => d = j + 1) BY <2>1
  <2>4. b = d
    <3>1. kids[b] = kids[d] BY <1>18, <2>2, <2>3
    <3> QED BY <1>2, <3>1
  <2>5. i \in Int /\ j \in Int /\ k \in Int BY <1>2, <1>3
  <2> QED BY <2>2, <2>3, <2>4, <2>5
<1>19. IsList(g, parent, new) BY <1>5, <1>6, <1>14, <1>15, <1>16, <1>17, <1>18 DEF IsList, Child, Next, Prev
<1> QED BY <1>19 DEF g

\* cJSON_DetachItemViaPointer takes an item out of its list, wherever in it the item
\* is; it leads nowhere then, and can be added to any list.
THEOREM DetachRemoves ==
  ASSUME NEW h \in HeapType, NEW parents, NEW lists \in [parents -> Seq(Heap)], AreLists(h, lists),
         NEW parent \in parents, NEW k \in 1..Len(lists[parent])
  PROVE  LET item == lists[parent][k]
             c == cJSON_DetachItemViaPointer(h, parent, item)
             new == RemoveAt(lists[parent], k)
         IN /\ c.r = item
            /\ Becomes(h, c.h, lists, parent, item, new)
            /\ Loose(c.h, [lists EXCEPT ![parent] = new], item)
            /\ c.h[item].next = NULL /\ c.h[item].prev = NULL
<1> DEFINE kids == lists[parent]
           n == Len(kids)
           item == kids[k]
           items == Range(kids) \cup {item}
           c == cJSON_DetachItemViaPointer(h, parent, item)
           new == RemoveAt(kids, k)
           after == [lists EXCEPT ![parent] = new]
<1>1. IsItem(h, parent) /\ IsList(h, parent, kids) /\ kids \in Seq(Heap) BY DEF AreLists
<1>2. n \in Nat /\ DOMAIN kids = 1..n /\ item \in items /\ \A i \in 1..n : kids[i] \in items
  BY <1>1 DEF Range
<1>3. item \in Heap /\ IsItem(h, item) /\ item \in Range(kids) BY <1>1, <1>2 DEF IsList, IsItem, Range
<1>4. c.r = item /\ OnlyLinks(h, c.h, parent, items) /\ IsDetached(h, c.h, parent, kids, n, k)
  <2>1. k \in 1..Len(kids) /\ Range(kids) \subseteq items OBVIOUS
  <2> HIDE DEF kids, items, n
  <2>2. Detaches(h, cJSON_DetachItemViaPointer(h, parent, kids[k]), parent, kids, k, items)
    BY <1>1, <2>1, DetachLinks
  <2> QED BY <2>2 DEF Detaches, n
<1>5. IsList(c.h, parent, new) BY <1>1, DetachList
<1>6. new \in Seq(Heap) /\ IsRemoved(new, kids, n, k) BY <1>1, RemoveAtIs
<1>7. \A i \in DOMAIN new : \E j \in 1..n : j # k /\ new[i] = kids[j]
  <2> HIDE DEF new, n
  <2>1. DOMAIN new = 1..(n - 1) BY <1>6 DEF IsRemoved
  <2>2. ASSUME NEW i \in 1..(n - 1) PROVE \E j \in 1..n : j # k /\ new[i] = kids[j]
    <3>1. k \in Nat /\ 1 <= k /\ k <= n BY <1>2 DEF n
    <3>2. CASE i \in 1..(k - 1)
      <4>1. i \in 1..n /\ i # k BY <1>2, <3>1, <3>2
      <4> QED BY <1>6, <3>2, <4>1 DEF IsRemoved
    <3>3. CASE i \in k..(n - 1)
      <4>1. i + 1 \in 1..n /\ i + 1 # k BY <1>2, <3>1, <3>3
      <4> QED BY <1>6, <3>3, <4>1 DEF IsRemoved
    <3>4. i \in 1..(k - 1) \/ i \in k..(n - 1) BY <1>2, <3>1
    <3> QED BY <3>2, <3>3, <3>4
  <2> QED BY <2>1, <2>2
<1>8. \A i \in DOMAIN new : new[i] \in items BY <1>2, <1>7
<1>9. Becomes(h, c.h, lists, parent, item, new)
  <2> HIDE DEF new, c
  <2> QED BY <1>3, <1>4, <1>5, <1>6, <1>8, BecomesIf
<1>10. c.h[item].next = NULL /\ c.h[item].prev = NULL /\ IsItem(c.h, item)
  <2> HIDE DEF c
  <2> QED BY <1>3, <1>4 DEF IsDetached, Next, Prev
<1>11. \A i \in DOMAIN new : new[i] # item
  <2>1. \A j \in 1..n : kids[j] = kids[k] => j = k BY <1>1 DEF IsList
  <2> HIDE DEF new, n, kids
  <2> QED BY <1>7, <2>1
<1>12. \A p \in parents : p # parent => \A i \in DOMAIN lists[p] : lists[p][i] # item
  <2>1. \A p \in parents \ {parent} : \A i \in DOMAIN lists[p] : lists[p][i] \notin items BY <1>3, Apart
  <2> QED BY <1>2, <2>1
<1>13. Loose(c.h, after, item)
  <2>1. DOMAIN after = parents /\ after[parent] = new /\ \A p \in parents : p # parent => after[p] = lists[p]
    OBVIOUS
  <2> HIDE DEF after, new, c, item
  <2> QED BY <1>10, <1>11, <1>12, <2>1 DEF Loose
<1> HIDE DEF new, c
<1> QED BY <1>4, <1>9, <1>10, <1>13 DEF new, c

(***************************************************************************)
(* Replacement.                                                            *)
(***************************************************************************)
\* The links when new is in place of the k-th.
IsReplaced(h, g, parent, kids, n, k, new) ==
  \A p \in Heap :
    /\ IsItem(h, p) => IsItem(g, p)
    /\ Child(g, p) = IF k = 1 /\ p = parent THEN new ELSE Child(h, p)
    /\ Next(g, p) = IF p = kids[k] THEN NULL
                    ELSE IF k # 1 /\ p = Before(kids, n, k) THEN new
                    ELSE IF p = new THEN Behind(kids, n, k) ELSE Next(h, p)
    /\ Prev(g, p) = IF p = kids[k] THEN NULL
                    ELSE IF (k # n /\ p = Behind(kids, n, k)) \/ (k = n /\ k # 1 /\ p = kids[1]) THEN new
                    ELSE IF p = new THEN (IF n = 1 THEN new ELSE Before(kids, n, k)) ELSE Prev(h, p)

LEMMA ReplaceLinks ==
  ASSUME NEW h \in HeapType, NEW parent, IsItem(h, parent),
         NEW kids \in Seq(Heap), IsList(h, parent, kids), NEW k \in 1..Len(kids),
         NEW new, IsItem(h, new), new \notin Range(kids),
         NEW items, Range(kids) \subseteq items, new \in items
  PROVE  /\ OnlyLinks(h, replace_links(h, parent, kids[k], new), parent, items)
         /\ IsReplaced(h, replace_links(h, parent, kids[k], new), parent, kids, Len(kids), k, new)
<1> DEFINE n == Len(kids)
           g == replace_links(h, parent, kids[k], new)
           next == Behind(kids, n, k)
           prev == Before(kids, n, k)
           alone == IF n = 1 THEN new ELSE prev
<1>0. n = Len(kids) /\ k \in 1..n /\ g = replace_links(h, parent, kids[k], new)
      /\ \A i \in 1..n : kids[i] \in items /\ kids[i] # new
  BY DEF Range
<1> HIDE DEF n, g
<1> USE <1>0
<1>1. parent \in Heap /\ parent # NULL /\ new \in Heap /\ new # NULL /\ new \in Int BY HeapIs DEF IsItem
<1>2. /\ n \in Nat /\ DOMAIN kids = 1..n
      /\ \A i \in 1..n : kids[i] \in Heap /\ IsItem(h, kids[i])
      /\ Child(h, parent) = IF n = 0 THEN NULL ELSE kids[1]
      /\ \A i \in 1..n : Next(h, kids[i]) = IF i = n THEN NULL ELSE kids[i + 1]
      /\ \A i \in 1..n : Prev(h, kids[i]) = IF i = 1 THEN kids[n] ELSE kids[i - 1]
      /\ \A i, j \in 1..n : kids[i] = kids[j] => i = j
  <2>1. IsListOf(h, parent, kids, n) BY ListIs
  <2> QED BY <2>1 DEF IsListOf
<1>3. k \in Nat /\ 1 \in 1..n /\ n \in 1..n /\ n # 0 /\ (k # 1 => k - 1 \in 1..n) /\ (k # n => k + 1 \in 1..n)
      /\ (n = 1 => k = 1 /\ k = n)
  BY <1>2
<1> DEFINE item == kids[k]
           first == kids[1]
<1>4. /\ item \in Heap /\ IsItem(h, item) /\ item \in items /\ item # NULL /\ item # new
      /\ first \in Heap /\ IsItem(h, first) /\ first \in items /\ first # NULL /\ first # new
      /\ first = item <=> k = 1
      /\ h[item].next = next /\ h[item].prev = prev /\ h[parent].child = first
  BY <1>2, <1>3, HeapIs DEF Next, Prev, Child, Behind, Before
<1>5. /\ prev \in Heap /\ IsItem(h, prev) /\ prev \in items /\ prev # NULL /\ prev \in Int /\ prev # new
      /\ next = NULL <=> k = n
      /\ k # n => next \in Heap /\ IsItem(h, next) /\ next \in items /\ next # item /\ next # new
      /\ next \in Int /\ NULL \in Int
      /\ k # 1 => prev # item
      /\ k = 1 => (prev = item <=> n = 1)
  <2>1. \E i \in 1..n : prev = kids[i] /\ (k # 1 => i # k) /\ (k = 1 => i = n) BY <1>3 DEF Before
  <2>2. k # n => \E i \in 1..n : next = kids[i] /\ i # k BY <1>3 DEF Behind
  <2>3. k # 1 => prev # item BY <1>2, <2>1
  <2>4. /\ prev \in Heap /\ IsItem(h, prev) /\ prev \in items /\ prev # new BY <1>2, <2>1
  <2>5. k # n => next \in Heap /\ IsItem(h, next) /\ next \in items /\ next # item /\ next # new BY <1>2, <2>2
  <2>6. k = n => next = NULL BY DEF Behind
  <2>7. k = 1 => (prev = item <=> n = 1)
    <3>1. k = 1 => prev = kids[n] BY DEF Before
    <3>2. kids[n] = kids[1] <=> n = 1 BY <1>2, <1>3
    <3> QED BY <3>1, <3>2
  <2> HIDE DEF item, next, prev
  <2> QED BY <2>3, <2>4, <2>5, <2>6, <2>7, HeapIs
<1> HIDE DEF item, first, next, prev
<1>6. alone \in Int BY <1>1, <1>5
<1> DEFINE a1 == [h EXCEPT ![new].next = next]
           h1 == [a1 EXCEPT ![new].prev = prev]
           h2 == IF k = n THEN h1 ELSE [h1 EXCEPT ![next].prev = new]
           b1 == IF k = 1 THEN [h2 EXCEPT ![new].prev = alone] ELSE [h2 EXCEPT ![prev].next = new]
           h3 == IF k = 1 THEN [b1 EXCEPT ![parent].child = new]
                 ELSE IF k = n THEN [b1 EXCEPT ![first].prev = new] ELSE b1
           h4 == [h3 EXCEPT ![item].next = NULL]
           h5 == [h4 EXCEPT ![item].prev = NULL]
<1>7. Sets(h, a1, new, "next", next) BY <1>1, <1>5, SetsNext
<1>8. a1 \in HeapType /\ \A p \in Heap : IsItem(a1, p) <=> IsItem(h, p) BY <1>7 DEF Sets
<1> HIDE DEF a1
<1>9. Sets(a1, h1, new, "prev", prev) BY <1>1, <1>5, <1>8, SetsPrev
<1>10. h1 \in HeapType /\ \A p \in Heap : IsItem(h1, p) <=> IsItem(h, p) BY <1>8, <1>9 DEF Sets
<1>11. h1 = [h EXCEPT ![new].next = next, ![new].prev = prev] BY DEF h1, a1
<1> HIDE DEF h1
<1>12. /\ k = n => h2 = h1
       /\ k # n => Sets(h1, h2, next, "prev", new)
  BY <1>1, <1>5, <1>10, SetsPrev
<1> HIDE DEF h2
<1>13. h2 \in HeapType /\ \A p \in Heap : IsItem(h2, p) <=> IsItem(h, p) BY <1>10, <1>12 DEF Sets
<1>14. /\ k = 1 => Sets(h2, b1, new, "prev", alone)
       /\ k # 1 => Sets(h2, b1, prev, "next", new)
  BY <1>1, <1>5, <1>6, <1>13, SetsPrev, SetsNext
<1> HIDE DEF b1
<1>15. b1 \in HeapType /\ \A p \in Heap : IsItem(b1, p) <=> IsItem(h, p) BY <1>13, <1>14 DEF Sets
<1>16. /\ k = 1 => Sets(b1, h3, parent, "child", new)
       /\ k # 1 /\ k = n => Sets(b1, h3, first, "prev", new)
       /\ k # 1 /\ k # n => h3 = b1
  BY <1>1, <1>4, <1>15, SetsPrev, SetsChild
<1> HIDE DEF h3
<1>17. h3 \in HeapType /\ \A p \in Heap : IsItem(h3, p) <=> IsItem(h, p) BY <1>15, <1>16 DEF Sets
<1>18. Sets(h3, h4, item, "next", NULL) BY <1>4, <1>5, <1>17, SetsNext
<1>19. h4 \in HeapType /\ \A p \in Heap : IsItem(h4, p) <=> IsItem(h, p) BY <1>17, <1>18 DEF Sets
<1> HIDE DEF h4
<1>20. Sets(h4, h5, item, "prev", NULL) BY <1>4, <1>5, <1>19, SetsPrev
<1>21. h5 = [h3 EXCEPT ![item].next = NULL, ![item].prev = NULL] BY DEF h5, h4
<1> HIDE DEF h5
\* What the code looks at in between is still so.
<1>22. /\ h2[parent].child = first
       /\ k = 1 => h2[item].prev = prev /\ h2[new].prev = prev
       /\ k # 1 => b1[parent].child = first
  <2>1. \A p \in Heap : Child(h1, p) = Child(h, p)
    BY <1>7, <1>9 DEF Sets
  <2>2. \A p \in Heap : Child(h2, p) = Child(h1, p) BY <1>12 DEF Sets
  <2>3. k # 1 => \A p \in Heap : Child(b1, p) = Child(h2, p) BY <1>14 DEF Sets
  <2>4. Prev(h1, item) = prev /\ Prev(h1, new) = prev
    <3>1. Prev(h, item) = prev BY <1>4 DEF Prev
    <3>2. Prev(a1, item) = prev BY <1>4, <1>7, <3>1 DEF Sets
    <3> QED BY <1>1, <1>4, <1>9, <3>2 DEF Sets
  <2>5. Prev(h2, item) = prev /\ Prev(h2, new) = prev
    <3>1. CASE k = n BY <1>12, <2>4, <3>1
    <3>2. CASE k # n BY <1>1, <1>4, <1>5, <1>12, <2>4, <3>2 DEF Sets
    <3> QED BY <3>1, <3>2
  <2> QED BY <1>1, <1>4, <2>1, <2>2, <2>3, <2>5 DEF Child, Prev
<1>23. g = h5
  <2> DEFINE r1 == [h EXCEPT ![new].next = h[item].next, ![new].prev = h[item].prev]
             r2 == IF h[item].next = NULL THEN r1 ELSE [r1 EXCEPT ![h[item].next].prev = new]
             q == IF h[item].prev = NULL THEN r2 ELSE [r2 EXCEPT ![h[item].prev].next = new]
             u == [r2 EXCEPT ![new].prev = IF r2[item].prev = item THEN new ELSE @, ![parent].child = new]
             v == IF h[item].next = NULL THEN [q EXCEPT ![q[parent].child].prev = new] ELSE q
             r3 == IF r2[parent].child = item THEN u ELSE v
             r == [r3 EXCEPT ![item].next = NULL, ![item].prev = NULL]
  <2>1. replace_links(h, parent, item, new) = r BY Zenon DEF replace_links
  <2>2. g = r BY <2>1 DEF item
  <2>3. r1 = h1 BY <1>4, <1>11
  <2>4. r2 = h2
    <3> HIDE DEF r1
    <3> QED BY <1>4, <1>5, <2>3 DEF h2
  <2> HIDE DEF r2
  <2>5. k # 1 => q = b1 BY <1>4, <1>5, <2>4 DEF b1
  <2>6. k = 1 => u = h3
    <3>1. k = 1 => (IF h2[item].prev = item THEN new ELSE h2[new].prev) = alone BY <1>5, <1>22
    <3>2. k = 1 => b1 = [h2 EXCEPT ![new].prev = alone] /\ h3 = [b1 EXCEPT ![parent].child = new]
      BY DEF b1, h3
    <3>3. u = [h2 EXCEPT ![new].prev = IF h2[item].prev = item THEN new ELSE h2[new].prev, ![parent].child = new]
      BY <2>4
    <3> HIDE DEF u, alone
    <3> QED BY <3>1, <3>2, <3>3
  <2> HIDE DEF q
  <2>7. k # 1 => v = h3 BY <1>4, <1>5, <1>22, <2>5 DEF h3
  <2> HIDE DEF u, v
  <2>8. r3 = h3 BY <1>4, <1>22, <2>4, <2>6, <2>7
  <2> HIDE DEF r3
  <2> QED BY <1>21, <2>2, <2>8
<1>24. OnlyLinks(h, h5, parent, items)
  <2>1. OnlyLinks(h, h, parent, items) BY SameLinks
  <2>2. OnlyLinks(h, a1, parent, items) BY <1>7, <2>1, SetsThen
  <2>3. OnlyLinks(h, h1, parent, items) BY <1>9, <2>2, SetsThen
  <2>4. OnlyLinks(h, h2, parent, items)
    <3>1. CASE k = n BY <1>12, <2>3, <3>1
    <3>2. CASE k # n BY <1>5, <1>12, <2>3, <3>2, SetsThen
    <3> QED BY <3>1, <3>2
  <2>5. OnlyLinks(h, b1, parent, items)
    <3>1. CASE k = 1 BY <1>14, <2>4, <3>1, SetsThen
    <3>2. CASE k # 1 BY <1>5, <1>14, <2>4, <3>2, SetsThen
    <3> QED BY <3>1, <3>2
  <2>6. OnlyLinks(h, h3, parent, items)
    <3>1. CASE k = 1 BY <1>16, <2>5, <3>1, SetsHead
    <3>2. CASE k # 1 /\ k = n BY <1>4, <1>16, <2>5, <3>2, SetsThen
    <3>3. CASE k # 1 /\ k # n BY <1>16, <2>5, <3>3
    <3> QED BY <3>1, <3>2, <3>3
  <2>7. OnlyLinks(h, h4, parent, items) BY <1>4, <1>18, <2>6, SetsThen
  <2> QED BY <1>4, <1>20, <2>7, SetsThen
<1>25. ASSUME NEW p \in Heap
       PROVE  /\ IsItem(h, p) => IsItem(h5, p)
              /\ Child(h5, p) = IF k = 1 /\ p = parent THEN new ELSE Child(h, p)
              /\ Next(h5, p) = IF p = item THEN NULL
                               ELSE IF k # 1 /\ p = prev THEN new
                               ELSE IF p = new THEN next ELSE Next(h, p)
              /\ Prev(h5, p) = IF p = item THEN NULL
                               ELSE IF (k # n /\ p = next) \/ (k = n /\ k # 1 /\ p = first) THEN new
                               ELSE IF p = new THEN alone ELSE Prev(h, p)
  <2>1. /\ Child(h1, p) = Child(h, p)
        /\ Prev(h1, p) = IF p = new THEN prev ELSE Prev(h, p)
        /\ Next(h1, p) = IF p = new THEN next ELSE Next(h, p)
    BY <1>7, <1>9 DEF Sets
  <2>2. /\ Child(h2, p) = Child(h1, p) /\ Next(h2, p) = Next(h1, p)
        /\ Prev(h2, p) = IF k # n /\ p = next THEN new ELSE Prev(h1, p)
    BY <1>12 DEF Sets
  <2>3. /\ Child(b1, p) = Child(h2, p)
        /\ Next(b1, p) = IF k # 1 /\ p = prev THEN new ELSE Next(h2, p)
        /\ Prev(b1, p) = IF k = 1 /\ p = new THEN alone ELSE Prev(h2, p)
    BY <1>14 DEF Sets
  <2>4. /\ Child(h3, p) = IF k = 1 /\ p = parent THEN new ELSE Child(b1, p)
        /\ Next(h3, p) = Next(b1, p)
        /\ Prev(h3, p) = IF k = n /\ k # 1 /\ p = first THEN new ELSE Prev(b1, p)
    BY <1>16 DEF Sets
  <2>5. /\ Child(h4, p) = Child(h3, p) /\ Prev(h4, p) = Prev(h3, p)
        /\ Next(h4, p) = IF p = item THEN NULL ELSE Next(h3, p)
    BY <1>18 DEF Sets
  <2>6. /\ Child(h5, p) = Child(h4, p) /\ Next(h5, p) = Next(h4, p)
        /\ Prev(h5, p) = IF p = item THEN NULL ELSE Prev(h4, p)
        /\ IsItem(h5, p) <=> IsItem(h4, p)
    BY <1>20 DEF Sets
  <2> HIDE DEF alone
  <2>7. IsItem(h, p) => IsItem(h5, p) BY <1>19, <2>6
  <2>8. Child(h5, p) = IF k = 1 /\ p = parent THEN new ELSE Child(h, p)
    BY <2>1, <2>2, <2>3, <2>4, <2>5, <2>6
  <2>9. Next(h5, p) = IF p = item THEN NULL
                      ELSE IF k # 1 /\ p = prev THEN new
                      ELSE IF p = new THEN next ELSE Next(h, p)
    BY <2>1, <2>2, <2>3, <2>4, <2>5, <2>6
  <2>10. Prev(h5, p) = IF p = item THEN NULL
                       ELSE IF (k # n /\ p = next) \/ (k = n /\ k # 1 /\ p = first) THEN new
                       ELSE IF p = new THEN alone ELSE Prev(h, p)
    <3>1. k # 1 => alone = prev BY <1>3 DEF alone
    <3>2. k # n => next # new BY <1>5
    <3> QED BY <1>4, <2>1, <2>2, <2>3, <2>4, <2>5, <2>6, <3>1, <3>2
  <2> QED BY <2>7, <2>8, <2>9, <2>10
<1>26. IsReplaced(h, h5, parent, kids, n, k, new) BY <1>25 DEF IsReplaced, item, first, next, prev
<1> QED BY <1>23, <1>24, <1>26 DEF n, g

LEMMA ReplaceList ==
  ASSUME NEW h \in HeapType, NEW parent, IsItem(h, parent),
         NEW kids \in Seq(Heap), IsList(h, parent, kids), NEW k \in 1..Len(kids),
         NEW new, IsItem(h, new), new \notin Range(kids), NEW g,
         IsReplaced(h, g, parent, kids, Len(kids), k, new)
  PROVE  IsList(g, parent, [kids EXCEPT ![k] = new])
<1> DEFINE n == Len(kids)
           s == [kids EXCEPT ![k] = new]
           next == Behind(kids, n, k)
           prev == Before(kids, n, k)
           item == kids[k]
<1>0. /\ n = Len(kids) /\ n \in Nat /\ DOMAIN kids = 1..n /\ k \in 1..n
      /\ Len(s) = n /\ s[k] = new /\ \A i \in 1..n : i # k => s[i] = kids[i]
      /\ \A i \in 1..n : kids[i] # new
  BY DEF Range
<1> HIDE DEF n, s
<1> USE <1>0
<1>1. parent \in Heap /\ new \in Heap BY DEF IsItem
<1>2. /\ \A i \in 1..n : kids[i] \in Heap /\ IsItem(h, kids[i])
      /\ Child(h, parent) = IF n = 0 THEN NULL ELSE kids[1]
      /\ \A i \in 1..n : Next(h, kids[i]) = IF i = n THEN NULL ELSE kids[i + 1]
      /\ \A i \in 1..n : Prev(h, kids[i]) = IF i = 1 THEN kids[n] ELSE kids[i - 1]
      /\ \A i, j \in 1..n : kids[i] = kids[j] => i = j
  <2>1. IsListOf(h, parent, kids, n) BY ListIs
  <2> QED BY <2>1 DEF IsListOf
<1>3. \A p \in Heap :
        /\ IsItem(h, p) => IsItem(g, p)
        /\ Child(g, p) = IF k = 1 /\ p = parent THEN new ELSE Child(h, p)
        /\ Next(g, p) = IF p = item THEN NULL
                        ELSE IF k # 1 /\ p = prev THEN new
                        ELSE IF p = new THEN next ELSE Next(h, p)
        /\ Prev(g, p) = IF p = item THEN NULL
                        ELSE IF (k # n /\ p = next) \/ (k = n /\ k # 1 /\ p = kids[1]) THEN new
                        ELSE IF p = new THEN (IF n = 1 THEN new ELSE prev) ELSE Prev(h, p)
  BY DEF IsReplaced
<1>4. /\ k \in Nat /\ 1 \in 1..n /\ n \in 1..n /\ n # 0
      /\ k # 1 => k - 1 \in 1..n /\ prev = kids[k - 1]
      /\ k = 1 => prev = kids[n]
      /\ k # n => k + 1 \in 1..n /\ next = kids[k + 1]
      /\ k = n => next = NULL
      /\ n = 1 => k = 1
  BY DEF next, prev, Before, Behind
<1> HIDE DEF next, prev, item
<1>5. \A i \in 1..n : i # k => kids[i] # item BY <1>2 DEF item
<1>6. item # new /\ (k # n => next # new) /\ prev # new BY <1>4 DEF item
<1>7. \A i \in 1..n : IsItem(g, s[i]) BY <1>1, <1>2, <1>3
<1>8. Child(g, parent) = s[1] BY <1>1, <1>2, <1>3, <1>4
<1>9. Next(g, new) = next BY <1>1, <1>3, <1>6
<1>10. Prev(g, new) = IF n = 1 THEN new ELSE prev
  <2>1. ~((k # n /\ new = next) \/ (k = n /\ k # 1 /\ new = kids[1])) BY <1>4, <1>6
  <2> QED BY <1>1, <1>3, <1>6, <2>1
<1>11. ASSUME NEW i \in 1..n PROVE Next(g, s[i]) = IF i = n THEN NULL ELSE s[i + 1]
  <2>1. CASE i = k
    <3>1. k # n => k + 1 # k /\ s[k + 1] = kids[k + 1] BY <1>4
    <3> QED BY <1>4, <1>9, <2>1, <3>1
  <2>2. CASE i # k /\ i = k - 1
    <3>1. k # 1 /\ s[i] = kids[k - 1] /\ kids[i] # item /\ kids[i] \in Heap BY <1>2, <1>4, <1>5, <2>2
    <3>2. Next(g, s[i]) = new BY <1>3, <1>4, <2>2, <3>1
    <3>3. i # n /\ i + 1 = k BY <1>4, <2>2
    <3> QED BY <3>2, <3>3
  <2>3. CASE i # k /\ i # k - 1
    <3>1. s[i] = kids[i] /\ kids[i] # item /\ kids[i] \in Heap /\ kids[i] # new BY <1>2, <1>5, <2>3
    <3>2. k # 1 => kids[i] # prev BY <1>2, <1>4, <2>3
    <3>3. Next(g, s[i]) = Next(h, kids[i]) BY <1>3, <3>1, <3>2
    <3>4. i # n => i + 1 \in 1..n /\ i + 1 # k BY <1>4, <2>3
    <3>5. i # n => s[i + 1] = kids[i + 1] BY <3>4
    <3> QED BY <1>2, <3>3, <3>5
  <2> QED BY <2>1, <2>2, <2>3
<1>12. ASSUME NEW i \in 1..n PROVE Prev(g, s[i]) = IF i = 1 THEN s[n] ELSE s[i - 1]
  <2>1. CASE i = k
    <3>1. CASE n = 1 BY <1>4, <1>10, <2>1, <3>1
    <3>2. CASE n # 1 /\ k = 1
      <4>1. s[n] = kids[n] BY <1>4, <3>2
      <4> QED BY <1>4, <1>10, <2>1, <3>2, <4>1
    <3>3. CASE n # 1 /\ k # 1
      <4>1. s[k - 1] = kids[k - 1] BY <1>4, <3>3
      <4> QED BY <1>4, <1>10, <2>1, <3>3, <4>1
    <3> QED BY <3>1, <3>2, <3>3
  <2>2. CASE i # k /\ i = k + 1
    <3>1. k # n /\ s[i] = next /\ kids[i] # item /\ kids[i] = next /\ kids[i] \in Heap
      <4>1. k # n BY <1>4, <2>2
      <4> QED BY <1>2, <1>4, <1>5, <2>2, <4>1
    <3>2. Prev(g, s[i]) = new BY <1>3, <3>1
    <3>3. i # 1 /\ i - 1 = k BY <1>4, <2>2
    <3> QED BY <3>2, <3>3
  <2>3. CASE i # k /\ i # k + 1 /\ i = 1 /\ k = n
    <3>1. k # 1 /\ s[1] = kids[1] /\ kids[1] # item /\ kids[1] \in Heap BY <1>2, <1>4, <1>5, <2>3
    <3>2. Prev(g, s[1]) = new BY <1>3, <2>3, <3>1
    <3> QED BY <2>3, <3>2
  <2>4. CASE i # k /\ i # k + 1 /\ ~(i = 1 /\ k = n)
    <3>1. s[i] = kids[i] /\ kids[i] # item /\ kids[i] \in Heap /\ kids[i] # new BY <1>2, <1>5, <2>4
    <3>2. k # n => kids[i] # next BY <1>2, <1>4, <2>4
    <3>3. k = n => kids[i] # kids[1] BY <1>2, <1>4, <2>4
    <3>4. Prev(g, s[i]) = Prev(h, kids[i]) BY <1>3, <3>1, <3>2, <3>3
    <3>5. Prev(h, kids[i]) = IF i = 1 THEN kids[n] ELSE kids[i - 1] BY <1>2
    <3>6. i = 1 => s[n] = kids[n] BY <1>4, <2>4
    <3>7. i # 1 => i - 1 \in 1..n /\ i - 1 # k BY <1>4, <2>4
    <3>8. i # 1 => s[i - 1] = kids[i - 1] BY <3>7
    <3> QED BY <3>4, <3>5, <3>6, <3>8
  <2> QED BY <2>1, <2>2, <2>3, <2>4
<1>13. \A i, j \in 1..n : s[i] = s[j] => i = j
  <2> SUFFICES ASSUME NEW i \in 1..n, NEW j \in 1..n, s[i] = s[j] PROVE i = j OBVIOUS
  <2>1. CASE i = k /\ j # k BY <2>1
  <2>2. CASE i # k /\ j = k BY <2>2
  <2>3. CASE i # k /\ j # k BY <1>2, <2>3
  <2>4. CASE i = k /\ j = k BY <2>4
  <2> QED BY <2>1, <2>2, <2>3, <2>4
<1>14. IsList(g, parent, s) BY <1>4, <1>7, <1>8, <1>11, <1>12, <1>13 DEF IsList, Child, Next, Prev
<1> QED BY <1>14 DEF s

\* cJSON_ReplaceItemViaPointer puts an item that is in no list in the place of another,
\* whatever its own links were; the other is in no list then, and leads nowhere.
THEOREM ReplaceReplaces ==
  ASSUME NEW h \in HeapType, NEW parents, NEW lists \in [parents -> Seq(Heap)], AreLists(h, lists),
         NEW parent \in parents, NEW k \in 1..Len(lists[parent]), NEW new, Loose(h, lists, new)
  PROVE  LET item == lists[parent][k]
             g == replace_links(h, parent, item, new)
             kids == ReplaceAt(lists[parent], k, new)
         IN /\ Becomes(h, g, lists, parent, new, kids)
            /\ Loose(g, [lists EXCEPT ![parent] = kids], item)
            /\ g[item].next = NULL /\ g[item].prev = NULL
<1> DEFINE old == lists[parent]
           n == Len(old)
           item == old[k]
           items == Range(old) \cup {new}
           g == replace_links(h, parent, item, new)
           kids == [old EXCEPT ![k] = new]
           after == [lists EXCEPT ![parent] = kids]
<1>1. IsItem(h, parent) /\ IsList(h, parent, old) /\ old \in Seq(Heap) BY DEF AreLists
<1>2. /\ n \in Nat /\ DOMAIN old = 1..n /\ k \in 1..n /\ new \in items /\ \A i \in 1..n : old[i] \in items
      /\ IsItem(h, new) /\ new \in Heap /\ new \notin Range(old)
  BY <1>1 DEF Range, Loose, IsItem
<1>3. item \in Heap /\ IsItem(h, item) /\ item \in Range(old) BY <1>1, <1>2 DEF IsList, IsItem, Range
<1>4. OnlyLinks(h, g, parent, items) /\ IsReplaced(h, g, parent, old, n, k, new)
  <2>1. k \in 1..Len(old) /\ Range(old) \subseteq items OBVIOUS
  <2> HIDE DEF old, items, n
  <2>2. /\ OnlyLinks(h, replace_links(h, parent, old[k], new), parent, items)
        /\ IsReplaced(h, replace_links(h, parent, old[k], new), parent, old, Len(old), k, new)
    BY <1>1, <1>2, <2>1, ReplaceLinks
  <2> QED BY <2>2 DEF n
<1>5. IsList(g, parent, kids)
  <2>1. k \in 1..Len(old) /\ IsReplaced(h, g, parent, old, Len(old), k, new) BY <1>4
  <2> HIDE DEF old, g, n
  <2> QED BY <1>1, <1>2, <2>1, ReplaceList
<1>6. /\ kids \in Seq(Heap) /\ DOMAIN kids = 1..n /\ kids[k] = new
      /\ \A i \in 1..n : i # k => kids[i] = old[i]
  BY <1>1, <1>2
<1>7. \A i \in DOMAIN kids : kids[i] \in items
  <2> HIDE DEF kids, items, n, old
  <2> QED BY <1>2, <1>6
<1>8. Becomes(h, g, lists, parent, new, kids)
  <2> HIDE DEF kids, g
  <2> QED BY <1>4, <1>5, <1>6, <1>7, BecomesIf
<1>9. g[item].next = NULL /\ g[item].prev = NULL /\ IsItem(g, item)
  <2> HIDE DEF g
  <2> QED BY <1>3, <1>4 DEF IsReplaced, Next, Prev
<1>10. \A i \in DOMAIN kids : kids[i] # item
  <2>1. \A j \in 1..n : old[j] = old[k] => j = k BY <1>1, <1>2 DEF IsList
  <2>2. new # item BY <1>2, <1>3
  <2> HIDE DEF kids, n, old
  <2> QED BY <1>6, <2>1, <2>2
<1>11. \A p \in parents : p # parent => \A i \in DOMAIN lists[p] : lists[p][i] # item
  <2>1. \A p \in parents \ {parent} : \A i \in DOMAIN lists[p] : lists[p][i] \notin Range(lists[parent]) \cup {item}
    BY <1>3, Apart
  <2> QED BY <2>1
<1>12. Loose(g, after, item)
  <2>1. DOMAIN after = parents /\ after[parent] = kids /\ \A p \in parents : p # parent => after[p] = lists[p]
    OBVIOUS
  <2> HIDE DEF after, kids, g, item
  <2> QED BY <1>9, <1>10, <1>11, <2>1 DEF Loose
<1>13. kids = ReplaceAt(old, k, new) BY DEF ReplaceAt
<1> HIDE DEF kids, g
<1> QED BY <1>8, <1>9, <1>12, <1>13 DEF g

================================================================================
