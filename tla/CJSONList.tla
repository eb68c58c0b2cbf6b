------------------------------- MODULE CJSONList -------------------------------
(***************************************************************************)
(* cJSON's items in memory and the lists they form (cJSON.c).  A heap maps *)
(* addresses to blocks; a block is free, an item or the characters of a    *)
(* string.  Every call is an operator on the heap that returns the new     *)
(* heap as h and its result as r.  An allocation fails when no block is    *)
(* free.                                                                   *)
(***************************************************************************)
EXTENDS Integers, Sequences

CONSTANTS
  Blocks,       \* blocks in the heap
  Literals,     \* strings of the program, that no call frees
  NestingLimit, \* CJSON_NESTING_LIMIT
  CircularLimit \* CJSON_CIRCULAR_LIMIT

ASSUME HeapAssumption == Blocks \in Nat /\ NestingLimit \in Nat /\ CircularLimit \in Nat

NULL == 0
Heap == 1..Blocks
\* The address of a literal is negative.
Literal(i) == -i
StringAt(h, p) == IF p < 0 THEN Literals[-p] ELSE h[p].s

Free == [kind |-> "free"]
Corrupt == [kind |-> "corrupt"]
Chars(s) == [kind |-> "chars", s |-> s]
Item == [kind |-> "item", type |-> "Invalid", ref |-> FALSE, constKey |-> FALSE, value |-> NULL,
         number |-> 0, key |-> NULL, next |-> NULL, prev |-> NULL, child |-> NULL]

EmptyHeap == [p \in Heap |-> Free]
Used(h) == {p \in Heap : h[p] # Free}

Ok(h, r) == [h |-> h, r |-> r]
Failed(h) == [h |-> h, r |-> NULL]

allocate(h, block) ==
  IF Used(h) = Heap THEN Failed(h)
  ELSE LET p == CHOOSE q \in Heap \ Used(h) : \A o \in Heap \ Used(h) : q <= o
       IN Ok([h EXCEPT ![p] = block], p)

deallocate(h, p) ==
  IF p = NULL THEN h ELSE [h EXCEPT ![p] = IF h[p] = Free THEN Corrupt ELSE Free]

cJSON_New_Item(h) == allocate(h, Item)
cJSON_strdup(h, s) == allocate(h, Chars(s))

(***************************************************************************)
(* Lists.  An item's child is the first of its list; the items are linked  *)
(* both ways, and the prev of the first is the last.                       *)
(***************************************************************************)
suffix_object(h, prev, item) == [h EXCEPT ![prev].next = item, ![item].prev = prev]

get_array_item(h, array, index) ==
  LET at[n \in Nat] == IF n = 0 THEN h[array].child
                       ELSE IF at[n - 1] = NULL THEN NULL ELSE h[at[n - 1]].next
  IN IF array = NULL \/ index < 0 THEN NULL ELSE at[index]

\* An array whose first item has no prev swallows the item.
\* Slip: the new last item is not noted in the first.
add_item_to_array_NoTail(h, array, item) ==
  IF item = NULL \/ array = NULL \/ array = item THEN Ok(h, FALSE)
  ELSE LET child == h[array].child
       IN IF child = NULL
          THEN Ok([h EXCEPT ![array].child = item, ![item].prev = item, ![item].next = NULL], TRUE)
          ELSE Ok(suffix_object(h, h[child].prev, item), TRUE)
add_item_to_array(h, array, item) ==
  IF item = NULL \/ array = NULL \/ array = item THEN Ok(h, FALSE)
  ELSE LET child == h[array].child
       IN IF child = NULL
          THEN Ok([h EXCEPT ![array].child = item, ![item].prev = item, ![item].next = NULL], TRUE)
          ELSE IF h[child].prev = NULL THEN Ok(h, TRUE)
          ELSE Ok([suffix_object(h, h[child].prev, item) EXCEPT ![child].prev = item], TRUE)

cJSON_DetachItemViaPointer(h, parent, item) ==
  IF parent = NULL \/ item = NULL \/ (item # h[parent].child /\ h[item].prev = NULL) THEN Failed(h)
  ELSE LET i == h[item]
           first == item = h[parent].child
           h1 == IF first THEN h ELSE [h EXCEPT ![i.prev].next = i.next]
           h2 == IF i.next = NULL THEN h1 ELSE [h1 EXCEPT ![i.next].prev = i.prev]
           h3 == IF first THEN [h2 EXCEPT ![parent].child = i.next]
                 ELSE IF i.next = NULL THEN [h2 EXCEPT ![h2[parent].child].prev = i.prev]
                 ELSE h2
       IN Ok([h3 EXCEPT ![item].prev = NULL, ![item].next = NULL], item)

\* Slip: a new first item does not become the array's child.
cJSON_InsertItemInArray_Behind(h, array, which, new) ==
  LET after == get_array_item(h, array, which)
      linked == [h EXCEPT ![new].next = after, ![new].prev = h[after].prev, ![after].prev = new]
  IN IF which < 0 \/ new = NULL THEN Ok(h, FALSE)
     ELSE IF after = NULL THEN add_item_to_array(h, array, new)
     ELSE Ok(IF after = h[array].child THEN linked ELSE [linked EXCEPT ![h[after].prev].next = new], TRUE)
cJSON_InsertItemInArray(h, array, which, new) ==
  LET after == get_array_item(h, array, which)
      first == after = h[array].child
      linked == [h EXCEPT ![new].next = after, ![new].prev = h[after].prev, ![after].prev = new]
  IN IF which < 0 \/ new = NULL THEN Ok(h, FALSE)
     ELSE IF after = NULL THEN add_item_to_array(h, array, new)
     ELSE IF ~first /\ h[after].prev = NULL THEN Ok(h, FALSE)
     ELSE Ok(IF first THEN [linked EXCEPT ![array].child = new]
             ELSE [linked EXCEPT ![h[after].prev].next = new], TRUE)

\* The links of cJSON_ReplaceItemViaPointer: new takes the place of item.
replace_links(h, parent, item, new) ==
  LET i == h[item]
      h1 == [h EXCEPT ![new].next = i.next, ![new].prev = i.prev]
      h2 == IF i.next = NULL THEN h1 ELSE [h1 EXCEPT ![i.next].prev = new]
      h3 == IF h2[parent].child = item
            THEN [h2 EXCEPT ![new].prev = IF h2[item].prev = item THEN new ELSE @,
                            ![parent].child = new]
            ELSE LET g == IF i.prev = NULL THEN h2 ELSE [h2 EXCEPT ![i.prev].next = new]
                 IN IF i.next = NULL THEN [g EXCEPT ![g[parent].child].prev = new] ELSE g
  IN [h3 EXCEPT ![item].next = NULL, ![item].prev = NULL]

(***************************************************************************)
(* What a list is.                                                         *)
(***************************************************************************)
Blocktype ==
  {Free, Corrupt} \cup [kind : {"chars"}, s : Seq(0..255)]
  \cup [kind : {"item"}, type : STRING, ref : BOOLEAN, constKey : BOOLEAN, value : Int, number : Int,
        key : Int, next : Int, prev : Int, child : Int]
HeapType == [Heap -> Blocktype]
IsItem(h, p) == p \in Heap /\ h[p].kind = "item"

\* The list of parent is kids: no item is in it twice, each knows the next and the
\* one before, the last has no next and the first knows the last.
IsList(h, parent, kids) ==
  LET n == Len(kids)
  IN /\ h[parent].child = IF n = 0 THEN NULL ELSE kids[1]
     /\ \A i \in 1..n :
          /\ IsItem(h, kids[i])
          /\ h[kids[i]].next = IF i = n THEN NULL ELSE kids[i + 1]
          /\ h[kids[i]].prev = IF i = 1 THEN kids[n] ELSE kids[i - 1]
     /\ \A i, j \in 1..n : kids[i] = kids[j] => i = j

\* Each parent's list is the one that lists gives it, and no item is in two.
AreLists(h, lists) ==
  /\ \A p \in DOMAIN lists : IsItem(h, p) /\ IsList(h, p, lists[p])
  /\ \A p, q \in DOMAIN lists : \A i \in DOMAIN lists[p], j \in DOMAIN lists[q] :
       lists[p][i] = lists[q][j] => p = q

================================================================================
