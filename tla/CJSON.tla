--------------------------------- MODULE CJSON ---------------------------------
(***************************************************************************)
(* cJSON's trees in memory (cJSON.c, all but printing and parsing): items  *)
(* that own their strings and the lists of their children.                 *)
(***************************************************************************)
EXTENDS CJSONList, FiniteSets

\* An item with what it owns, and all that follow it.
RECURSIVE cJSON_Delete(_, _)
cJSON_Delete(h, p) ==
  IF p = NULL THEN h
  ELSE LET item == h[p]
           h1 == IF item.ref THEN h ELSE deallocate(cJSON_Delete(h, item.child), item.value)
           h2 == IF item.constKey THEN h1 ELSE deallocate(h1, item.key)
       IN cJSON_Delete(deallocate(h2, p), item.next)

(***************************************************************************)
(* Creation.                                                               *)
(***************************************************************************)
\* An item of a type without a string; the number of others is 0.
Create(h, type, number) ==
  LET new == cJSON_New_Item(h)
  IN IF new.r = NULL THEN new
     ELSE Ok([new.h EXCEPT ![new.r].type = type, ![new.r].number = number], new.r)

\* A String or a Raw, which holds a copy of s.
CreateString(h, type, s) ==
  LET new == Create(h, type, 0)
      copy == cJSON_strdup(new.h, s)
  IN IF new.r = NULL THEN new
     ELSE IF copy.r = NULL THEN Failed(cJSON_Delete(copy.h, new.r))
     ELSE Ok([copy.h EXCEPT ![new.r].value = copy.r], new.r)

cJSON_CreateStringReference(h, p) ==
  LET new == Create(h, "String", 0)
  IN IF new.r = NULL THEN new
     ELSE Ok([new.h EXCEPT ![new.r].ref = TRUE, ![new.r].value = p], new.r)

\* An Array or an Object that shows the list that begins at child.
CreateReferenceTo(h, type, child) ==
  LET new == Create(h, type, 0)
  IN IF new.r = NULL THEN new
     ELSE Ok([new.h EXCEPT ![new.r].ref = TRUE, ![new.r].child = child], new.r)

\* The array of the numbers or strings vs: head's prev is set when all are there.
CreateOf(h, type, v) == IF type = "Number" THEN Create(h, type, v) ELSE CreateString(h, type, v)

RECURSIVE ArrayFrom(_, _, _, _, _)
ArrayFrom(h, a, last, type, vs) ==
  LET n == CreateOf(h, type, vs[1])
  IN IF vs = <<>>
     THEN Ok(IF last = NULL THEN h ELSE [h EXCEPT ![h[a].child].prev = last], a)
     ELSE IF n.r = NULL THEN Failed(cJSON_Delete(n.h, a))
     ELSE ArrayFrom(IF last = NULL THEN [n.h EXCEPT ![a].child = n.r] ELSE suffix_object(n.h, last, n.r),
                    a, n.r, type, Tail(vs))
CreateArrayOf(h, type, vs) ==
  LET a == Create(h, "Array", 0) IN IF a.r = NULL THEN a ELSE ArrayFrom(a.h, a.r, NULL, type, vs)

cJSON_CreateIntArray(h, numbers) == CreateArrayOf(h, "Number", numbers)
cJSON_CreateStringArray(h, strings) == CreateArrayOf(h, "String", strings)

(***************************************************************************)
(* Lists.                                                                  *)
(***************************************************************************)
\* The items from p on.
RECURSIVE ListFrom(_, _)
ListFrom(h, p) == IF p = NULL THEN <<>> ELSE <<p>> \o ListFrom(h, h[p].next)
Kids(h, parent) == ListFrom(h, h[parent].child)

Lower(s) == [i \in DOMAIN s |-> IF s[i] \in 65..90 THEN s[i] + 32 ELSE s[i]]
SameName(s, t, sensitive) == IF sensitive THEN s = t ELSE Lower(s) = Lower(t)

\* The first with the name.  When case matters the search ends at an item
\* without a key; otherwise it passes by.
get_object_item(h, object, name, sensitive) ==
  LET kids == Kids(h, object)
      Hit(i) == h[kids[i]].key # NULL /\ SameName(name, StringAt(h, h[kids[i]].key), sensitive)
      Stops(i) == Hit(i) \/ (sensitive /\ h[kids[i]].key = NULL)
      first == CHOOSE i \in DOMAIN kids : Stops(i) /\ \A j \in 1..(i - 1) : ~Stops(j)
  IN IF object = NULL \/ ~\E i \in DOMAIN kids : Stops(i) THEN NULL
     ELSE IF Hit(first) THEN kids[first] ELSE NULL

\* The key is copied before the item's own is freed: it may be that very one.
add_item_to_object(h, object, name, item, constant) ==
  IF object = NULL \/ name = NULL \/ item = NULL \/ object = item THEN Ok(h, FALSE)
  ELSE LET copy == IF constant THEN Ok(h, name) ELSE cJSON_strdup(h, StringAt(h, name))
           old == IF h[item].constKey THEN NULL ELSE h[item].key
           keyed == [deallocate(copy.h, old) EXCEPT ![item].key = copy.r, ![item].constKey = constant]
       IN IF copy.r = NULL THEN Ok(copy.h, FALSE) ELSE add_item_to_array(keyed, object, item)

\* A new item with another's value and children, which stay the other's.
create_reference(h, item) ==
  LET new == cJSON_New_Item(h)
  IN IF item = NULL \/ new.r = NULL THEN Failed(h)
     ELSE Ok([new.h EXCEPT ![new.r] =
                [h[item] EXCEPT !.key = NULL, !.ref = TRUE, !.next = NULL, !.prev = NULL]], new.r)

cJSON_AddItemReferenceToArray(h, array, item) ==
  LET new == create_reference(h, item)
  IN IF array = NULL THEN Ok(h, FALSE) ELSE add_item_to_array(new.h, array, new.r)

\* When the key cannot be copied the reference is lost.
cJSON_AddItemReferenceToObject(h, object, name, item) ==
  LET new == create_reference(h, item)
  IN IF object = NULL \/ name = NULL THEN Ok(h, FALSE)
     ELSE add_item_to_object(new.h, object, name, new.r, FALSE)

\* cJSON_AddNumberToObject and its like: an item that cannot be added is deleted.
AddNewToObject(new, object, name) ==
  LET added == add_item_to_object(new.h, object, name, new.r, FALSE)
  IN IF added.r THEN Ok(added.h, new.r) ELSE Failed(cJSON_Delete(added.h, new.r))

cJSON_ReplaceItemViaPointer(h, parent, item, new) ==
  IF parent = NULL \/ new = NULL \/ item = NULL \/ h[parent].child = NULL THEN Ok(h, FALSE)
  ELSE IF new = item THEN Ok(h, TRUE)
  ELSE Ok(cJSON_Delete(replace_links(h, parent, item, new), item), TRUE)

\* The replacement has its new key before the item is looked for, found or not;
\* and it loses its old one before the new one is copied.
replace_item_in_object(h, object, name, new, sensitive) ==
  LET copied == cJSON_strdup(deallocate(h, IF h[new].constKey THEN NULL ELSE h[new].key), StringAt(h, name))
      h1 == [copied.h EXCEPT ![new].key = copied.r]
      h2 == [h1 EXCEPT ![new].constKey = FALSE]
  IN IF new = NULL \/ name = NULL THEN Ok(h, FALSE)
     ELSE IF copied.r = NULL THEN Ok(h1, FALSE)
     ELSE cJSON_ReplaceItemViaPointer(h2, object, get_object_item(h2, object, StringAt(h2, copied.r), sensitive), new)

(***************************************************************************)
(* Values, copies and comparison.                                          *)
(***************************************************************************)
cJSON_SetNumberHelper(h, p, number) == [h EXCEPT ![p].number = number]

IsBool(item) == item.type \in {"True", "False"}
cJSON_SetBoolValue(h, p, b) ==
  IF IsBool(h[p]) THEN [h EXCEPT ![p].type = IF b THEN "True" ELSE "False"] ELSE h

\* A string that fits is copied over the old one, a longer one is allocated first.
cJSON_SetValuestring(h, p, s) ==
  LET item == h[p]
      copy == cJSON_strdup(h, s)
  IN IF item.type # "String" \/ item.ref \/ item.value = NULL THEN Failed(h)
     ELSE IF Len(s) <= Len(StringAt(h, item.value)) THEN Ok([h EXCEPT ![item.value].s = s], item.value)
     ELSE IF copy.r = NULL THEN copy
     ELSE Ok([deallocate(copy.h, item.value) EXCEPT ![p].value = copy.r], copy.r)

RECURSIVE cJSON_Duplicate_rec(_, _, _, _), DuplicateKids(_, _, _, _, _)
\* The copies of the list from child on are linked behind last in new; r is NULL
\* if one of them fails.
DuplicateKids(h, new, last, child, depth) ==
  LET copy == cJSON_Duplicate_rec(h, child, depth + 1, TRUE)
  IN IF child = NULL THEN Ok(IF last = NULL THEN h ELSE [h EXCEPT ![h[new].child].prev = last], new)
     ELSE IF depth >= CircularLimit THEN Failed(h)
     ELSE IF copy.r = NULL THEN copy
     ELSE DuplicateKids(IF last = NULL THEN [copy.h EXCEPT ![new].child = copy.r]
                        ELSE suffix_object(copy.h, last, copy.r),
                        new, copy.r, copy.h[child].next, depth)

\* A string or a key of the copy: NULL stays NULL, ok is FALSE without memory.
CopyOf(h, p) ==
  LET copy == cJSON_strdup(h, StringAt(h, p))
  IN IF p = NULL THEN [h |-> h, r |-> NULL, ok |-> TRUE]
     ELSE [h |-> copy.h, r |-> copy.r, ok |-> copy.r # NULL]

cJSON_Duplicate_rec(h, p, depth, recurse) ==
  LET item == h[p]
      new == cJSON_New_Item(h)
      bare == [new.h EXCEPT ![new.r].type = item.type, ![new.r].number = item.number,
                            ![new.r].constKey = item.constKey]
      value == CopyOf(bare, item.value)
      valued == [value.h EXCEPT ![new.r].value = value.r]
      key == IF item.constKey THEN [h |-> valued, r |-> item.key, ok |-> TRUE] ELSE CopyOf(valued, item.key)
      keyed == [key.h EXCEPT ![new.r].key = key.r]
      kids == DuplicateKids(keyed, new.r, NULL, item.child, depth)
  IN IF p = NULL \/ new.r = NULL THEN Failed(h)
     ELSE IF ~value.ok THEN Failed(cJSON_Delete(valued, new.r))
     ELSE IF ~key.ok THEN Failed(cJSON_Delete(keyed, new.r))
     ELSE IF ~recurse THEN Ok(keyed, new.r)
     ELSE IF kids.r = NULL THEN Failed(cJSON_Delete(kids.h, new.r))
     ELSE kids
cJSON_Duplicate(h, p, recurse) == cJSON_Duplicate_rec(h, p, 0, recurse)

\* Items of objects are compared by name, each way, the first of a name only.
RECURSIVE cJSON_Compare(_, _, _, _)
\* Slip: what only the second object has does not count.
cJSON_Compare_OneWay(h, a, b, sensitive) ==
  LET x == h[a]
      y == h[b]
      Found(object, other) ==
        \A i \in DOMAIN Kids(h, object) :
          LET kid == Kids(h, object)[i]
              match == IF h[kid].key = NULL THEN NULL
                       ELSE get_object_item(h, other, StringAt(h, h[kid].key), sensitive)
          IN match # NULL /\ cJSON_Compare(h, kid, match, sensitive)
  IN /\ a # NULL /\ b # NULL
     /\ x.type = y.type /\ x.type # "Invalid"
     /\ \/ a = b
        \/ x.type \in {"False", "True", "Null"}
        \/ x.type = "Number" /\ x.number = y.number
        \/ /\ x.type \in {"String", "Raw"} /\ x.value # NULL /\ y.value # NULL
           /\ StringAt(h, x.value) = StringAt(h, y.value)
        \/ /\ x.type = "Array"
           /\ Len(Kids(h, a)) = Len(Kids(h, b))
           /\ \A i \in DOMAIN Kids(h, a) : cJSON_Compare(h, Kids(h, a)[i], Kids(h, b)[i], sensitive)
        \/ x.type = "Object" /\ Found(a, b)
cJSON_Compare(h, a, b, sensitive) ==
  LET x == h[a]
      y == h[b]
      Found(object, other) ==
        \A i \in DOMAIN Kids(h, object) :
          LET kid == Kids(h, object)[i]
              match == IF h[kid].key = NULL THEN NULL
                       ELSE get_object_item(h, other, StringAt(h, h[kid].key), sensitive)
          IN match # NULL /\ cJSON_Compare(h, kid, match, sensitive)
  IN /\ a # NULL /\ b # NULL
     /\ x.type = y.type /\ x.type # "Invalid"
     /\ \/ a = b
        \/ x.type \in {"False", "True", "Null"}
        \/ x.type = "Number" /\ x.number = y.number
        \/ /\ x.type \in {"String", "Raw"} /\ x.value # NULL /\ y.value # NULL
           /\ StringAt(h, x.value) = StringAt(h, y.value)
        \/ /\ x.type = "Array"
           /\ Len(Kids(h, a)) = Len(Kids(h, b))
           /\ \A i \in DOMAIN Kids(h, a) : cJSON_Compare(h, Kids(h, a)[i], Kids(h, b)[i], sensitive)
        \/ x.type = "Object" /\ Found(a, b) /\ Found(b, a)

================================================================================
