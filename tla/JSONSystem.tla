------------------------------ MODULE JSONSystem ------------------------------
(***************************************************************************)
(* Programs that use cJSON in a heap that may be full: main.cpp with its   *)
(* messages, an application that edits trees by every call there is, and   *)
(* one that reads any short text.  What the calls promise, JSONForest,     *)
(* takes each step of the editor with them.                                *)
(***************************************************************************)
EXTENDS JSONMessages

CONSTANTS
  Handles,   \* the editor's variables for trees
  Ballasts,  \* by program, "messages", "editor" or "reader", the blocks that may be in use
  Leaves,    \* <<type, number or string>> of the items the editor makes
  Keys,      \* literals it names items by
  Texts,     \* texts it parses
  Requests,  \* <<topic, message>> that main sends
  Payloads,  \* payloads of the messages that come
  MaxCalls   \* bound: calls a program makes

\* What a variable that holds no tree is said to hold.
None == [type |-> "none", number |-> 0, value |-> <<>>, key |-> <<>>, kids |-> <<>>]

VARIABLES
  program,
  mem,      \* the heap
  handle,   \* the editor's trees
  forest,   \* what they should be
  lost,     \* blocks that nobody will free
  leds,     \* main's pins
  blink,    \* main's state of the blinking pin
  text,     \* the reader's, in tokens
  sent,     \* main's last request, what came of it and the blocks it found free
  calls     \* the calls so far

vars == <<program, mem, handle, forest, lost, leds, blink, sent, text, calls>>
editorVars == <<handle, forest>>
mainVars == <<leds, blink, sent>>

F == INSTANCE JSONForest

Ballast(n) == [p \in Heap |-> IF p <= n THEN Chars(<<>>) ELSE Free]
NothingSent == [request |-> <<>>, published |-> <<>>, room |-> 0]

Init ==
  \E p \in DOMAIN Ballasts : \E n \in Ballasts[p] :
    /\ program = p
    /\ mem = Ballast(n) /\ lost = 1..n
    /\ handle = [x \in Handles |-> NULL]
    /\ F!Init
    /\ leds \in [{20, 21, 22} -> {FALSE}] /\ blink = TRUE
    /\ sent = NothingSent
    /\ text = <<>>
    /\ calls = 0

(***************************************************************************)
(* main.                                                                   *)
(***************************************************************************)
Calls == calls < MaxCalls /\ calls' = calls + 1
Main == program = "messages" /\ Calls /\ UNCHANGED <<program, editorVars, text>>
Room(h) == Cardinality(Heap \ Used(h))

Send ==
  /\ Main
  /\ \E q \in Requests :
       LET s == SendMessage(mem, q[1], q[2])
       IN /\ mem' = s.h
          /\ lost' = lost \cup s.lost
          /\ sent' = [request |-> q, published |-> s.published, room |-> Room(mem)]
  /\ UNCHANGED <<leds, blink>>

MessageArrives ==
  /\ Main
  /\ \E payload \in Payloads :
       LET m == messageArrived(mem, leds, payload)
       IN mem' = m.h /\ leds' = m.leds /\ lost' = lost \cup m.lost
  /\ UNCHANGED <<blink, sent>>

\* Every second: the pins of a temperature that is high, low or neither.
blink_leds_temp ==
  /\ Main
  /\ \E high, low \in BOOLEAN :
       /\ ~(high /\ low)
       /\ leds' = [pin \in {20, 21, 22} |-> CASE pin = 20 -> high [] pin = 21 -> blink [] pin = 22 -> low]
  /\ blink' = ~blink
  /\ UNCHANGED <<mem, lost, sent>>

(***************************************************************************)
(* The editor.  It gives an item to one list at a time, changes nothing    *)
(* that a reference shows and nothing through a reference.                 *)
(***************************************************************************)
\* An item is read as a tree; key and value are <<>> or a sequence of one.
RECURSIVE TreeAt(_, _), OwnedBy(_, _), ItemAt(_, _, _)
StringsAt(h, p) == IF p = NULL THEN <<>> ELSE <<StringAt(h, p)>>
TreeAt(h, p) ==
  [type |-> h[p].type, number |-> h[p].number, value |-> StringsAt(h, h[p].value),
   key |-> StringsAt(h, h[p].key), kids |-> [i \in DOMAIN Kids(h, p) |-> TreeAt(h, Kids(h, p)[i])]]

\* The blocks an item owns, one by one; an address twice if it owns it twice.
OwnedBy(h, p) ==
  LET item == h[p]
  IN <<p>> \o (IF item.constKey \/ item.key = NULL THEN <<>> ELSE <<item.key>>)
     \o (IF item.ref THEN <<>>
         ELSE (IF item.value = NULL THEN <<>> ELSE <<item.value>>)
              \o Joined([i \in DOMAIN Kids(h, p) |-> OwnedBy(h, Kids(h, p)[i])]))
Blockset(h, p) == LET s == OwnedBy(h, p) IN {s[i] : i \in DOMAIN s}

Items(h) == {p \in Heap : IsItem(h, p)}
References(h) == {p \in Items(h) : h[p].ref /\ p \notin lost}
\* What reference r shows that is not its own.
ShownBy(h, r) == UNION {Blockset(h, k) : k \in {Kids(h, r)[i] : i \in DOMAIN Kids(h, r)}} \cup ({h[r].value} \cap Heap)
ShownOutside(own) == UNION {ShownBy(mem, r) : r \in References(mem) \ own}

\* The nodes of the editor's trees that are not shown by a reference's list.
ItemAt(h, p, path) == IF path = <<>> THEN p ELSE ItemAt(h, Kids(h, p)[path[1]], Tail(path))
Paths(x) ==
  {<<>>} \cup {<<i>> : i \in 1..(IF mem[handle[x]].ref THEN 0 ELSE Len(Kids(mem, handle[x])))}
At_(x, path) == ItemAt(mem, handle[x], path)
Holds(x) == handle[x] # NULL
Shown(p) == p \in ShownOutside({})
ListShown(p) == Shown(p) \/ Shown(mem[p].child)
Editable(x, path, type) ==
  LET p == At_(x, path) IN mem[p].type = type /\ ~mem[p].ref /\ ~ListShown(p)

Editor == program = "editor" /\ Calls /\ UNCHANGED <<program, mainVars, text>>

\* A call that leaves heap c.h: if it succeeds the handles and the forest
\* change, if not they stay.
Handed(y) == handle' = [handle EXCEPT ![y] = NULL]
Takes(x, p) == handle' = [handle EXCEPT ![x] = p]
Call(c, succeeds, handles, promise) ==
  /\ mem' = c.h
  /\ IF succeeds THEN handles /\ promise ELSE UNCHANGED handle /\ F!Same
  /\ UNCHANGED lost

Leaf(type, v) ==
  LET hasString == type \in {"String", "Raw"}
  IN [type |-> type, number |-> IF hasString THEN 0 ELSE v, value |-> IF hasString THEN <<v>> ELSE <<>>,
      key |-> <<>>, kids |-> <<>>]
CreateLeaf(h, leaf) ==
  IF leaf[1] \in {"String", "Raw"} THEN CreateString(h, leaf[1], leaf[2]) ELSE Create(h, leaf[1], leaf[2])

CreateItem(x) ==
  /\ Editor /\ ~Holds(x)
  /\ \/ \E leaf \in Leaves :
          LET c == CreateLeaf(mem, leaf)
          IN Call(c, c.r # NULL, Takes(x, c.r), F!Make(x, Leaf(leaf[1], leaf[2])))
     \/ \E leaf \in Leaves :
          LET c == CreateArrayOf(mem, leaf[1], <<leaf[2], leaf[2]>>)
              kid == Leaf(leaf[1], leaf[2])
          IN /\ leaf[1] \in {"Number", "String"}
             /\ Call(c, c.r # NULL, Takes(x, c.r), F!Make(x, [Leaf("Array", 0) EXCEPT !.kids = <<kid, kid>>]))
     \/ \E i \in Keys :
          LET c == cJSON_CreateStringReference(mem, Literal(i))
          IN Call(c, c.r # NULL, Takes(x, c.r), F!Make(x, Leaf("String", Literals[i])))

ParseText(x) ==
  /\ Editor /\ ~Holds(x)
  /\ \E t \in Texts : \E c \in {cJSON_Parse(mem, t)} :
       Call(c, c.r # NULL, Takes(x, c.r), F!Make(x, TreeAt(c.h, c.r)))

AddToArray(x, y) ==
  /\ Editor /\ x # y /\ Holds(x) /\ Holds(y)
  /\ \E path \in Paths(x) :
       LET c == add_item_to_array(mem, At_(x, path), handle[y])
       IN /\ Editable(x, path, "Array")
          /\ Call(c, c.r, Handed(y), F!Put(x, path, y, forest[y].key))

\* The name may be the item's own key.
NamesFor(p) == {Literal(i) : i \in Keys} \cup ({mem[p].key} \ {NULL})
AddToObject(x, y) ==
  /\ Editor /\ x # y /\ Holds(x) /\ Holds(y)
  /\ \E path \in Paths(x), name \in NamesFor(handle[y]), constant \in BOOLEAN :
       LET c == add_item_to_object(mem, At_(x, path), name, handle[y], constant)
       IN /\ constant => name < 0
          /\ Editable(x, path, "Object")
          /\ Call(c, c.r, Handed(y), F!Put(x, path, y, <<StringAt(mem, name)>>))

AddNew(x) ==
  /\ Editor /\ Holds(x)
  /\ \E path \in Paths(x), i \in Keys, leaf \in Leaves :
       LET c == AddNewToObject(CreateLeaf(mem, leaf), At_(x, path), Literal(i))
       IN /\ Editable(x, path, "Object")
          /\ Call(c, c.r # NULL, UNCHANGED handle,
                  F!Append1(x, path, [Leaf(leaf[1], leaf[2]) EXCEPT !.key = <<Literals[i]>>]))

InsertItem(x, y) ==
  /\ Editor /\ x # y /\ Holds(x) /\ Holds(y)
  /\ \E path \in Paths(x) :
       \E i \in 0..(Len(Kids(mem, At_(x, path))) - 1) :
         LET c == cJSON_InsertItemInArray(mem, At_(x, path), i, handle[y])
         IN /\ Editable(x, path, "Array")
            /\ Call(c, c.r, Handed(y), F!Insert(x, path, i + 1, y, forest[y].key))

\* The child a name finds, 0 for none, in what the calls promise.
Find(tree, name, sensitive) ==
  LET Is(i) == tree.kids[i].key # <<>> /\ SameName(name, tree.kids[i].key[1], sensitive)
      hits == {i \in DOMAIN tree.kids : Is(i)}
  IN IF hits = {} THEN 0 ELSE CHOOSE i \in hits : \A j \in hits : i <= j

DetachItem(x, y) ==
  /\ Editor /\ Holds(x) /\ ~Holds(y)
  /\ \E path \in Paths(x) :
       LET parent == At_(x, path)
       IN \/ /\ Editable(x, path, "Array")
             /\ \E i \in 0..(Len(Kids(mem, parent)) - 1) :
                  LET c == cJSON_DetachItemViaPointer(mem, parent, get_array_item(mem, parent, i))
                  IN Call(c, c.r # NULL, Takes(y, c.r), F!Detach(x, path, i + 1, y))
          \/ /\ Editable(x, path, "Object")
             /\ \E i \in Keys, sensitive \in BOOLEAN :
                  LET c == cJSON_DetachItemViaPointer(mem, parent, get_object_item(mem, parent, Literals[i], sensitive))
                      found == Find(F!Node(x, path), Literals[i], sensitive)
                  IN Call(c, found # 0, Takes(y, c.r), F!Detach(x, path, found, y))

\* What a replaced or deleted item owns is not shown elsewhere.
Unshown(p) == Blockset(mem, p) \cap ShownOutside(Blockset(mem, p)) = {}

DeleteItem(x) ==
  /\ Editor /\ Holds(x)
  /\ \E path \in Paths(x) :
       LET parent == At_(x, path)
       IN \E i \in 0..(Len(Kids(mem, parent)) - 1) :
            LET c == cJSON_DetachItemViaPointer(mem, parent, get_array_item(mem, parent, i))
            IN /\ Editable(x, path, "Array") \/ Editable(x, path, "Object")
               /\ Unshown(c.r)
               /\ Call([h |-> cJSON_Delete(c.h, c.r)], TRUE, UNCHANGED handle, F!TakeOut(x, path, i + 1))

ReplaceInArray(x, y) ==
  /\ Editor /\ x # y /\ Holds(x) /\ Holds(y)
  /\ \E path \in Paths(x) :
       \E i \in 0..(Len(Kids(mem, At_(x, path))) - 1) :
         LET item == get_array_item(mem, At_(x, path), i)
             c == cJSON_ReplaceItemViaPointer(mem, At_(x, path), item, handle[y])
         IN /\ Editable(x, path, "Array") /\ Unshown(item)
            /\ Call(c, c.r, Handed(y), F!Exchange(x, path, i + 1, y, forest[y].key))

\* A replacement that finds no item keeps the name it has been given, one that
\* cannot be given it loses its own.  (A name that is its own key is not used:
\* the key is freed before it is copied.)
ReplaceInObject(x, y) ==
  /\ Editor /\ x # y /\ Holds(x) /\ Holds(y)
  /\ \E path \in Paths(x), i \in Keys, sensitive \in BOOLEAN :
       LET parent == At_(x, path)
           found == Find(F!Node(x, path), Literals[i], sensitive)
           c == replace_item_in_object(mem, parent, Literal(i), handle[y], sensitive)
           named == c.h[handle[y]].key
       IN /\ Editable(x, path, "Object")
          /\ found # 0 => Unshown(Kids(mem, parent)[found])
          /\ mem' = c.h
          /\ IF c.r THEN Handed(y) /\ F!Exchange(x, path, found, y, <<Literals[i]>>)
             ELSE /\ UNCHANGED handle
                  /\ F!Make(y, F!Named(forest[y], IF named = NULL THEN <<>> ELSE <<Literals[i]>>))
          /\ c.r <=> (found # 0 /\ named # NULL)
          /\ UNCHANGED lost

Duplicate(x, y) ==
  /\ Editor /\ Holds(x) /\ ~Holds(y)
  /\ \E path \in Paths(x), recurse \in BOOLEAN :
       LET c == cJSON_Duplicate(mem, At_(x, path), recurse)
       IN Call(c, c.r # NULL, Takes(y, c.r),
               F!Make(y, IF recurse THEN F!Node(x, path) ELSE [F!Node(x, path) EXCEPT !.kids = <<>>]))

SetValue(x) ==
  /\ Editor /\ Holds(x)
  /\ \E path \in Paths(x), leaf \in Leaves :
       LET p == At_(x, path)
           s == cJSON_SetValuestring(mem, p, leaf[2])
       IN /\ ~Shown(p)
          /\ \/ /\ leaf[1] = "Number" /\ mem[p].type = "Number"
                /\ Call([h |-> cJSON_SetNumberHelper(mem, p, leaf[2])], TRUE, UNCHANGED handle,
                        F!Change(x, path, [F!Node(x, path) EXCEPT !.number = leaf[2]]))
             \/ /\ leaf[1] = "True"
                /\ Call([h |-> cJSON_SetBoolValue(mem, p, TRUE)], IsBool(mem[p]), UNCHANGED handle,
                        F!Change(x, path, [F!Node(x, path) EXCEPT !.type = "True"]))
             \/ /\ leaf[1] = "String" /\ ~Shown(mem[p].value)
                /\ Call(s, s.r # NULL, UNCHANGED handle,
                        F!Change(x, path, [F!Node(x, path) EXCEPT !.value = <<leaf[2]>>]))

DeleteTree(x) ==
  /\ Editor /\ Holds(x) /\ Unshown(handle[x])
  /\ Call([h |-> cJSON_Delete(mem, handle[x])], TRUE, Handed(x), F!Drop(x))

\* A reference to an item, or to a list from an item on, that it is not itself in.
AddReference(x, y) ==
  /\ Editor /\ Holds(x) /\ Holds(y) /\ References(mem) = {}
  /\ \E path \in Paths(x), from \in Paths(y) :
       LET p == At_(x, path)
           item == At_(y, from)
           tree == [F!Node(y, from) EXCEPT !.key = <<>>]
           a == cJSON_AddItemReferenceToArray(mem, p, item)
       IN /\ p \notin Blockset(mem, item)
          /\ \/ /\ Editable(x, path, "Array")
                /\ Call(a, a.r, UNCHANGED handle, F!Append1(x, path, tree))
             \/ /\ Editable(x, path, "Object")
                /\ \E i \in Keys :
                     LET c == cJSON_AddItemReferenceToObject(mem, p, Literal(i), item)
                     IN /\ mem' = c.h
                        /\ UNCHANGED handle
                        /\ IF c.r THEN F!Append1(x, path, [tree EXCEPT !.key = <<Literals[i]>>]) ELSE F!Same
                        /\ lost' = IF c.r THEN lost ELSE lost \cup (Used(c.h) \ Used(mem))

CreateReference(x, y) ==
  /\ Editor /\ ~Holds(x) /\ Holds(y) /\ References(mem) = {}
  /\ \E type \in {"Array", "Object"} :
       LET p == handle[y]
           c == CreateReferenceTo(mem, type, mem[p].child)
       IN /\ mem[p].type = type
          /\ Call(c, c.r # NULL, Takes(x, c.r), F!Make(x, [Leaf(type, 0) EXCEPT !.kids = forest[y].kids]))

(***************************************************************************)
(* The reader.                                                             *)
(***************************************************************************)
Type ==
  /\ program = "reader" /\ Calls
  /\ \E t \in Tokens : text' = Append(text, t)
  /\ UNCHANGED <<program, mem, lost, editorVars, mainVars>>

Next ==
  \/ Type \/ Send \/ MessageArrives \/ blink_leds_temp
  \/ \E x, y \in Handles :
       \/ CreateItem(x) \/ ParseText(x) \/ AddToArray(x, y) \/ AddToObject(x, y) \/ AddNew(x)
       \/ InsertItem(x, y) \/ DetachItem(x, y) \/ DeleteItem(x) \/ ReplaceInArray(x, y)
       \/ ReplaceInObject(x, y) \/ Duplicate(x, y) \/ SetValue(x) \/ DeleteTree(x)
       \/ AddReference(x, y) \/ CreateReference(x, y)

Spec == Init /\ [][Next]_vars

(***************************************************************************)
(* Properties.                                                             *)
(***************************************************************************)
\* Every block in use is owned by one item of one tree, or is one of those that
\* AddItemReferenceToObject, create_json_message or messageArrived have lost; no
\* block is freed while something leads to it, or twice; every list is linked both
\* ways with its last item behind the first, and no item is in two lists.
HeapSound ==
  LET roots == {x \in Handles : Holds(x)}
      Own(x) == OwnedBy(mem, handle[x])
      owned == UNION {Blockset(mem, handle[x]) : x \in roots}
      parents == {p \in owned \cap Items(mem) : ~mem[p].ref}
  IN /\ mem \in HeapType /\ \A p \in Heap : mem[p] # Corrupt
     /\ \A x \in roots : Len(Own(x)) = Cardinality(Blockset(mem, handle[x]))
     /\ \A x, y \in roots : x = y \/ Blockset(mem, handle[x]) \cap Blockset(mem, handle[y]) = {}
     /\ owned \cap lost = {} /\ Used(mem) = owned \cup lost
     /\ AreLists(mem, [p \in parents |-> Kids(mem, p)])
     /\ \A r \in References(mem) : ShownBy(mem, r) \subseteq owned

\* The heap holds the trees that the calls have promised: those a call succeeded in
\* changing are changed as it says, in their order, and no call that fails, for want
\* of memory or of an item, has changed any other.
HeapIsForest ==
  \A x \in Handles :
    IF Holds(x) THEN forest[x] = TreeAt(mem, handle[x]) ELSE forest[x] = None

\* A tree is printed into a buffer that grows from one byte, or into one that is
\* fixed, without a byte written beyond it; one with the 5 bytes more that cJSON.h
\* asks for is large enough, and a smaller one is refused or holds the same text.
\* What is read from the text is the same tree, unless it nests too deep.
TextsReadBack ==
  LET Same(read, tree) ==
        IF Depth(tree) <= NestingLimit THEN read.r # NULL /\ TreeAt(read.h, read.r) = tree
        ELSE read.r = NULL
      Fits(b, printed, more) == ~b.over /\ (b.ok => b.text = printed.text) /\ (more = 6 => b.ok)
      Back(x, format, tree, printed) ==
        /\ printed.ok /\ ~printed.over
        /\ \A more \in {0, 1, 6} :
             Fits(cJSON_PrintPreallocated(mem, handle[x], Len(printed.text) + more, format), printed, more)
        /\ Size(tree) <= Blocks => Same(cJSON_Parse(EmptyHeap, printed.text), tree)
  IN \A x \in Handles, format \in BOOLEAN :
       Holds(x) => Back(x, format, AsRead(TreeAt(mem, handle[x])),
                        cJSON_PrintBuffered(mem, handle[x], 1, format))

\* A text is read if, and only if, it is JSON: all of it when the end is asked for,
\* and something it begins with when not, whether or not its zero byte is counted.
\* A text that is refused leaves nothing in the heap, and one that is read is printed
\* as itself without its blanks.
AcceptsJSON ==
  LET t == Joined(text)
      words == Words(text)
      Whole(c) ==
        /\ c.r # NULL <=> words \in Documents
        /\ IF c.r = NULL THEN Used(c.h) = {}
           ELSE cJSON_PrintBuffered(c.h, c.r, 256, FALSE).text = cJSON_Minify(t)
      Begun(c) ==
        /\ c.r # NULL <=> \E n \in 1..Len(words) : SubSeq(words, 1, n) \in Documents
        /\ c.r = NULL => Used(c.h) = {}
  IN program = "reader" =>
       /\ Whole(cJSON_ParseWithLengthOpts(EmptyHeap, t \o <<0>>, TRUE))
       /\ \A end \in {<<>>, <<0>>} : Begun(cJSON_ParseWithLengthOpts(EmptyHeap, t \o end, FALSE))

\* Two trees compare equal, cases told apart, if and only if they are: each item of
\* one is an item of the other, in an array in the same order, in an object under the
\* same name.  Objects with a name twice or without a name are left out: there a
\* tree need not even equal its copy.
RECURSIVE Equal(_, _), Plain(_)
Equal(t, u) ==
  LET Match(i, j) == Equal(t.kids[i], u.kids[j])
      Same(i, j) == t.kids[i].key = u.kids[j].key /\ Match(i, j)
  IN /\ t.type = u.type /\ t.number = u.number /\ t.value = u.value
     /\ Len(t.kids) = Len(u.kids)
     /\ IF t.type = "Object" THEN \A i \in DOMAIN t.kids : \E j \in DOMAIN u.kids : Same(i, j)
        ELSE \A i \in DOMAIN t.kids : Match(i, i)
Plain(t) ==
  /\ t.type = "Object" => \A i, j \in DOMAIN t.kids : t.kids[i].key # <<>> /\ (t.kids[i].key = t.kids[j].key => i = j)
  /\ \A i \in DOMAIN t.kids : Plain(t.kids[i])
ComparesTrees ==
  \A x, y \in Handles :
    LET t == TreeAt(mem, handle[x])
        u == TreeAt(mem, handle[y])
    IN (Holds(x) /\ Holds(y)) => ((Plain(t) /\ Plain(u)) =>
         (cJSON_Compare(mem, handle[x], handle[y], TRUE) <=> Equal(t, u)))

\* main publishes what it was asked to or nothing, and the eight blocks that its two
\* trees and its text take at most are enough for it.
PublishedIsAsked ==
  LET asked == sent.request IN
  asked # <<>> =>
    /\ sent.published \in {<<>>, << <<asked[1], asked[2] \o <<0>>>> >>}
    /\ sent.room >= 8 => sent.published # <<>>

\* A message that has come leaves no block behind.
GivesBack == [][MessageArrives => lost' = lost]_vars

================================================================================
