------------------------------ MODULE JSONForest ------------------------------
(***************************************************************************)
(* What the calls of cJSON promise: the application holds trees by name,   *)
(* and a call makes, moves, changes or drops one, or changes nothing.  A   *)
(* path leads from a root to a node, one index a level.                    *)
(***************************************************************************)
EXTENDS Naturals, Sequences
LOCAL INSTANCE SequencesExt

CONSTANTS Handles, None
VARIABLE forest

Init == forest = [x \in Handles |-> None]

RECURSIVE NodeAt(_, _), SetAt(_, _, _)
NodeAt(tree, path) == IF path = <<>> THEN tree ELSE NodeAt(tree.kids[path[1]], Tail(path))
SetAt(tree, path, node) ==
  IF path = <<>> THEN node
  ELSE [tree EXCEPT !.kids[path[1]] = SetAt(@, Tail(path), node)]

Node(x, path) == NodeAt(forest[x], path)
With(x, path, node) == SetAt(forest[x], path, node)
WithKids(x, path, kids) == With(x, path, [Node(x, path) EXCEPT !.kids = kids])
Named(tree, key) == [tree EXCEPT !.key = key]

Same == UNCHANGED forest
Drop(x) == forest' = [forest EXCEPT ![x] = None]
Make(x, tree) == forest' = [forest EXCEPT ![x] = tree]
Change(x, path, node) == forest' = [forest EXCEPT ![x] = With(x, path, node)]
Append1(x, path, tree) == Change(x, path, [Node(x, path) EXCEPT !.kids = Append(@, tree)])

\* y becomes the i-th child, with the given key.
Insert(x, path, i, y, key) ==
  forest' = [forest EXCEPT ![x] = WithKids(x, path, InsertAt(Node(x, path).kids, i, Named(forest[y], key))),
                           ![y] = None]
Put(x, path, y, key) == Insert(x, path, Len(Node(x, path).kids) + 1, y, key)
Exchange(x, path, i, y, key) ==
  forest' = [forest EXCEPT ![x] = WithKids(x, path, ReplaceAt(Node(x, path).kids, i, Named(forest[y], key))),
                           ![y] = None]
TakeOut(x, path, i) == forest' = [forest EXCEPT ![x] = WithKids(x, path, RemoveAt(Node(x, path).kids, i))]
Detach(x, path, i, y) ==
  forest' = [forest EXCEPT ![x] = WithKids(x, path, RemoveAt(Node(x, path).kids, i)),
                           ![y] = Node(x, path).kids[i]]

================================================================================
