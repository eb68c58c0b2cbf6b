------------------------------ MODULE JSONGrammar ------------------------------
(***************************************************************************)
(* JSON's grammar over a few tokens, apart from cJSON: which sequences of  *)
(* tokens are a value, and what a tree reads as when it has been written   *)
(* as a text.                                                              *)
(***************************************************************************)
EXTENDS CJSONText

CONSTANT Longest \* tokens in a text

One == <<49>>
Name == <<Quote, 107, Quote>>
Space == <<Blank>>
Scalars == {One, Name, TextNull}
Tokens == Scalars \cup {Space} \cup
  {<<c>> : c \in {OpenArray, CloseArray, OpenObject, CloseObject, Comma, Colon}}

\* The values of n tokens, and the lists of elements or of members, that nest
\* at most depth lists.
RECURSIVE Values(_, _), Listed(_, _, _)
OneOf(n, depth, named) ==
  IF named THEN {<<Name, <<Colon>>>> \o v : v \in Values(n - 2, depth)} ELSE Values(n, depth)
Listed(n, depth, named) ==
  OneOf(n, depth, named) \cup
  UNION {{e \o <<<<Comma>>>> \o l : e \in OneOf(m, depth, named), l \in Listed(n - m - 1, depth, named)}
         : m \in 1..(n - 2)}
Values(n, depth) ==
  LET Lists(open, close, named) ==
        {<<open>> \o l \o <<close>> : l \in IF n = 2 THEN {<<>>} ELSE Listed(n - 2, depth - 1, named)}
  IN IF n = 1 THEN {<<t>> : t \in Scalars}
     ELSE IF n < 1 \/ depth = 0 THEN {}
     ELSE Lists(<<OpenArray>>, <<CloseArray>>, FALSE) \cup Lists(<<OpenObject>>, <<CloseObject>>, TRUE)

Documents == UNION {Values(n, NestingLimit) : n \in 1..Longest}

\* The words of a text: digits in a row are one number, and spaces separate.
Words(text) ==
  LET Counts(i) == text[i] # Space /\ ~(i > 1 /\ text[i] = One /\ text[i - 1] = One)
      at == SelectSeq([i \in DOMAIN text |-> i], Counts)
  IN [i \in DOMAIN at |-> text[at[i]]]

\* A tree as it is read: the members of an object have a name, nothing else has.
RECURSIVE AsRead(_), Depth(_), Size(_)
AsRead(tree) ==
  [tree EXCEPT !.key = <<>>,
     !.kids = [i \in DOMAIN @ |->
                 [AsRead(@[i]) EXCEPT !.key = IF tree.type # "Object" THEN <<>>
                                              ELSE IF tree.kids[i].key = <<>> THEN <<<<>>>>
                                              ELSE tree.kids[i].key]]]
Most(numbers) == CHOOSE n \in numbers : \A m \in numbers : m <= n
Depth(tree) ==
  IF tree.type \notin {"Array", "Object"} THEN 0
  ELSE 1 + Most({0} \cup {Depth(tree.kids[i]) : i \in DOMAIN tree.kids})
\* The blocks it takes.
Size(tree) ==
  LET sizes[n \in 0..Len(tree.kids)] == IF n = 0 THEN 0 ELSE sizes[n - 1] + Size(tree.kids[n])
  IN 1 + Len(tree.value) + Len(tree.key) + sizes[Len(tree.kids)]

================================================================================
