-------------------------------- MODULE MCJSON --------------------------------
(***************************************************************************)
(* Strings are bytes: "k", "K" and main's literals by number.  A quotation *)
(* mark has to be escaped in a text.                                       *)
(***************************************************************************)
EXTENDS JSONSystem, TLC
CONSTANTS t1, t2

k == <<107>>
MCLiterals == << k, <<75>>, <<116, 111, 112, 105, 99>>, <<112, 97, 121, 108, 111, 97, 100>>,
                 <<108, 101, 100>>, <<115, 116, 97, 116, 101>> >>
MCNames == [topic |-> Literal(3), payload |-> Literal(4), led |-> Literal(5), state |-> Literal(6)]
D(n) == <<68, 48 + n>>
MCPins == D(1) :> 20 @@ D(2) :> 21 @@ D(3) :> 22
MCCommands == [on |-> <<79, 78>>, off |-> <<79, 70, 70>>, toggle |-> <<84>>]

MCLeaves == {<<"Number", -7>>, <<"Number", 8>>, <<"String", <<34>>>>, <<"Object", 0>>}
\* { "k":[null] }
MCTexts == {<<123, 32, 34, 107, 34, 58, 91, 110, 117, 108, 108, 93, 32, 125>>}
MCRequests == {<< <<97, 47, 98>>, <<34, 57>> >>}
Q(s) == <<34>> \o s \o <<34>>
Command(led, state) ==
  <<123>> \o Q(MCLiterals[5]) \o <<58>> \o led \o <<44>> \o Q(MCLiterals[6]) \o <<58>> \o Q(state) \o <<125>>
MCPayloads == {Command(Q(D(1)), MCCommands.toggle), Command(Q(D(3)), MCCommands.on), Command(<<51>>, MCCommands.off),
               Command(Q(D(2)), k)}

MCBallasts == [messages |-> 0..6, editor |-> {3}, reader |-> {0}]
MCMain == [messages |-> {0}]
Symmetric == Permutations(Handles)

===============================================================================
